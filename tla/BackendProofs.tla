---------------------------- MODULE BackendProofs ----------------------------
(***************************************************************************)
(* What Backend guarantees for any number of slots, requests and messages: *)
(* a response becomes visible only after the samples sent before it, and   *)
(* the connection implements RemoteCall.                                   *)
(***************************************************************************)
EXTENDS Backend, TLAPS

Cmds == {"none", "acquire", "configure", "start", "request", "stop", "release"}
Statuses == {"none", "ok", "refused"}
Messages == [type : {"none", "response", "iq", "event"}, seq : Nat, status : Statuses,
             epoch : Nat]

TypeInv ==
  /\ next \in Nat /\ served \in Nat /\ visible \in Nat /\ alive \in BOOLEAN
  /\ toDaemon \in Seq([seq : Nat, cmd : Cmds])
  /\ toClient \in Seq(Messages) /\ held \in Messages
  /\ queue \in Seq(Nat) /\ active \in Nat \union {NoFrame}
  /\ call \in [kind : {"idle", "direct", "async", "failed", "over"}, seq : Nat, cmd : Cmds]
  /\ answer \in [seq : Nat, status : Statuses]

\* Requests reach the daemon without a gap for as long as it lives.
DaemonInv ==
  /\ served < next
  /\ \A i \in 1..Len(toDaemon) : toDaemon[i].seq = served + i
  /\ IF alive THEN next = served + Len(toDaemon) + 1 ELSE toDaemon = <<>>

Sorted(q) == \A i, j \in 1..Len(q) : i <= j => q[i].epoch <= q[j].epoch
Within(q, lo, hi) ==
  \A i \in 1..Len(q) : lo <= q[i].epoch /\ q[i].epoch <= hi /\ q[i].seq <= hi

\* From the socket through the reader and the queue to the callback the epochs only
\* fall, and none is older than the last visible response.
OrderInv ==
  /\ Sorted(toClient) /\ Within(toClient, visible, served) /\ visible <= served
  /\ reader \in {"full", "drain"} =>
       /\ Within(toClient, held.epoch, served)
       /\ visible <= held.epoch /\ held.epoch <= served /\ held.seq <= served
  /\ answer.status = "ok" => answer.seq <= served
  /\ active # NoFrame => visible <= active
  /\ \A i \in 1..Len(queue) : visible <= queue[i]

\* A caller reads the socket itself only while there is no reader.
ThreadInv ==
  /\ life \in {"new", "open"} => reader = "none"
  /\ reader = "none" => queue = <<>> /\ active = NoFrame
  /\ iqStop => reader = "exited"
  /\ call.kind = "direct" => life = "open"
  /\ ~duo /\ call.cmd = "start" => life = "open"

CallInv ==
  /\ call.kind \in {"direct", "async", "failed"} => call.seq >= 1 /\ call.seq = next - 1
  /\ call.kind = "async" => answer.seq = call.seq
  /\ \/ next <= MaxRequests + 1 \/ life \notin {"open", "running"} \/ call.cmd = "release"
     \/ call.cmd = "stop" /\ next <= MaxRequests + 2

Inv == TypeInv /\ DaemonInv /\ OrderInv /\ ThreadInv /\ CallInv
-----------------------------------------------------------------------------
(* Sequences of messages *)

\* The rest of a sorted queue is sorted, and not older than its head.
LEMMA TailFacts ==
  ASSUME NEW q \in Seq(Messages), q # <<>>, NEW lo \in Nat, NEW hi \in Nat,
         Sorted(q), Within(q, lo, hi)
  PROVE  /\ Head(q) \in Messages /\ Tail(q) \in Seq(Messages) /\ Sorted(Tail(q))
         /\ Within(Tail(q), lo, hi) /\ Within(Tail(q), Head(q).epoch, hi)
         /\ lo <= Head(q).epoch /\ Head(q).epoch <= hi /\ Head(q).seq <= hi
<1>1. Len(q) \in Nat /\ Len(q) >= 1 /\ Head(q) = q[1] /\ Head(q) \in Messages
      /\ Tail(q) \in Seq(Messages) /\ Len(Tail(q)) = Len(q) - 1
  OBVIOUS
<1>2. \A i \in 1..Len(Tail(q)) : Tail(q)[i] = q[i + 1] /\ i + 1 \in 1..Len(q) /\ i + 1 >= 1
  BY <1>1
<1>3. \A i \in 1..Len(q) : q[i] \in Messages
  OBVIOUS
<1>4. Sorted(Tail(q))
  BY <1>1, <1>2 DEF Sorted
<1>5. Within(Tail(q), lo, hi)
  BY <1>1, <1>2 DEF Within
<1>6. Within(Tail(q), Head(q).epoch, hi)
  BY <1>1, <1>2 DEF Within, Sorted
<1>7. lo <= Head(q).epoch /\ Head(q).epoch <= hi /\ Head(q).seq <= hi
  BY <1>1 DEF Within
<1> QED
  BY <1>1, <1>4, <1>5, <1>6, <1>7

\* A message of the newest epoch keeps the order.
LEMMA AppendFacts ==
  ASSUME NEW q \in Seq(Messages), NEW m \in Messages, NEW lo \in Nat, NEW hi \in Nat,
         NEW top \in Nat, Within(q, lo, hi), hi <= top, lo <= top, m.epoch = top, m.seq <= top
  PROVE  /\ Append(q, m) \in Seq(Messages) /\ Within(Append(q, m), lo, top)
         /\ Sorted(q) => Sorted(Append(q, m))
<1>1. /\ Append(q, m) \in Seq(Messages) /\ Len(q) \in Nat /\ Len(Append(q, m)) = Len(q) + 1
      /\ Append(q, m)[Len(q) + 1] = m
  OBVIOUS
<1>2. \A i \in 1..Len(q) : Append(q, m)[i] = q[i] /\ q[i] \in Messages
  OBVIOUS
<1>3. \A i \in 1..(Len(q) + 1) : i \in 1..Len(q) \/ i = Len(q) + 1
  BY <1>1
<1>4. \A i \in 1..Len(q) : /\ lo <= q[i].epoch /\ q[i].epoch <= hi /\ q[i].seq <= hi
                           /\ q[i].epoch \in Nat /\ q[i].seq \in Nat
  BY <1>2, SMTT(20) DEF Within, Messages
<1>5. \A i \in 1..Len(q) : q[i].epoch <= top /\ q[i].seq <= top
  BY <1>4
<1>6. Within(Append(q, m), lo, top)
  BY <1>1, <1>2, <1>3, <1>4, <1>5 DEF Within
<1>7. Sorted(q) => Sorted(Append(q, m))
  BY <1>1, <1>2, <1>3, <1>5 DEF Sorted
<1> QED
  BY <1>1, <1>6, <1>7

\* What Send does to the numbers and the requests under way.
LEMMA SendFacts ==
  ASSUME TypeInv, DaemonInv, NEW kind \in {"direct", "async"}, NEW cmd \in Cmds,
         Send(kind, cmd), alive' = alive, served' = served
  PROVE  /\ next' = next + 1 /\ result' = "none" /\ DaemonInv'
         /\ toDaemon' \in Seq([seq : Nat, cmd : Cmds])
         /\ \E k \in {kind, "failed"} : call' = [kind |-> k, seq |-> next, cmd |-> cmd]
<1>1. /\ next' = next + 1 /\ result' = "none"
      /\ \E k \in {kind, "failed"} : call' = [kind |-> k, seq |-> next, cmd |-> cmd]
      /\ toDaemon' = toDaemon \/ (alive /\ toDaemon' = Append(toDaemon, [seq |-> next, cmd |-> cmd]))
      /\ alive => toDaemon' = Append(toDaemon, [seq |-> next, cmd |-> cmd])
  BY DEF Send
<1> DEFINE r == [seq |-> next, cmd |-> cmd]
<1>2. r \in [seq : Nat, cmd : Cmds] /\ r.seq = next
  BY DEF TypeInv
<1> HIDE DEF r
<1>3. toDaemon \in Seq([seq : Nat, cmd : Cmds]) /\ next \in Nat /\ served \in Nat
      /\ alive \in BOOLEAN
  BY DEF TypeInv
<1>4. /\ Append(toDaemon, r) \in Seq([seq : Nat, cmd : Cmds])
      /\ Len(Append(toDaemon, r)) = Len(toDaemon) + 1 /\ Len(toDaemon) \in Nat
      /\ Append(toDaemon, r)[Len(toDaemon) + 1] = r
      /\ \A i \in 1..Len(toDaemon) : Append(toDaemon, r)[i] = toDaemon[i]
  BY <1>2, <1>3
<1>5. toDaemon' \in Seq([seq : Nat, cmd : Cmds])
  BY <1>1, <1>3, <1>4 DEF r
<1>6. ASSUME alive PROVE DaemonInv'
  <2>1. toDaemon' = Append(toDaemon, r) /\ next' = next + 1
    BY <1>1, <1>6 DEF r
  <2>2. /\ next = served + Len(toDaemon) + 1 /\ served < next
        /\ \A i \in 1..Len(toDaemon) : toDaemon[i].seq = served + i
    BY <1>6 DEF DaemonInv
  <2>3. Len(toDaemon') = Len(toDaemon) + 1 /\ next' = served' + Len(toDaemon') + 1
        /\ served' < next'
    BY <1>3, <1>4, <2>1, <2>2
  <2>4. ASSUME NEW i \in 1..Len(toDaemon')
        PROVE  toDaemon'[i].seq = served' + i
    <3>1. CASE i = Len(toDaemon) + 1
      BY <1>2, <1>3, <1>4, <2>1, <2>2, <3>1
    <3>2. CASE i # Len(toDaemon) + 1
      <4>1. i \in 1..Len(toDaemon)
        BY <1>4, <2>3, <3>2
      <4> QED
        BY <1>4, <2>1, <2>2, <4>1
    <3> QED
      BY <3>1, <3>2
  <2>5. alive'
    BY <1>6
  <2> QED
    BY <2>3, <2>4, <2>5, Zenon DEF DaemonInv
<1>7. ASSUME ~alive PROVE DaemonInv'
  <2>1. toDaemon' = toDaemon /\ next' = next + 1 /\ ~alive'
    BY <1>1, <1>7
  <2>2. toDaemon = <<>> /\ served < next
    BY <1>7 DEF DaemonInv
  <2>3. toDaemon' = <<>> /\ served' < next'
    BY <1>3, <2>1, <2>2
  <2>4. \A i \in 1..Len(toDaemon') : toDaemon'[i].seq = served' + i
    BY <2>3
  <2> QED
    BY <2>1, <2>3, <2>4, Zenon DEF DaemonInv
<1> QED
  BY <1>1, <1>5, <1>6, <1>7
-----------------------------------------------------------------------------
(* Each group of steps keeps the invariant *)

\* A new request takes the next number; nothing that is under way changes.
LEMMA CallingKeeps ==
  ASSUME Inv, Calling
  PROVE  Inv'
<1> USE DEF Inv
<1>1. /\ UNCHANGED <<duo, alive, served, visible, toClient, held, queue, active, iqStop>>
      /\ next \in Nat /\ served \in Nat /\ MaxRequests \in Nat
  BY BackendAssumption DEF Calling, Open, Configure, Start, StartDuo, Request, Close, Async,
     Send, StartThreads, threads, daemon, TypeInv
<1>2. PICK kind \in {"direct", "async"}, cmd \in Cmds \ {"none", "stop"} :
        /\ Send(kind, cmd)
        /\ kind = "direct" => answer' = answer /\ life' = "open" /\ reader' = reader
                              /\ life \in {"new", "open"}
        /\ kind = "async" => /\ answer' = [seq |-> next, status |-> "none"]
                             /\ life' = "running" /\ life \in {"open", "running"}
        /\ reader' = reader \/ (life = "open" /\ reader' = "reading" /\ life' = "running")
        /\ cmd = "start" => duo \/ life' = "open"
        /\ cmd # "release" => next <= MaxRequests
  BY DEF Calling, Open, Configure, Start, StartDuo, Request, Close, Async, CanCall,
     StartThreads, threads, Cmds
<1>3. /\ next' = next + 1 /\ DaemonInv' /\ toDaemon' \in Seq([seq : Nat, cmd : Cmds])
      /\ \E k \in {kind, "failed"} : call' = [kind |-> k, seq |-> next, cmd |-> cmd]
  BY <1>1, <1>2, SendFacts
<1>4. PICK k \in {kind, "failed"} : call' = [kind |-> k, seq |-> next, cmd |-> cmd]
  BY <1>3
<1>5. next >= 1
  BY <1>1 DEF DaemonInv
<1>6. TypeInv'
  BY <1>1, <1>2, <1>3, <1>4 DEF TypeInv, Statuses
<1>7. OrderInv'
  BY <1>1, <1>2 DEF OrderInv
<1>8. ThreadInv'
  BY <1>1, <1>2, <1>4 DEF ThreadInv
<1>9. CallInv'
  BY <1>1, <1>2, <1>3, <1>4, <1>5 DEF CallInv
<1> QED
  BY <1>3, <1>6, <1>7, <1>8, <1>9

\* A call that returns has nothing of the stream behind it.
LEMMA ReturningKeeps ==
  ASSUME Inv, Returning
  PROVE  Inv'
<1> USE DEF Inv
<1>1. /\ UNCHANGED <<duo, alive, served, next, toDaemon, held, queue, active, iqStop, reader,
                     life, answer>>
      /\ call' = NoCall \/ call' = [kind |-> "over", seq |-> 0, cmd |-> call.cmd]
      /\ call' = NoCall => call.cmd \in {"configure", "request"}
  BY DEF Returning, SendFailed, DirectReturn, DirectTimeout, AsyncReturn, AsyncTimeout,
     Return, threads, daemon, NoCall
<1>2. DaemonInv'
  BY <1>1 DEF DaemonInv
<1>3. ThreadInv'
  BY <1>1 DEF ThreadInv, NoCall
<1>4. CallInv'
  BY <1>1 DEF CallInv, NoCall
<1>5. call' \in [kind : {"idle", "direct", "async", "failed", "over"}, seq : Nat, cmd : Cmds]
  BY <1>1 DEF TypeInv, NoCall, Cmds
<1>6. ASSUME UNCHANGED <<toClient, visible>>
      PROVE  Inv'
  <2>1. TypeInv'
    BY <1>1, <1>5, <1>6 DEF TypeInv
  <2>2. OrderInv'
    BY <1>1, <1>6 DEF OrderInv
  <2> QED
    BY <1>2, <1>3, <1>4, <2>1, <2>2
<1>7. ASSUME DirectReturn
      PROVE  Inv'
  <2>1. /\ toClient # <<>> /\ toClient' = Tail(toClient) /\ call.kind = "direct"
        /\ visible' = visible \/ visible' = Head(toClient).epoch
    BY <1>7 DEF DirectReturn
  <2>2. reader = "none" /\ queue = <<>> /\ active = NoFrame
    BY <2>1 DEF ThreadInv
  <2>3. toClient \in Seq(Messages) /\ visible \in Nat /\ served \in Nat
    BY DEF TypeInv
  <2>4. /\ Head(toClient) \in Messages /\ toClient' \in Seq(Messages) /\ Sorted(toClient')
        /\ Within(toClient', visible, served) /\ Within(toClient', Head(toClient).epoch, served)
        /\ Head(toClient).epoch <= served /\ visible <= served
    BY <2>1, <2>3, TailFacts DEF OrderInv
  <2>5. Head(toClient).epoch \in Nat
    BY <2>4 DEF Messages
  <2>6. visible' \in Nat /\ visible' <= served /\ Within(toClient', visible', served)
    BY <2>1, <2>3, <2>4, <2>5
  <2>7. TypeInv'
    BY <1>1, <1>5, <2>4, <2>6 DEF TypeInv
  <2>8. OrderInv'
    BY <1>1, <2>2, <2>4, <2>6 DEF OrderInv
  <2> QED
    BY <1>2, <1>3, <1>4, <2>7, <2>8
<1> QED
  BY <1>6, <1>7 DEF Returning, SendFailed, DirectTimeout, AsyncReturn, AsyncTimeout

\* Threads start only while there are none, and the queue is emptied once the
\* reader is gone.
LEMMA FollowingKeeps ==
  ASSUME Inv, Following
  PROVE  Inv'
<1> USE DEF Inv
<1>1. CASE Started
  <2>1. /\ UNCHANGED <<duo, alive, served, visible, toClient, held, queue, active, iqStop, answer>>
        /\ life = "open" /\ call.cmd = "start"
    BY <1>1 DEF Started, StartThreads, threads, daemon, ThreadInv
  <2>2. next <= MaxRequests + 1 /\ reader = "none" /\ next \in Nat /\ next >= 1
        /\ MaxRequests \in Nat
    BY <2>1, BackendAssumption DEF CallInv, ThreadInv, TypeInv, DaemonInv
  <2>3. CASE StartThreads /\ call' = NoCall /\ UNCHANGED <<next, toDaemon>>
    <3>1. TypeInv' /\ DaemonInv'
      BY <2>1, <2>3 DEF TypeInv, NoCall, Cmds, DaemonInv
    <3>2. OrderInv'
      BY <2>1, <2>3 DEF OrderInv, StartThreads
    <3>3. ThreadInv' /\ CallInv'
      BY <2>1, <2>2, <2>3 DEF ThreadInv, CallInv, StartThreads, NoCall
    <3> QED
      BY <3>1, <3>2, <3>3
  <2>4. CASE Send("direct", "stop") /\ UNCHANGED <<life, threads>>
    <3>1. /\ next' = next + 1 /\ DaemonInv' /\ toDaemon' \in Seq([seq : Nat, cmd : Cmds])
          /\ \E k \in {"direct", "failed"} : call' = [kind |-> k, seq |-> next, cmd |-> "stop"]
      BY <2>1, <2>4, SendFacts DEF Cmds
    <3>2. PICK k \in {"direct", "failed"} : call' = [kind |-> k, seq |-> next, cmd |-> "stop"]
      BY <3>1
    <3>3. TypeInv'
      BY <2>1, <3>1, <3>2 DEF TypeInv, Cmds
    <3>4. OrderInv'
      BY <2>1, <2>4 DEF OrderInv, threads
    <3>5. ThreadInv' /\ CallInv'
      BY <2>1, <2>2, <2>4, <3>1, <3>2 DEF ThreadInv, CallInv, threads
    <3> QED
      BY <3>1, <3>3, <3>4, <3>5
  <2> QED
    BY <1>1, <2>3, <2>4 DEF Started
<1>2. CASE Carry
  <2>1. /\ UNCHANGED <<duo, alive, served, visible, toClient, held, queue, active, iqStop, answer,
                       reader, life, next, toDaemon>>
        /\ call' = NoCall /\ call.cmd \in {"acquire", "start"}
    BY <1>2 DEF Carry, threads, daemon
  <2>2. TypeInv' /\ DaemonInv' /\ OrderInv'
    BY <2>1 DEF TypeInv, NoCall, Cmds, DaemonInv, OrderInv
  <2>3. ThreadInv' /\ CallInv'
    BY <2>1 DEF ThreadInv, CallInv, NoCall
  <2> QED
    BY <2>2, <2>3
<1>3. CASE Shutdown
  <2>1. /\ UNCHANGED <<duo, served, visible, held, queue, active, iqStop, answer, reader, next>>
        /\ call' = NoCall /\ ~alive' /\ alive' \in BOOLEAN
        /\ toDaemon' = <<>> /\ toClient' = <<>>
        /\ life' \in {"shut", "gone"}
    BY <1>3 DEF Shutdown, threads
  <2>2. Sorted(<<>>) /\ \A lo, hi : Within(<<>>, lo, hi)
    BY DEF Sorted, Within
  <2>3. TypeInv' /\ DaemonInv' /\ OrderInv'
    BY <2>1, <2>2 DEF TypeInv, NoCall, Cmds, DaemonInv, OrderInv
  <2>4. ThreadInv' /\ CallInv'
    BY <2>1 DEF ThreadInv, CallInv, NoCall
  <2> QED
    BY <2>3, <2>4
<1>4. CASE Joined \/ Closed
  <2>1. /\ UNCHANGED <<duo, alive, served, visible, toClient, held, active, answer, reader, next,
                       toDaemon, call>>
        /\ life \in {"shut", "stopping"} /\ life' \in {"stopping", "gone"}
        /\ \/ queue' = queue /\ iqStop' = iqStop
           \/ queue' = <<>> /\ reader = "exited"
    BY <1>4 DEF Joined, Closed, threads, daemon
  <2>2. queue' \in Seq(Nat)
    <3>1. queue \in Seq(Nat)
      BY DEF TypeInv
    <3>2. <<>> \in Seq(Nat)
      OBVIOUS
    <3> QED
      BY ONLY <2>1, <3>1, <3>2
  <2>3. TypeInv'
    BY <2>1, <2>2 DEF TypeInv
  <2>4. DaemonInv'
    BY <2>1 DEF DaemonInv
  <2>5. OrderInv'
    BY <2>1 DEF OrderInv
  <2>6. ThreadInv' /\ CallInv'
    BY <2>1 DEF ThreadInv, CallInv
  <2> QED
    BY <2>3, <2>4, <2>5, <2>6
<1> QED
  BY <1>1, <1>2, <1>3, <1>4 DEF Following

\* What the daemon sends carries the number of requests it has served.
LEMMA DaemonKeeps ==
  ASSUME Inv, Daemon
  PROVE  Inv'
<1> USE DEF Inv
<1>1. UNCHANGED <<duo, life, call, next, answer, visible, reader, held, queue, active, iqStop>>
  BY DEF Daemon, Serve, SendFrame, SendEvent, Die, threads, caller
<1>2. ThreadInv' /\ CallInv'
  BY <1>1 DEF ThreadInv, CallInv
<1>3. /\ next \in Nat /\ served \in Nat /\ visible \in Nat /\ toClient \in Seq(Messages)
      /\ toDaemon \in Seq([seq : Nat, cmd : Cmds]) /\ held \in Messages /\ held.epoch \in Nat
      /\ held.seq \in Nat /\ answer.seq \in Nat
  BY DEF TypeInv, Messages
<1>4. ASSUME NEW m \in Messages, NEW top \in Nat, served <= top, m.epoch = top, m.seq <= top,
             toClient' = Append(toClient, m), served' = top
      PROVE  toClient' \in Seq(Messages) /\ OrderInv'
  <2>1. Sorted(toClient) /\ Within(toClient, visible, served) /\ visible <= served
    BY DEF OrderInv
  <2>2. visible <= top
    BY <1>3, <1>4, <2>1
  <2>3. toClient' \in Seq(Messages) /\ Sorted(toClient') /\ Within(toClient', visible, top)
    BY <1>3, <1>4, <2>1, <2>2, AppendFacts
  <2>4. ASSUME reader' \in {"full", "drain"}
        PROVE  /\ Within(toClient', held'.epoch, served')
               /\ visible' <= held'.epoch /\ held'.epoch <= served' /\ held'.seq <= served'
    <3>1. /\ Within(toClient, held.epoch, served)
          /\ visible <= held.epoch /\ held.epoch <= served /\ held.seq <= served
      BY <1>1, <2>4 DEF OrderInv
    <3>2. held.epoch <= top /\ held.seq <= top
      BY <1>3, <1>4, <3>1
    <3>3. Within(toClient', held.epoch, top)
      BY <1>3, <1>4, <3>1, <3>2, AppendFacts
    <3> QED
      BY <1>1, <1>4, <3>1, <3>2, <3>3
  <2>5. answer'.status = "ok" => answer'.seq <= served'
    BY <1>1, <1>3, <1>4 DEF OrderInv
  <2>6. /\ active' # NoFrame => visible' <= active'
        /\ \A i \in 1..Len(queue') : visible' <= queue'[i]
    BY <1>1 DEF OrderInv
  <2>7. Sorted(toClient)' /\ Within(toClient, visible, served)' /\ visible' <= served'
    BY <1>1, <1>4, <2>2, <2>3
  <2> QED
    BY <2>3, <2>4, <2>5, <2>6, <2>7 DEF OrderInv
<1>5. ASSUME NEW status \in {"ok", "refused"}, Serve(status)
      PROVE  Inv'
  <2> DEFINE r == Head(toDaemon)
             m == [type |-> "response", seq |-> r.seq, status |-> status, epoch |-> r.seq]
  <2>1. /\ alive /\ toDaemon # <<>> /\ toDaemon' = Tail(toDaemon) /\ served' = r.seq
        /\ toClient' = Append(toClient, m) /\ alive' = alive
    BY <1>5 DEF Serve, Message
  <2>2. /\ r = toDaemon[1] /\ r \in [seq : Nat, cmd : Cmds]
        /\ Len(toDaemon) \in Nat /\ Len(toDaemon) >= 1
        /\ toDaemon' \in Seq([seq : Nat, cmd : Cmds]) /\ Len(toDaemon') = Len(toDaemon) - 1
        /\ \A i \in 1..Len(toDaemon') : toDaemon'[i] = toDaemon[i + 1] /\ i + 1 \in 1..Len(toDaemon)
    <3> DEFINE R == [seq : Nat, cmd : Cmds]
    <3>1. toDaemon \in Seq(R) /\ toDaemon # <<>> /\ toDaemon' = Tail(toDaemon)
      BY <1>3, <2>1
    <3> HIDE DEF R
    <3>2. /\ r = toDaemon[1] /\ r \in R /\ Len(toDaemon) \in Nat /\ Len(toDaemon) >= 1
          /\ toDaemon' \in Seq(R) /\ Len(toDaemon') = Len(toDaemon) - 1
      BY ONLY <3>1
    <3>3. \A i \in 1..Len(toDaemon') : toDaemon'[i] = toDaemon[i + 1] /\ i + 1 \in 1..Len(toDaemon)
      BY ONLY <3>1, <3>2
    <3> QED
      BY <3>2, <3>3 DEF R
  <2>3. /\ \A i \in 1..Len(toDaemon) : toDaemon[i].seq = served + i
        /\ next = served + Len(toDaemon) + 1
    BY <2>1 DEF DaemonInv
  <2>4. r.seq = served + 1 /\ r.seq \in Nat /\ served <= r.seq
    <3>1. 1 \in 1..Len(toDaemon)
      BY ONLY <2>2
    <3>2. toDaemon[1].seq = served + 1
      BY ONLY <2>3, <3>1
    <3> QED
      BY <1>3, <2>2, <3>2
  <2>5. m \in Messages /\ m.epoch = r.seq /\ m.seq = r.seq
    BY <2>4 DEF Messages, Statuses
  <2> HIDE DEF m, r
  <2>6. toClient' \in Seq(Messages) /\ OrderInv'
    BY <1>4, <2>1, <2>4, <2>5
  <2>7. /\ \A i \in 1..Len(toDaemon') : toDaemon'[i].seq = served' + i
        /\ next' = served' + Len(toDaemon') + 1 /\ served' < next'
    BY <1>1, <1>3, <2>1, <2>2, <2>3, <2>4, SMTT(20)
  <2>8. DaemonInv'
    BY <2>1, <2>7 DEF DaemonInv
  <2>9. TypeInv'
    BY <1>1, <2>1, <2>2, <2>4, <2>6 DEF TypeInv
  <2> QED
    BY <1>2, <2>6, <2>8, <2>9
<1>6. ASSUME SendFrame \/ SendEvent
      PROVE  Inv'
  <2>1. PICK t \in {"iq", "event"} :
          toClient' = Append(toClient, [type |-> t, seq |-> 0, status |-> "none", epoch |-> served])
    BY <1>6 DEF SendFrame, SendEvent, Message
  <2> DEFINE m == [type |-> t, seq |-> 0, status |-> "none", epoch |-> served]
  <2>2. m \in Messages /\ m.epoch = served /\ m.seq <= served
    BY <1>3 DEF Messages, Statuses
  <2>3. UNCHANGED <<alive, toDaemon, served>>
    BY <1>6 DEF SendFrame, SendEvent
  <2>4. toClient' = Append(toClient, m) /\ served <= served
    BY <1>3, <2>1
  <2> HIDE DEF m
  <2>5. toClient' \in Seq(Messages) /\ OrderInv'
    BY <1>3, <1>4, <2>2, <2>3, <2>4
  <2>6. DaemonInv'
    BY <1>1, <2>3 DEF DaemonInv
  <2>7. TypeInv'
    BY <1>1, <2>3, <2>5 DEF TypeInv
  <2> QED
    BY <1>2, <2>5, <2>6, <2>7
<1>7. ASSUME Die
      PROVE  Inv'
  <2>1. UNCHANGED <<served, toClient>> /\ toDaemon' = <<>> /\ alive' = FALSE
    BY <1>7 DEF Die
  <2>2. toDaemon' \in Seq([seq : Nat, cmd : Cmds])
    BY ONLY <2>1
  <2>3. TypeInv'
    BY <1>1, <2>1, <2>2 DEF TypeInv
  <2>4. \A i \in 1..Len(toDaemon') : toDaemon'[i].seq = served' + i
    BY ONLY <2>1
  <2>5. DaemonInv'
    BY <1>1, <2>1, <2>4 DEF DaemonInv
  <2>6. OrderInv'
    BY <1>1, <2>1 DEF OrderInv
  <2> QED
    BY <1>2, <2>3, <2>5, <2>6
<1> QED
  BY <1>5, <1>6, <1>7 DEF Daemon

\* A queued frame displaces at most an older one.
LEMMA EnqueueFacts ==
  ASSUME queue \in Seq(Nat), NEW v \in Nat, NEW f \in Nat, v <= f,
         \A i \in 1..Len(queue) : v <= queue[i], Enqueue(f)
  PROVE  queue' \in Seq(Nat) /\ \A i \in 1..Len(queue') : v <= queue'[i]
<1>1. ASSUME NEW q \in Seq(Nat), \A i \in 1..Len(q) : v <= q[i]
      PROVE  /\ Append(q, f) \in Seq(Nat)
             /\ \A i \in 1..Len(Append(q, f)) : v <= Append(q, f)[i]
  <2>1. Append(q, f) \in Seq(Nat) /\ Len(Append(q, f)) = Len(q) + 1 /\ Len(q) \in Nat
    OBVIOUS
  <2>2. Append(q, f)[Len(q) + 1] = f /\ \A i \in 1..Len(q) : Append(q, f)[i] = q[i]
    OBVIOUS
  <2>3. \A i \in 1..(Len(q) + 1) : i \in 1..Len(q) \/ i = Len(q) + 1
    BY <2>1
  <2> QED
    BY <1>1, <2>1, <2>2, <2>3
<1>2. queue' = Append(IF Full THEN Tail(queue) ELSE queue, f)
  BY DEF Enqueue, Queued
<1>3. CASE ~Full
  BY <1>1, <1>2, <1>3
<1>4. CASE Full
  <2>1. queue # <<>> /\ Len(queue) \in Nat
    BY <1>4, BackendAssumption DEF Full
  <2>2. /\ Tail(queue) \in Seq(Nat) /\ Len(Tail(queue)) = Len(queue) - 1
        /\ \A i \in 1..Len(Tail(queue)) : Tail(queue)[i] = queue[i + 1]
    BY <2>1
  <2>3. \A i \in 1..Len(Tail(queue)) : i + 1 \in 1..Len(queue)
    BY <2>1, <2>2
  <2>4. \A i \in 1..Len(Tail(queue)) : v <= Tail(queue)[i]
    BY <2>2, <2>3
  <2> QED
    BY <1>1, <1>2, <1>4, <2>2, <2>4
<1> QED
  BY <1>3, <1>4

\* The reader takes messages in order and passes a response on only when every
\* frame before it has been handed out.
LEMMA ReadingKeeps ==
  ASSUME Inv, Reading
  PROVE  Inv'
<1> USE DEF Inv
<1>1. /\ UNCHANGED <<duo, life, call, next, active, iqStop, alive, served, toDaemon>>
      /\ reader # "none" /\ reader' # "none" /\ reader # "exited"
  BY DEF Reading, ReadFrame, FullOver, ReadEvent, ReadResponse, DrainSleep, Respond, ReadFailed,
     ReaderExit, Enqueue, caller, daemon, threads
<1>2. DaemonInv' /\ ThreadInv'
  BY <1>1 DEF DaemonInv, ThreadInv
<1>3. /\ served \in Nat /\ visible \in Nat /\ toClient \in Seq(Messages) /\ queue \in Seq(Nat)
      /\ held \in Messages /\ held.epoch \in Nat /\ held.seq \in Nat
      /\ NoMessage \in Messages
  BY DEF TypeInv, Messages, NoMessage, Statuses
<1>4. ASSUME toClient # <<>>
      PROVE  /\ Head(toClient) \in Messages /\ Tail(toClient) \in Seq(Messages)
             /\ Sorted(Tail(toClient)) /\ Within(Tail(toClient), visible, served)
             /\ Within(Tail(toClient), Head(toClient).epoch, served)
             /\ visible <= Head(toClient).epoch /\ Head(toClient).epoch <= served
             /\ Head(toClient).seq <= served /\ Head(toClient).epoch \in Nat
  <2>1. /\ Head(toClient) \in Messages /\ Tail(toClient) \in Seq(Messages)
        /\ Sorted(Tail(toClient)) /\ Within(Tail(toClient), visible, served)
        /\ Within(Tail(toClient), Head(toClient).epoch, served)
        /\ visible <= Head(toClient).epoch /\ Head(toClient).epoch <= served
        /\ Head(toClient).seq <= served
    BY <1>3, <1>4, TailFacts DEF OrderInv
  <2>2. Head(toClient).epoch \in Nat
    BY <2>1 DEF Messages
  <2> QED
    BY <2>1, <2>2
<1>5. CASE ReadFrame
  <2>1. /\ toClient # <<>> /\ toClient' = Tail(toClient) /\ UNCHANGED <<answer, visible>>
        /\ \/ Enqueue(Head(toClient).epoch)
           \/ held' = Head(toClient) /\ queue' = queue
    BY <1>5 DEF ReadFrame, caller
  <2>2. CASE Enqueue(Head(toClient).epoch)
    <3>1. queue' \in Seq(Nat) /\ \A i \in 1..Len(queue') : visible <= queue'[i]
      BY <1>3, <1>4, <2>1, <2>2, EnqueueFacts, SMTT(20) DEF OrderInv
    <3>2. reader' = "reading" /\ held' = NoMessage
      BY <2>2 DEF Enqueue
    <3>3. TypeInv' /\ CallInv'
      BY <1>1, <1>3, <1>4, <2>1, <3>1, <3>2, SMTT(20) DEF TypeInv, CallInv
    <3>4. OrderInv'
      BY <1>1, <1>4, <2>1, <3>1, <3>2, SMTT(20) DEF OrderInv
    <3> QED
      BY <1>2, <3>3, <3>4
  <2>3. CASE held' = Head(toClient) /\ queue' = queue
    <3>1. TypeInv' /\ CallInv'
      BY <1>1, <1>4, <2>1, <2>3 DEF TypeInv, CallInv
    <3>2. OrderInv'
      BY <1>1, <1>4, <2>1, <2>3 DEF OrderInv
    <3> QED
      BY <1>2, <3>1, <3>2
  <2> QED
    BY <2>1, <2>2, <2>3
<1>6. CASE FullOver
  <2>1. /\ UNCHANGED <<answer, visible, toClient>> /\ reader = "full" /\ Enqueue(held.epoch)
        /\ reader' = "reading" /\ held' = NoMessage
    BY <1>6 DEF FullOver, Enqueue, caller
  <2>2. visible <= held.epoch
    BY <2>1 DEF OrderInv
  <2>3. queue' \in Seq(Nat) /\ \A i \in 1..Len(queue') : visible <= queue'[i]
    BY <1>3, <2>1, <2>2, EnqueueFacts DEF OrderInv
  <2>4. TypeInv' /\ CallInv'
    BY <1>1, <1>3, <2>1, <2>3 DEF TypeInv, CallInv
  <2>5. OrderInv'
    BY <1>1, <2>1, <2>3 DEF OrderInv
  <2> QED
    BY <1>2, <2>4, <2>5
<1>7. CASE ReadEvent
  <2>1. /\ toClient # <<>> /\ toClient' = Tail(toClient) /\ reader = "reading"
        /\ UNCHANGED <<answer, visible, queue, held, reader>>
    BY <1>7 DEF ReadEvent, caller, threads
  <2>2. TypeInv' /\ CallInv'
    BY <1>1, <1>4, <2>1 DEF TypeInv, CallInv
  <2>3. OrderInv'
    BY <1>1, <1>4, <2>1 DEF OrderInv
  <2> QED
    BY <1>2, <2>2, <2>3
<1>8. CASE ReadResponse
  <2>1. /\ toClient # <<>> /\ toClient' = Tail(toClient) /\ held' = Head(toClient)
        /\ UNCHANGED <<answer, visible, queue>>
    BY <1>8 DEF ReadResponse, caller
  <2>2. TypeInv' /\ CallInv'
    BY <1>1, <1>4, <2>1 DEF TypeInv, CallInv
  <2>3. OrderInv'
    BY <1>1, <1>4, <2>1 DEF OrderInv
  <2> QED
    BY <1>2, <2>2, <2>3
<1>9. CASE Respond
  <2>1. /\ reader = "drain" /\ reader' = "reading" /\ held' = NoMessage /\ (Drained \/ iqStop)
        /\ UNCHANGED <<queue, toClient>>
        /\ answer' = IF Accepted(held) THEN [answer EXCEPT !.status = held.status] ELSE answer
        /\ visible' = visible \/ visible' = held.epoch
    BY <1>9 DEF Respond
  <2>2. queue = <<>> /\ active = NoFrame
    BY <2>1 DEF ThreadInv, Drained
  <2>3. /\ Within(toClient, visible, served) /\ Within(toClient, held.epoch, served)
        /\ visible <= served /\ held.epoch <= served /\ held.seq <= served
    BY <2>1 DEF OrderInv
  <2>4. visible' \in Nat /\ visible' <= served /\ Within(toClient, visible', served)
    BY <1>3, <2>1, <2>3
  <2>5. /\ answer' \in [seq : Nat, status : Statuses] /\ answer'.seq = answer.seq
        /\ answer' = answer \/ answer'.seq = held.seq
    BY <2>1 DEF TypeInv, Accepted, Messages
  <2>6. answer'.status = "ok" => answer'.seq <= served
    BY <2>3, <2>5 DEF OrderInv
  <2>7. TypeInv' /\ CallInv'
    BY <1>1, <1>3, <2>1, <2>4, <2>5 DEF TypeInv, CallInv
  <2>8. OrderInv'
    BY <1>1, <2>1, <2>2, <2>4, <2>6 DEF OrderInv
  <2> QED
    BY <1>2, <2>7, <2>8
<1>10. CASE DrainSleep \/ ReadFailed \/ ReaderExit
  <2>1. /\ UNCHANGED <<answer, visible, toClient, queue, held>>
        /\ reader' = reader \/ reader' \in {"failing", "exited"}
    BY <1>10 DEF DrainSleep, ReadFailed, ReaderExit, caller
  <2>2. TypeInv' /\ CallInv'
    BY <1>1, <2>1 DEF TypeInv, CallInv
  <2>3. OrderInv'
    BY <1>1, <2>1 DEF OrderInv
  <2> QED
    BY <1>2, <2>2, <2>3
<1> QED
  BY <1>5, <1>6, <1>7, <1>8, <1>9, <1>10 DEF Reading

\* The IQ thread only moves the oldest frame to the callback.
LEMMA DeliveringKeeps ==
  ASSUME Inv, Delivering
  PROVE  Inv'
<1> USE DEF Inv
<1>1. UNCHANGED <<duo, life, call, next, answer, visible, reader, held, iqStop, alive, served,
                  toDaemon, toClient>>
  BY DEF Delivering, IqSleep, IqTake, IqDone, IqExit, caller, daemon
<1>2. DaemonInv' /\ CallInv'
  BY <1>1 DEF DaemonInv, CallInv
<1>3. queue \in Seq(Nat) /\ visible \in Nat
  BY DEF TypeInv
<1>4. CASE IqTake
  <2>1. queue # <<>> /\ active' = Head(queue) /\ queue' = Tail(queue) /\ reader # "none"
    BY <1>4 DEF IqTake, ThreadInv
  <2>2. /\ active' \in Nat /\ active' = queue[1] /\ Len(queue) \in Nat /\ Len(queue) >= 1
        /\ queue' \in Seq(Nat) /\ Len(queue') = Len(queue) - 1
        /\ \A i \in 1..Len(queue') : queue'[i] = queue[i + 1]
    BY <1>3, <2>1
  <2>3. 1 \in 1..Len(queue) /\ \A i \in 1..Len(queue') : i + 1 \in 1..Len(queue)
    BY <2>2
  <2>4. visible' <= active' /\ \A i \in 1..Len(queue') : visible' <= queue'[i]
    BY <1>1, <2>2, <2>3, SMTT(20) DEF OrderInv
  <2>5. TypeInv' /\ ThreadInv'
    BY <1>1, <2>1, <2>2 DEF TypeInv, ThreadInv
  <2>6. OrderInv'
    BY <1>1, <2>4 DEF OrderInv
  <2> QED
    BY <1>2, <2>5, <2>6
<1>5. CASE IqSleep \/ IqDone \/ IqExit
  <2>1. queue' = queue /\ active' \in {active, NoFrame}
    BY <1>5 DEF IqSleep, IqDone, IqExit
  <2>2. TypeInv' /\ ThreadInv'
    BY <1>1, <2>1 DEF TypeInv, ThreadInv
  <2>3. OrderInv'
    BY <1>1, <2>1 DEF OrderInv
  <2> QED
    BY <1>2, <2>2, <2>3
<1> QED
  BY <1>4, <1>5 DEF Delivering
-----------------------------------------------------------------------------
(* The theorems *)

\* A connection starts with nothing sent and no threads.
LEMMA InitHolds ==
  ASSUME Init
  PROVE  Inv
<1>1. TypeInv
  BY DEF Init, TypeInv, NoCall, NoMessage, Messages, Statuses, Cmds
<1>2. DaemonInv /\ Sorted(toClient) /\ Within(toClient, visible, served)
  BY DEF Init, DaemonInv, Sorted, Within
<1>3. OrderInv
  BY <1>2 DEF Init, OrderInv
<1>4. ThreadInv /\ CallInv
  BY BackendAssumption DEF Init, ThreadInv, CallInv, NoCall
<1> QED
  BY <1>1, <1>2, <1>3, <1>4, SMTT(20) DEF Inv

\* Every behaviour of the connection keeps the invariant.
THEOREM Inductive == Spec => []Inv
<1>1. Init => Inv
  BY InitHolds
<1>2. Inv /\ [Next]_vars => Inv'
  <2>1. CASE UNCHANGED vars
    BY <2>1 DEF vars, Inv, TypeInv, DaemonInv, OrderInv, ThreadInv, CallInv
  <2> QED
    BY <2>1, CallingKeeps, ReturningKeeps, FollowingKeeps, DaemonKeeps, ReadingKeeps,
       DeliveringKeeps, SMTT(20) DEF Next
<1> QED
  BY <1>1, <1>2, PTL DEF Spec

\* Once a response is visible to its caller, no frame sent before it is in the
\* queue or in the stream callback (drain_iq_before_response).
THEOREM EpochsKept == Spec => []EpochOrder
<1>1. Inv => EpochOrder
  <2> SUFFICES ASSUME Inv, NEW f \in {active} \union {queue[i] : i \in DOMAIN queue}, f # NoFrame
               PROVE  f >= visible
    BY DEF EpochOrder
  <2>1. queue \in Seq(Nat) /\ visible \in Nat /\ active \in Nat \union {NoFrame}
    BY DEF Inv, TypeInv
  <2>2. CASE f = active
    BY <2>1, <2>2 DEF Inv, OrderInv
  <2>3. CASE f \in {queue[i] : i \in DOMAIN queue}
    <3>1. PICK i \in DOMAIN queue : f = queue[i]
      BY <2>3
    <3>2. i \in 1..Len(queue) /\ queue[i] \in Nat
      BY <2>1, <3>1
    <3> QED
      BY <2>1, <3>1, <3>2 DEF Inv, OrderInv
  <2> QED
    BY <2>2, <2>3
<1> QED
  BY <1>1, Inductive, PTL
-----------------------------------------------------------------------------
(* The connection implements RemoteCall *)

Pending == {"direct", "async", "failed"}

\* Sending a request issues its number.
LEMMA IssueStep ==
  ASSUME Inv, NEW kind \in {"direct", "async"}, NEW cmd \in Cmds, Send(kind, cmd),
         alive' = alive, served' = served, call.kind \notin Pending, next <= MaxRequests + 2
  PROVE  Calls!Next
<1>1. next \in Nat /\ next >= 1 /\ MaxRequests \in Nat
  BY BackendAssumption DEF Inv, TypeInv, DaemonInv
<1>2. /\ next' = next + 1 /\ result' = "none"
      /\ \E k \in {kind, "failed"} : call' = [kind |-> k, seq |-> next, cmd |-> cmd]
  BY SendFacts DEF Inv
<1>3. call'.kind \in Pending /\ call'.seq = next
  BY <1>2 DEF Pending
<1>4. 1..(next' - 1) = (1..(next - 1)) \union {next} /\ \A j \in 1..(next - 1) : j < next
  BY <1>1, <1>2
<1>5. next \in 1..(MaxRequests + 2)
  BY <1>1
<1>6. Calls!Issue(next)
  BY <1>2, <1>3, <1>4 DEF Calls!Issue, Pending
<1> QED
  BY <1>5, <1>6 DEF Calls!Next

\* Every step of the connection is a step of RemoteCall or none.
LEMMA CallStep ==
  ASSUME Inv, Next
  PROVE  Calls!Next \/ UNCHANGED Calls!vars
<1>1. /\ next \in Nat /\ next >= 1 /\ served \in Nat /\ MaxRequests \in Nat
      /\ call.seq \in Nat /\ answer.seq \in Nat
  BY BackendAssumption DEF Inv, TypeInv, DaemonInv
<1>2. ASSUME NEW status \in {"ok", "refused"}, Serve(status)
      PROVE  Calls!Next
  <2>1. /\ alive /\ toDaemon # <<>> /\ served' = Head(toDaemon).seq
        /\ UNCHANGED <<next, call, result>>
    BY <1>2 DEF Serve, caller
  <2>2. /\ toDaemon \in Seq([seq : Nat, cmd : Cmds])
        /\ next = served + Len(toDaemon) + 1
        /\ \A i \in 1..Len(toDaemon) : toDaemon[i].seq = served + i
    BY <2>1, SMTT(20) DEF Inv, TypeInv, DaemonInv
  <2>3. Len(toDaemon) \in Nat /\ Len(toDaemon) >= 1 /\ Head(toDaemon) = toDaemon[1]
    BY <2>1, <2>2
  <2>4. 1 \in 1..Len(toDaemon)
    BY <2>3
  <2>5. served' = served + 1
    BY <2>1, <2>2, <2>3, <2>4
  <2>6. /\ served + 1 \in 1..(next - 1) /\ \A j \in 1..served : j < served + 1
        /\ 1..served' = (1..served) \union {served + 1}
    BY <1>1, <2>2, <2>3, <2>5
  <2>7. Calls!Perform(served + 1)
    BY <2>1, <2>6 DEF Calls!Perform
  <2> QED
    BY <2>6, <2>7 DEF Calls!Next
<1>3. ASSUME Calling
      PROVE  Calls!Next
  <2>1. PICK kind \in {"direct", "async"}, cmd \in Cmds : Send(kind, cmd)
    BY <1>3 DEF Calling, Open, Configure, Start, StartDuo, Request, Close, Async, Cmds
  <2>2. alive' = alive /\ served' = served
    BY <1>3, SMTT(20) DEF Calling, Open, Configure, Start, StartDuo, Request, Close, daemon
  <2>3. call.kind \notin Pending
    BY <1>3 DEF Calling, Open, Configure, Start, StartDuo, Request, Close, CanCall, MustClose,
       NoCall, Pending
  <2>4. next <= MaxRequests + 2
    <3>1. CASE next <= MaxRequests
      BY <1>1, <3>1
    <3>2. CASE Close
      <4>1. life \in {"open", "running"} /\ call.cmd # "release"
        BY <3>2 DEF Close, MustClose, NoCall
      <4> QED
        BY <1>1, <4>1 DEF Inv, CallInv
    <3> QED
      BY <1>3, <3>1, <3>2 DEF Calling, Open, Configure, Start, StartDuo, Request, CanCall
  <2> QED
    BY <2>1, <2>2, <2>3, <2>4, IssueStep
<1>4. ASSUME Returning
      PROVE  Calls!Next
  <2>1. /\ call.kind \in Pending /\ call'.kind \notin Pending
        /\ UNCHANGED <<next, served>> /\ result' \in {"ok", "failed"}
    <3>1. /\ call.kind \in Pending /\ UNCHANGED <<next, served>>
          /\ \E ok \in BOOLEAN : Return(ok)
      <4>1. CASE SendFailed
        BY <4>1 DEF SendFailed, Pending, daemon
      <4>2. CASE DirectReturn
        <5>1. (Matches(Head(toClient)) /\ Head(toClient).status = "ok") \in BOOLEAN
          OBVIOUS
        <5> QED
          BY <4>2, <5>1 DEF DirectReturn, Pending, daemon
      <4>3. CASE DirectTimeout
        BY <4>3 DEF DirectTimeout, Pending, daemon
      <4>4. CASE AsyncReturn
        <5>1. (answer.status = "ok") \in BOOLEAN
          OBVIOUS
        <5> QED
          BY <4>4, <5>1 DEF AsyncReturn, Pending, daemon
      <4>5. CASE AsyncTimeout
        BY <4>5 DEF AsyncTimeout, Pending, daemon
      <4> QED
        BY <1>4, <4>1, <4>2, <4>3, <4>4, <4>5 DEF Returning
    <3> QED
      BY <3>1 DEF Return, NoCall, Pending
  <2>2. call.seq >= 1 /\ call.seq # 0
    BY <1>1, <2>1 DEF Inv, CallInv, Pending
  <2>3. ASSUME result' = "ok"
        PROVE  call.seq <= served
    <3>1. CASE DirectReturn
      <4>1. toClient # <<>> /\ Head(toClient).seq = call.seq
        BY <2>3, <3>1 DEF DirectReturn, Return, Matches
      <4>2. Head(toClient).seq <= served
        BY <1>1, <4>1, TailFacts DEF Inv, TypeInv, OrderInv
      <4> QED
        BY <4>1, <4>2
    <3>2. CASE AsyncReturn
      <4>1. call.kind = "async" /\ answer.status = "ok"
        BY <2>3, <3>2 DEF AsyncReturn, Return
      <4> QED
        BY <4>1 DEF Inv, CallInv, OrderInv
    <3> QED
      BY <1>4, <2>3, <3>1, <3>2 DEF Returning, SendFailed, DirectTimeout, AsyncTimeout, Return
  <2>4. result' = "ok" => call.seq \in 1..served
    BY <1>1, <2>2, <2>3
  <2>5. Calls!Return(result')
    BY <2>1, <2>2, <2>4 DEF Calls!Return, Pending
  <2> QED
    BY <2>1, <2>5, SMTT(20) DEF Calls!Next
<1>5. CASE Started
  <2>1. CASE call' = NoCall /\ UNCHANGED <<next, result>>
    BY <1>5, <2>1 DEF Started, Calls!vars, NoCall, daemon
  <2>2. CASE Send("direct", "stop")
    <3>1. /\ alive' = alive /\ served' = served /\ call.kind = "over" /\ call.cmd = "start" /\ ~duo
      BY <1>5 DEF Started, daemon
    <3>2. next <= MaxRequests + 2
      BY <1>1, <3>1, SMTT(20) DEF Inv, CallInv, ThreadInv
    <3> QED
      BY <2>2, <3>1, <3>2, IssueStep DEF Pending, Cmds
  <2> QED
    BY <1>5, <2>1, <2>2, SMTT(20) DEF Started
<1>6. CASE Carry \/ Shutdown
  BY <1>6 DEF Carry, Shutdown, NoCall, daemon, Calls!vars
<1>7. CASE SendFrame \/ SendEvent \/ Die \/ Joined \/ Closed \/ Reading \/ Delivering
  <2>1. UNCHANGED <<next, served, result, call>>
    BY <1>7 DEF SendFrame, SendEvent, Die, Joined, Closed, Reading, ReadFrame, FullOver,
       ReadEvent, ReadResponse, DrainSleep, Respond, ReadFailed, ReaderExit, Delivering,
       IqSleep, IqTake, IqDone, IqExit, caller, daemon
  <2> QED
    BY <2>1 DEF Calls!vars
<1> QED
  BY <1>2, <1>3, <1>4, <1>5, <1>6, <1>7 DEF Next, Daemon, Following

\* The daemon performs the requests of a connection in order and at most once,
\* and a request reported as successful has been performed, whatever responses
\* arrive late (async_request, direct_request, receive_response).
THEOREM Refinement == Spec => ImplementsCalls
<1>1. Init => Calls!Init
  BY DEF Init, Calls!Init, NoCall
<1>2. Inv /\ [Next]_vars => [Calls!Next]_(Calls!vars)
  <2>1. ASSUME UNCHANGED vars PROVE UNCHANGED Calls!vars
    BY <2>1 DEF vars, Calls!vars
  <2> QED
    BY <2>1, CallStep
<1> QED
  BY <1>1, <1>2, Inductive, PTL DEF Spec, ImplementsCalls, Calls!Spec
=============================================================================
