------------------------ MODULE WorkerTransferProofs ------------------------
(***************************************************************************)
(* WorkerTransfer compares whole files, holds no more of them than it has  *)
(* room for, and reports the cause of a failure, for every watermark, all  *)
(* sizes and any number of chunks.                                         *)
(*                                                                         *)
(* The argument follows the requests.  While nothing has failed, a request *)
(* is in one place at a time: on its way to the worker, held there by a    *)
(* write or by the comparison, or answered and on its way back; and what   *)
(* each pump does says which request of its side there is.                 *)
(*                                                                         *)
(* So one chunk of a side is on its way at most, and a write that is held  *)
(* back is the request its pump waits for: nothing more is sent to a side  *)
(* that is full.                                                           *)
(***************************************************************************)
EXTENDS WorkerTransfer, Induction, SequenceTheorems, TLAPS

\* An error is where it comes from, in words.
Words ==
  {"aborted", "read", "crashed", "terminated", "write after end", "copied", "pending", "handle",
   "load", "parse", "diff", "source", "target"}

Errors == Seq(Words)

Who == {"open", "ready"} \cup Sides

Waits == {"sending", "ending", "failing"}

Pumps == {"unstarted", "loop", "reading", "done", "threw"} \cup Waits

Engines == {"unopened", "loading", "done", "failed"} \cup Sides

Chunks == [n : Nat, size : Sizes]

Messages ==
  [t : {"open", "ready"}, seq : Nat]
    \cup [t : {"chunk"}, seq : Nat, side : Sides, chunk : Chunks]
    \cup [t : {"end"}, seq : Nat, side : Sides]
    \cup [t : {"fail"}, seq : Nat, side : Sides, error : Errors]

Replies == [seq : Nat, error : Errors]

ClientOK ==
  /\ seq \in Nat \ {0}
  /\ DOMAIN pending \subseteq Nat \ {0}
  /\ \A q \in DOMAIN pending : q < seq /\ pending[q] \in Who
  /\ failure \in Errors /\ pump \in [Sides -> Pumps] /\ chunks \in [Sides -> Nat]
  /\ cause \in [Sides -> Errors] /\ aborted \in BOOLEAN /\ outcome \in Errors

ChannelsOK == toWorker \in Seq(Messages) /\ toClient \in Seq(Replies)

WorkerOK ==
  /\ alive \in BOOLEAN
  /\ queue \in [Sides -> Seq(Chunks)] /\ buffered \in [Sides -> Int]
  /\ ended \in [Sides -> BOOLEAN] /\ failed \in [Sides -> Errors]
  /\ readerWaits \in [Sides -> BOOLEAN]
  /\ writer \in [Sides -> Nat] /\ writerWaits \in [Sides -> BOOLEAN]
  /\ engine \in Engines /\ broken \in Errors
  /\ consumed \in [Sides -> Seq(Nat)] /\ asked \in Nat

TypeOK == ClientOK /\ ChannelsOK /\ WorkerOK

-----------------------------------------------------------------------------
Live == failure = None

\* Whoever awaits the reply to a message.
Sender(m) == IF m.t \in {"open", "ready"} THEN m.t ELSE m.side

AwaitedBy(q, who) == q \in DOMAIN pending /\ pending[q] = who

\* Each awaits one request at most; a pump awaits one exactly when it says so; and
\* the pumps start when the open request is answered.
Requests ==
  /\ \A p, q \in DOMAIN pending : pending[p] = pending[q] => p = q
  /\ \A s \in Sides : pump[s] \in Waits <=> \E q \in DOMAIN pending : pending[q] = s
  /\ Live => /\ \A s \in Sides : pump[s] # "threw"
             /\ \A s \in Sides :
                  pump[s] = "unstarted" <=> \E q \in DOMAIN pending : pending[q] = "open"
             /\ \/ engine = "done"
                \/ \E q \in DOMAIN pending : pending[q] \in {"open", "ready"}
             /\ ~ \E p, q \in DOMAIN pending : pending[p] = "open" /\ pending[q] = "ready"

\* Once something has failed the worker is ended and nothing is awaited.
Failing ==
  /\ ~Live => DOMAIN pending = {} /\ ~alive /\ outcome # Pending
  /\ outcome # Pending => DOMAIN pending = {}
  /\ \A i \in DOMAIN toClient : toClient[i].seq = 0 => ~alive

\* Where the requests are.
OnTheirWay ==
  Live =>
    /\ \A i \in DOMAIN toWorker : AwaitedBy(toWorker[i].seq, Sender(toWorker[i]))
    /\ \A i, j \in DOMAIN toWorker : i # j => toWorker[i].seq # toWorker[j].seq

Replied ==
  Live =>
    /\ \A i \in DOMAIN toClient : toClient[i].seq # 0 => toClient[i].seq \in DOMAIN pending
    /\ \A i, j \in DOMAIN toClient :
         i # j /\ toClient[i].seq # 0 => toClient[i].seq # toClient[j].seq
    /\ \A i \in DOMAIN toClient, j \in DOMAIN toWorker : toClient[i].seq # toWorker[j].seq

Held ==
  Live =>
    /\ \A s \in Sides : writer[s] # 0 =>
         /\ AwaitedBy(writer[s], s) /\ pump[s] = "sending"
         /\ \A i \in DOMAIN toWorker : toWorker[i].seq # writer[s]
         /\ \A i \in DOMAIN toClient : toClient[i].seq # writer[s]
    /\ asked # 0 =>
         /\ AwaitedBy(asked, "ready")
         /\ \A i \in DOMAIN toWorker : toWorker[i].seq # asked
         /\ \A i \in DOMAIN toClient : toClient[i].seq # asked

\* What a message on its way says of who sent it, and of the worker.
MessagesFit ==
  Live =>
    \A i \in DOMAIN toWorker :
      LET m == toWorker[i]
      IN  /\ m.t = "open" => engine = "unopened"
          /\ m.t = "chunk" =>
               /\ pump[m.side] = "sending"
               /\ m.chunk.n = chunks[m.side]
               /\ chunks[m.side] = Len(consumed[m.side]) + Len(queue[m.side]) + 1
          /\ m.t = "end" => pump[m.side] = "ending"
          /\ m.t = "fail" =>
               /\ pump[m.side] = "failing" /\ failed[m.side] = None
               /\ m.error = Copied(cause[m.side])

\* What a reply on its way says: no request of a pump fails, and the comparison
\* answers with how it ended.
RepliesFit ==
  Live =>
    \A i \in DOMAIN toClient :
      LET r == toClient[i]
      IN  /\ \A s \in Sides : AwaitedBy(r.seq, s) => r.error = None
          /\ AwaitedBy(r.seq, "ready") => engine \in {"done", "failed"} /\ r.error = broken

\* The chunks a side has yielded are parsed or queued, but for one on its way.
NothingLost ==
  Live =>
    \A s \in Sides :
      \/ chunks[s] = Len(consumed[s]) + Len(queue[s])
      \/ \E i \in DOMAIN toWorker : toWorker[i].t = "chunk" /\ toWorker[i].side = s

InOrder ==
  \A s \in Sides :
    /\ \A i \in DOMAIN consumed[s] : consumed[s][i] = i
    /\ \A i \in DOMAIN queue[s] : queue[s][i].n = Len(consumed[s]) + i

\* What a pump that has sent its end, or its failure, has left behind.
Complete(s) ==
  /\ pump[s] \in {"ending", "done", "threw"} /\ cause[s] = None
  /\ chunks[s] = Len(consumed[s]) + Len(queue[s])

Passed(s) == engine = "done" \/ (engine = "target" /\ s = "source")

Ends ==
  \A s \in Sides :
    /\ ended[s] /\ failed[s] = None => Complete(s)
    /\ failed[s] # None => pump[s] \in {"failing", "threw"} /\ failed[s] = Copied(cause[s])
    /\ Passed(s) => Complete(s) /\ queue[s] = <<>>

\* What each pump caught while nothing else had failed.
Causes ==
  /\ Live => \A s \in Sides :
       /\ pump[s] = "failing" <=> cause[s] # None
       /\ cause[s] \in {None, Aborted, Unread(s)}
  /\ Live => \A s \in Sides : failed[s] # None =>
       \E i \in DOMAIN toClient : AwaitedBy(toClient[i].seq, s)

\* What the comparison failed with: its own reason, or the copy of a pump's, whose
\* acknowledgement is then ahead of the comparison's own answer.
Own == {<<"load">>, <<"diff">>} \cup {<<"parse", s>> : s \in Sides}

Breaks ==
  /\ engine = "failed" <=> broken # None
  /\ broken \in Own \cup {None} \cup {failed[s] : s \in Sides}
  /\ Live /\ broken \notin Own \cup {None} =>
       \A i \in DOMAIN toClient : AwaitedBy(toClient[i].seq, "ready") =>
         \E s \in Sides, j \in DOMAIN toClient :
           failed[s] # None /\ j < i /\ AwaitedBy(toClient[j].seq, s)

Outcomes ==
  /\ outcome = Handle => engine = "done"
  /\ outcome \notin {Pending, Handle} => ~Live
  /\ outcome \notin {Pending, Handle} =>
       \/ \E s \in Sides : /\ outcome = cause[s] /\ cause[s] \in {Aborted, Unread(s)}
                           /\ pump[s] = "threw"
       \/ outcome = broken /\ broken \in Own
       \/ outcome = Crashed /\ ~alive

Inv ==
  /\ TypeOK /\ Requests /\ Failing
  /\ OnTheirWay /\ Replied /\ Held /\ MessagesFit /\ RepliesFit
  /\ NothingLost /\ InOrder /\ Ends /\ Causes /\ Breaks /\ Outcomes

-----------------------------------------------------------------------------
(***************************************************************************)
(* Channels.                                                               *)
(***************************************************************************)
\* What is left of a channel once its head is taken.
LEMMA TailIndices ==
  ASSUME NEW S, NEW s \in Seq(S), s # <<>>
  PROVE  /\ Head(s) = s[1] /\ Head(s) \in S /\ 1 \in DOMAIN s
         /\ Tail(s) \in Seq(S) /\ Len(Tail(s)) = Len(s) - 1
         /\ \A i \in DOMAIN Tail(s) :
              /\ i \in Nat /\ i >= 1 /\ i + 1 \in DOMAIN s /\ Tail(s)[i] = s[i + 1]
         /\ \A i \in DOMAIN s : i # 1 => i - 1 \in DOMAIN Tail(s)
<1>1. Len(s) \in Nat /\ DOMAIN s = 1 .. Len(s) /\ Len(s) # 0
  BY LenProperties, EmptySeq
<1>2. /\ Head(s) \in S /\ Tail(s) \in Seq(S) /\ Len(Tail(s)) = Len(s) - 1
      /\ \A i \in 1 .. Len(Tail(s)) : Tail(s)[i] = s[i + 1]
  BY HeadTailProperties
<1>3. DOMAIN Tail(s) = 1 .. Len(Tail(s))
  BY <1>2, LenProperties
<1>4. Head(s) = s[1]
  OBVIOUS
<1>5. QED
  BY <1>1, <1>2, <1>3, <1>4

\* A channel with one more at its end.
LEMMA AppendIndices ==
  ASSUME NEW S, NEW s \in Seq(S), NEW e \in S
  PROVE  /\ Append(s, e) \in Seq(S) /\ Len(s) \in Nat
         /\ DOMAIN s = 1 .. Len(s) /\ DOMAIN Append(s, e) = 1 .. Len(s) + 1
         /\ Len(Append(s, e)) = Len(s) + 1
         /\ Append(s, e)[Len(s) + 1] = e
         /\ \A i \in DOMAIN s : Append(s, e)[i] = s[i]
<1>1. Len(s) \in Nat /\ DOMAIN s = 1 .. Len(s)
  BY LenProperties
<1>2. /\ Append(s, e) \in Seq(S) /\ Len(Append(s, e)) = Len(s) + 1
      /\ Append(s, e)[Len(s) + 1] = e
      /\ \A i \in 1 .. Len(s) : Append(s, e)[i] = s[i]
  BY AppendProperties
<1>3. DOMAIN Append(s, e) = 1 .. Len(s) + 1
  BY <1>1, <1>2, LenProperties
<1>4. QED
  BY <1>1, <1>2, <1>3

\* The elements of a channel before and after its ends move.
LEMMA ChannelTypes ==
  ASSUME TypeOK
  PROVE  /\ toWorker \in Seq(Messages) /\ toClient \in Seq(Replies)
         /\ Len(toWorker) \in Nat /\ DOMAIN toWorker = 1 .. Len(toWorker)
         /\ Len(toClient) \in Nat /\ DOMAIN toClient = 1 .. Len(toClient)
         /\ \A i \in DOMAIN toWorker : toWorker[i] \in Messages /\ toWorker[i].seq \in Nat
         /\ \A i \in DOMAIN toClient : toClient[i] \in Replies /\ toClient[i].seq \in Nat
<1>1. toWorker \in Seq(Messages) /\ toClient \in Seq(Replies)
  BY DEF TypeOK, ChannelsOK
<1>2. /\ Len(toWorker) \in Nat /\ DOMAIN toWorker = 1 .. Len(toWorker)
      /\ \A i \in DOMAIN toWorker : toWorker[i] \in Messages
  BY <1>1, LenProperties, ElementOfSeq
<1>3. /\ Len(toClient) \in Nat /\ DOMAIN toClient = 1 .. Len(toClient)
      /\ \A i \in DOMAIN toClient : toClient[i] \in Replies
  BY <1>1, LenProperties, ElementOfSeq
<1>4. /\ \A m \in Messages : m.seq \in Nat
      /\ \A r \in Replies : r.seq \in Nat
  BY DEF Messages, Replies
<1>5. QED
  BY <1>1, <1>2, <1>3, <1>4

\* Who a message is from, and what else it bears.
LEMMA MessageParts ==
  ASSUME NEW m \in Messages
  PROVE  /\ m.t \in {"open", "ready", "chunk", "end", "fail"} /\ m.seq \in Nat
         /\ m.t \in {"open", "ready"} => Sender(m) = m.t
         /\ m.t \in {"chunk", "end", "fail"} => m.side \in Sides /\ Sender(m) = m.side
         /\ m.t = "chunk" => m.chunk \in Chunks
         /\ m.t = "fail" => m.error \in Errors
         /\ Sender(m) \in Who
BY DEF Messages, Sender, Who

\* Two messages on their way are from two who wait.
LEMMA OneMessageEach ==
  ASSUME Inv, Live, NEW i \in DOMAIN toWorker, NEW j \in DOMAIN toWorker,
         Sender(toWorker[i]) = Sender(toWorker[j])
  PROVE  i = j
BY DEF Inv, Requests, OnTheirWay, AwaitedBy

-----------------------------------------------------------------------------
(***************************************************************************)
(* The five ways a request moves.                                          *)
(***************************************************************************)
Flight == OnTheirWay /\ Replied /\ Held

\* A new request goes out under a number nothing bears yet.
LEMMA SendKeepsFlight ==
  ASSUME Inv, Live, NEW who, NEW m \in Messages, m.seq = seq, Sender(m) = who,
         Send(who, m, pending), UNCHANGED <<toClient, writer, asked, failure>>,
         \A s \in Sides : writer[s] # 0 => pump'[s] = pump[s]
  PROVE  Flight'
<1>1. /\ toWorker' = Append(toWorker, m) /\ pending' = Awaiting(seq, who, pending)
      /\ toClient' = toClient /\ writer' = writer /\ asked' = asked
      /\ seq \in Nat /\ DOMAIN pending \subseteq Nat /\ \A q \in DOMAIN pending : q < seq
  BY DEF Send, Inv, TypeOK, ClientOK
<1>2. /\ DOMAIN pending' = DOMAIN pending \cup {seq} /\ pending'[seq] = who
      /\ \A q \in DOMAIN pending : pending'[q] = pending[q] /\ q # seq
  BY <1>1 DEF Awaiting
<1>3. /\ Len(toWorker) \in Nat /\ DOMAIN toWorker = 1 .. Len(toWorker)
      /\ DOMAIN toWorker' = 1 .. Len(toWorker) + 1
      /\ toWorker'[Len(toWorker) + 1] = m
      /\ \A i \in DOMAIN toWorker : toWorker'[i] = toWorker[i]
  BY <1>1, ChannelTypes, AppendIndices DEF Inv
<1>4. \A i \in DOMAIN toWorker' : i \in DOMAIN toWorker \/ toWorker'[i] = m
  BY <1>3
<1>5. \A i \in DOMAIN toWorker' : i \in DOMAIN toWorker \/ i = Len(toWorker) + 1
  BY <1>3
<1>6. /\ \A i \in DOMAIN toWorker : toWorker[i].seq \in DOMAIN pending
      /\ \A i \in DOMAIN toClient : toClient[i].seq # 0 => toClient[i].seq \in DOMAIN pending
      /\ 0 \notin DOMAIN pending /\ seq # 0
      /\ \A s \in Sides : writer[s] # 0 => writer[s] \in DOMAIN pending
      /\ asked # 0 => asked \in DOMAIN pending
  <2>1. 0 \notin DOMAIN pending
    BY DEF Inv, TypeOK, ClientOK
  <2>2. seq # 0
    BY DEF Inv, TypeOK, ClientOK
  <2>3. QED
    BY <2>1, <2>2 DEF Inv, OnTheirWay, Replied, Held, AwaitedBy
<1>7. OnTheirWay'
  <2>1. ASSUME NEW i \in DOMAIN toWorker'
        PROVE  /\ toWorker'[i].seq \in DOMAIN pending'
               /\ pending'[toWorker'[i].seq] = Sender(toWorker'[i])
    BY <1>2, <1>3, <1>4 DEF Inv, OnTheirWay, AwaitedBy
  <2>2. ASSUME NEW i \in DOMAIN toWorker', NEW j \in DOMAIN toWorker', i # j
        PROVE  toWorker'[i].seq # toWorker'[j].seq
    BY <1>2, <1>3, <1>5, <1>6, <2>2 DEF Inv, OnTheirWay
  <2>3. QED
    BY <2>1, <2>2 DEF OnTheirWay, AwaitedBy, Sender
<1>8. Replied'
  BY <1>1, <1>2, <1>3, <1>4, <1>6 DEF Inv, Replied
<1>9. Held'
  BY <1>1, <1>2, <1>3, <1>4, <1>6 DEF Inv, Held, AwaitedBy
<1>10. QED
  BY <1>7, <1>8, <1>9 DEF Flight

\* What the head of toWorker is while the worker lives.
LEMMA HeadOfWorker ==
  ASSUME Inv, alive, toWorker # <<>>
  PROVE  /\ Live /\ Head(toWorker) \in Messages /\ Head(toWorker) = toWorker[1]
         /\ 1 \in DOMAIN toWorker
         /\ Head(toWorker).seq \in Nat \ {0}
         /\ AwaitedBy(Head(toWorker).seq, Sender(Head(toWorker)))
<1>1. Live
  BY DEF Inv, Failing
<1>2. /\ Head(toWorker) \in Messages /\ Head(toWorker) = toWorker[1]
      /\ 1 \in DOMAIN toWorker
  BY ChannelTypes, TailIndices DEF Inv
<1>3. AwaitedBy(Head(toWorker).seq, Sender(Head(toWorker)))
  BY <1>1, <1>2 DEF Inv, OnTheirWay
<1>4. 0 \notin DOMAIN pending
  BY DEF Inv, TypeOK, ClientOK
<1>5. QED
  BY <1>1, <1>2, <1>3, <1>4, MessageParts DEF AwaitedBy

\* What stays on its way when the worker takes the next message.
LEMMA TakeKeepsOnTheirWay ==
  ASSUME Inv, alive, toWorker # <<>>, toWorker' = Tail(toWorker), UNCHANGED <<pending, failure>>
  PROVE  /\ OnTheirWay' /\ toWorker' \in Seq(Messages)
         /\ \A i \in DOMAIN toWorker' :
              /\ i \in Nat /\ i >= 1 /\ i + 1 \in DOMAIN toWorker
              /\ toWorker'[i] = toWorker[i + 1]
              /\ toWorker'[i].seq # Head(toWorker).seq
<1>1. /\ toWorker' \in Seq(Messages)
      /\ \A i \in DOMAIN toWorker' :
           /\ i \in Nat /\ i >= 1 /\ i + 1 \in DOMAIN toWorker
           /\ toWorker'[i] = toWorker[i + 1]
  BY ChannelTypes, TailIndices DEF Inv
<1>2. Head(toWorker) = toWorker[1] /\ 1 \in DOMAIN toWorker /\ Live
  BY HeadOfWorker
<1>3. \A i \in DOMAIN toWorker' : toWorker'[i].seq # Head(toWorker).seq
  BY <1>1, <1>2 DEF Inv, OnTheirWay
<1>4. ASSUME NEW i \in DOMAIN toWorker'
      PROVE  /\ toWorker'[i].seq \in DOMAIN pending'
             /\ pending'[toWorker'[i].seq] = Sender(toWorker'[i])
  BY <1>1, <1>2 DEF Inv, OnTheirWay, AwaitedBy
<1>5. ASSUME NEW i \in DOMAIN toWorker', NEW j \in DOMAIN toWorker', i # j
      PROVE  toWorker'[i].seq # toWorker'[j].seq
  <2>1. i + 1 # j + 1
    BY <1>1, <1>5
  <2>2. QED
    BY <1>1, <1>2, <2>1 DEF Inv, OnTheirWay
<1>6. OnTheirWay'
  BY <1>4, <1>5 DEF OnTheirWay, AwaitedBy, Sender
<1>7. QED
  BY <1>1, <1>3, <1>6

\* A message that is answered at once.
LEMMA AnswerKeepsFlight ==
  ASSUME Inv, alive, toWorker # <<>>, NEW e \in Errors,
         toWorker' = Tail(toWorker), Reply(Head(toWorker).seq, e),
         UNCHANGED <<pending, failure, pump, writer, asked>>
  PROVE  Flight'
<1> DEFINE q == Head(toWorker).seq
           r == [seq |-> q, error |-> e]
<1>1. /\ Live /\ Head(toWorker) = toWorker[1] /\ 1 \in DOMAIN toWorker
      /\ q \in Nat \ {0} /\ q \in DOMAIN pending
  BY HeadOfWorker DEF AwaitedBy
<1>2. r \in Replies /\ r.seq = q
  BY <1>1 DEF Replies
<1>3. toClient' = Append(toClient, r)
  BY DEF Reply
<1> HIDE DEF r
<1>4. /\ DOMAIN toClient' = 1 .. Len(toClient) + 1 /\ DOMAIN toClient = 1 .. Len(toClient)
      /\ Len(toClient) \in Nat
      /\ toClient'[Len(toClient) + 1] = r
      /\ \A i \in DOMAIN toClient : toClient'[i] = toClient[i]
  BY <1>2, <1>3, ChannelTypes, AppendIndices DEF Inv
<1>5. \A i \in DOMAIN toClient' :
        \/ i \in DOMAIN toClient /\ toClient'[i] = toClient[i]
        \/ i = Len(toClient) + 1 /\ toClient'[i] = r
  BY <1>4
<1>6. /\ OnTheirWay'
      /\ \A i \in DOMAIN toWorker' :
           /\ i + 1 \in DOMAIN toWorker /\ toWorker'[i] = toWorker[i + 1]
           /\ toWorker'[i].seq # q
  BY TakeKeepsOnTheirWay
<1>7. /\ \A i \in DOMAIN toClient : toClient[i].seq # q
      /\ \A s \in Sides : writer[s] # q
      /\ asked # q
  BY <1>1 DEF Inv, Replied, Held
<1> HIDE DEF q
<1>8. Replied'
  <2>1. \A i \in DOMAIN toClient' : toClient'[i].seq # 0 => toClient'[i].seq \in DOMAIN pending'
    BY <1>1, <1>2, <1>5 DEF Inv, Replied
  <2>2. ASSUME NEW i \in DOMAIN toClient', NEW j \in DOMAIN toClient', i # j,
               toClient'[i].seq # 0
        PROVE  toClient'[i].seq # toClient'[j].seq
    BY <1>1, <1>2, <1>5, <1>7, <2>2 DEF Inv, Replied
  <2>3. ASSUME NEW i \in DOMAIN toClient', NEW j \in DOMAIN toWorker'
        PROVE  toClient'[i].seq # toWorker'[j].seq
    BY <1>1, <1>2, <1>5, <1>6 DEF Inv, Replied
  <2>4. QED
    BY <2>1, <2>2, <2>3 DEF Replied
<1>9. Held'
  BY <1>1, <1>2, <1>5, <1>6, <1>7 DEF Inv, Held, AwaitedBy
<1>10. QED
  BY <1>6, <1>8, <1>9 DEF Flight

\* A message that is held: a write without room, or the ready request.
LEMMA HoldKeepsFlight ==
  ASSUME Inv, alive, toWorker # <<>>,
         toWorker' = Tail(toWorker), UNCHANGED <<toClient, pending, failure, pump>>,
         \/ /\ asked' = asked
            /\ Head(toWorker).t = "chunk"
            /\ writer' = [writer EXCEPT ![Head(toWorker).side] = Head(toWorker).seq]
         \/ /\ writer' = writer
            /\ Head(toWorker).t = "ready" /\ asked' = Head(toWorker).seq
  PROVE  Flight'
<1> DEFINE q == Head(toWorker).seq
<1>1. /\ Live /\ Head(toWorker) = toWorker[1] /\ 1 \in DOMAIN toWorker
      /\ AwaitedBy(q, Sender(Head(toWorker))) /\ Head(toWorker) \in Messages
  BY HeadOfWorker
<1>2. /\ OnTheirWay'
      /\ \A i \in DOMAIN toWorker' :
           /\ i + 1 \in DOMAIN toWorker /\ toWorker'[i] = toWorker[i + 1]
           /\ toWorker'[i].seq # q
  BY TakeKeepsOnTheirWay
<1>3. Replied'
  BY <1>1, <1>2 DEF Inv, Replied
<1>4. \A i \in DOMAIN toClient : toClient[i].seq # q
  BY <1>1 DEF Inv, Replied
<1>5. CASE Head(toWorker).t = "chunk"
  <2> DEFINE s == Head(toWorker).side
  <2>1. /\ s \in Sides /\ AwaitedBy(q, s) /\ pump[s] = "sending"
    BY <1>1, <1>5, MessageParts DEF Inv, MessagesFit
  <2>2. /\ asked' = asked /\ writer \in [Sides -> Nat]
        /\ writer' = [writer EXCEPT ![s] = q]
    BY <1>5 DEF Inv, TypeOK, WorkerOK
  <2>3. \A r \in Sides : writer'[r] = IF r = s THEN q ELSE writer[r]
    BY <2>1, <2>2
  <2> HIDE DEF s, q
  <2>4. QED
    BY <1>1, <1>2, <1>3, <1>4, <2>1, <2>2, <2>3 DEF Flight, Held, Inv, AwaitedBy
<1>6. CASE Head(toWorker).t = "ready"
  <2>1. AwaitedBy(q, "ready") /\ asked' = q /\ writer' = writer
    BY <1>1, <1>6, MessageParts
  <2> HIDE DEF q
  <2>2. QED
    BY <1>1, <1>2, <1>3, <1>4, <2>1 DEF Flight, Held, Inv, AwaitedBy
<1>7. QED
  BY <1>5, <1>6

\* A held request is answered.
LEMMA ReleaseKeepsFlight ==
  ASSUME Inv, Live, NEW q \in Nat \ {0}, NEW e \in Errors, Reply(q, e),
         UNCHANGED <<toWorker, pending, failure, pump>>,
         \/ \E s \in Sides : /\ q = writer[s] /\ asked' = asked
                            /\ writer' = [writer EXCEPT ![s] = 0]
         \/ q = asked /\ asked' = 0 /\ writer' = writer
  PROVE  Flight'
<1> DEFINE r == [seq |-> q, error |-> e]
<1>1. r \in Replies /\ r.seq = q
  BY DEF Replies
<1>2. toClient' = Append(toClient, r)
  BY DEF Reply
<1> HIDE DEF r
<1>3. \A i \in DOMAIN toClient' :
        \/ i \in DOMAIN toClient /\ toClient'[i] = toClient[i]
        \/ i = Len(toClient) + 1 /\ toClient'[i] = r
  BY <1>1, <1>2, ChannelTypes, AppendIndices DEF Inv
<1>4. /\ q \in DOMAIN pending
      /\ \A i \in DOMAIN toClient : toClient[i].seq # q
      /\ \A i \in DOMAIN toWorker : toWorker[i].seq # q
  BY DEF Inv, Held, AwaitedBy
<1>5. writer \in [Sides -> Nat]
  BY DEF Inv, TypeOK, WorkerOK
<1>6. /\ \A s \in Sides : writer'[s] \in {writer[s], 0} /\ writer'[s] # q
      /\ asked' \in {asked, 0} /\ asked' # q
  <2>1. \A s \in Sides : writer[s] # 0 => AwaitedBy(writer[s], s)
    BY DEF Inv, Held
  <2>2. asked # 0 => AwaitedBy(asked, "ready")
    BY DEF Inv, Held
  <2>3. CASE q = asked /\ asked' = 0 /\ writer' = writer
    BY <2>1, <2>2, <2>3 DEF AwaitedBy, Sides
  <2>4. ASSUME NEW s \in Sides, q = writer[s], asked' = asked,
               writer' = [writer EXCEPT ![s] = 0]
        PROVE  <1>6!1 /\ <1>6!2
    <3>1. \A u \in Sides : writer'[u] = IF u = s THEN 0 ELSE writer[u]
      BY <1>5, <2>4
    <3>2. QED
      BY <2>1, <2>2, <2>4, <3>1 DEF AwaitedBy, Sides
  <2>5. QED
    BY <2>3, <2>4
<1>7. OnTheirWay'
  BY DEF Inv, OnTheirWay, AwaitedBy, Sender
<1>8. Replied'
  BY <1>1, <1>3, <1>4 DEF Inv, Replied
<1>9. Held'
  BY <1>1, <1>3, <1>6 DEF Inv, Held, AwaitedBy
<1>10. QED
  BY <1>7, <1>8, <1>9 DEF Flight

\* What Receive finds: nothing has failed, and nothing is settled but what waits.
LEMMA ReceiveFacts ==
  ASSUME Inv, NEW who, Receive(who)
  PROVE  /\ Live /\ outcome = Pending /\ toClient # <<>>
         /\ Taken = toClient[1] /\ 1 \in DOMAIN toClient /\ Taken \in Replies
         /\ AwaitedBy(Taken.seq, who) /\ Taken.seq # 0
         /\ toClient' = Tail(toClient) /\ toClient' \in Seq(Replies)
         /\ \A i \in DOMAIN toClient' :
              /\ i \in Nat /\ i >= 1 /\ i + 1 \in DOMAIN toClient
              /\ toClient'[i] = toClient[i + 1] /\ toClient'[i].seq # Taken.seq
         /\ DOMAIN Settled = DOMAIN pending \ {Taken.seq}
         /\ \A q \in DOMAIN Settled : Settled[q] = pending[q] /\ Settled[q] # who
<1>1. /\ toClient # <<>> /\ Taken.seq \in DOMAIN pending /\ pending[Taken.seq] = who
      /\ toClient' = Tail(toClient)
  BY DEF Receive
<1>2. Live /\ outcome = Pending
  BY <1>1 DEF Inv, Failing
<1>3. /\ Taken = toClient[1] /\ 1 \in DOMAIN toClient /\ Taken \in Replies
      /\ toClient' \in Seq(Replies)
      /\ \A i \in DOMAIN toClient' :
           /\ i \in Nat /\ i >= 1 /\ i + 1 \in DOMAIN toClient
           /\ toClient'[i] = toClient[i + 1]
  BY <1>1, ChannelTypes, TailIndices DEF Inv, Taken
<1>4. Taken.seq # 0
  BY <1>1 DEF Inv, TypeOK, ClientOK
<1>5. \A i \in DOMAIN toClient' : toClient'[i].seq # Taken.seq
  <2>1. \A i \in DOMAIN toClient' : i + 1 # 1
    BY <1>3
  <2>2. QED
    BY <1>2, <1>3, <1>4, <2>1 DEF Inv, Replied
<1>6. /\ DOMAIN Settled = DOMAIN pending \ {Taken.seq}
      /\ \A q \in DOMAIN Settled : Settled[q] = pending[q]
  BY DEF Settled
<1>7. \A q \in DOMAIN Settled : Settled[q] # who
  BY <1>1, <1>6 DEF Inv, Requests
<1>8. QED
  BY <1>1, <1>2, <1>3, <1>4, <1>5, <1>6, <1>7 DEF AwaitedBy

\* An answer arrives.
LEMMA ReceiveKeepsFlight ==
  ASSUME Inv, NEW who, Receive(who), pending' = Settled,
         UNCHANGED <<failure, toWorker, writer, asked>>,
         \A s \in Sides : s # who => pump'[s] = pump[s]
  PROVE  Flight'
<1>1. /\ Live /\ Taken = toClient[1] /\ 1 \in DOMAIN toClient /\ Taken.seq # 0
      /\ AwaitedBy(Taken.seq, who)
  BY ReceiveFacts
<1>2. \A i \in DOMAIN toClient' :
        /\ i \in Nat /\ i + 1 \in DOMAIN toClient
        /\ toClient'[i] = toClient[i + 1] /\ toClient'[i].seq # Taken.seq
  BY ReceiveFacts
<1>3. /\ DOMAIN pending' = DOMAIN pending \ {Taken.seq}
      /\ \A q \in DOMAIN pending' : pending'[q] = pending[q]
  BY ReceiveFacts
<1>4. /\ \A i \in DOMAIN toWorker : toWorker[i].seq # Taken.seq
      /\ \A s \in Sides : writer[s] # Taken.seq
      /\ asked # Taken.seq
  BY <1>1 DEF Inv, Replied, Held
<1>5. OnTheirWay'
  BY <1>1, <1>3, <1>4 DEF Inv, OnTheirWay, AwaitedBy, Sender
<1>6. Replied'
  <2>1. \A i \in DOMAIN toClient' : toClient'[i].seq # 0 => toClient'[i].seq \in DOMAIN pending'
    BY <1>1, <1>2, <1>3 DEF Inv, Replied
  <2>2. ASSUME NEW i \in DOMAIN toClient', NEW j \in DOMAIN toClient', i # j,
               toClient'[i].seq # 0
        PROVE  toClient'[i].seq # toClient'[j].seq
    <3>1. i + 1 # j + 1
      BY <1>2, <2>2
    <3>2. QED
      BY <1>1, <1>2, <2>2, <3>1 DEF Inv, Replied
  <2>3. QED
    BY <1>1, <1>2, <2>1, <2>2 DEF Inv, Replied
<1>7. Held'
  <2>1. \A s \in Sides : writer[s] # 0 => s # who
    BY <1>1, <1>4 DEF Inv, Held, Requests, AwaitedBy
  <2>2. QED
    BY <1>1, <1>2, <1>3, <1>4, <2>1 DEF Inv, Held, AwaitedBy
<1>8. QED
  BY <1>5, <1>6, <1>7 DEF Flight

-----------------------------------------------------------------------------
(***************************************************************************)
(* Steps of a transfer that has failed.                                    *)
(***************************************************************************)
\* Once something has failed the worker is still, and all the main thread does is
\* let its pumps throw.
LEMMA FailedKeepsInv ==
  ASSUME Inv, ~Live', ClientOK', ChannelsOK',
         UNCHANGED <<pushed, comparison>>, ~alive', alive' \in BOOLEAN,
         DOMAIN pending' = {}, outcome' # Pending, Outcomes',
         \A s \in Sides :
           /\ pump'[s] \notin Waits
           /\ pump[s] \in {"ending", "failing", "done", "threw"} =>
                /\ cause'[s] = cause[s] /\ chunks'[s] = chunks[s]
                /\ pump'[s] \in {"done", "threw"}
                /\ pump[s] \in {"failing", "threw"} => pump'[s] = "threw"
  PROVE  Inv'
<1>1. /\ UNCHANGED <<queue, buffered, ended, failed, readerWaits, writer, writerWaits>>
      /\ UNCHANGED <<engine, broken, consumed, asked>>
  BY DEF pushed, comparison
<1>2. TypeOK'
  BY <1>1 DEF TypeOK, WorkerOK, Inv
<1>3. Requests'
  BY DEF Requests
<1>4. Failing'
  BY DEF Failing
<1>5. OnTheirWay' /\ Replied' /\ Held' /\ MessagesFit' /\ RepliesFit' /\ NothingLost' /\ Causes'
  BY DEF OnTheirWay, Replied, Held, MessagesFit, RepliesFit, NothingLost, Causes
<1>6. InOrder'
  BY <1>1 DEF Inv, InOrder
<1>7. ASSUME NEW s \in Sides
      PROVE  Complete(s) => Complete(s)'
  BY <1>1 DEF Complete
<1>8. Ends'
  <2> SUFFICES ASSUME NEW s \in Sides
               PROVE  /\ ended'[s] /\ failed'[s] = None => Complete(s)'
                      /\ failed'[s] # None =>
                           pump'[s] \in {"failing", "threw"} /\ failed'[s] = Copied(cause'[s])
                      /\ Passed(s)' => Complete(s)' /\ queue'[s] = <<>>
    BY DEF Ends, Copied
  <2>1. failed'[s] # None => pump'[s] \in {"failing", "threw"} /\ failed'[s] = Copied(cause'[s])
    BY <1>1 DEF Inv, Ends
  <2>2. QED
    BY <1>1, <1>7, <2>1 DEF Inv, Ends, Passed
<1>9. Breaks'
  BY <1>1 DEF Inv, Breaks
<1>10. QED
  BY <1>2, <1>3, <1>4, <1>5, <1>6, <1>8, <1>9 DEF Inv

\* A failure of the transfer leaves no pump waiting.
LEMMA RejectedPumps ==
  ASSUME Inv
  PROVE  /\ Rejected \in [Sides -> Pumps]
         /\ \A s \in Sides :
              /\ Rejected[s] \notin Waits
              /\ pump[s] \in Waits => Rejected[s] = "threw"
              /\ pump[s] \notin Waits => Rejected[s] = pump[s]
BY DEF Inv, TypeOK, ClientOK, Rejected, Waits, Pumps

\* Errors are told apart by what they begin with.
LEMMA ErrorsDiffer ==
  /\ None \in Errors /\ Aborted \in Errors /\ Crashed \in Errors /\ Terminated \in Errors
  /\ Pending \in Errors /\ Handle \in Errors /\ WriteAfterEnd \in Errors
  /\ \A s \in Sides : Unread(s) \in Errors /\ <<"parse", s>> \in Errors
  /\ <<"load">> \in Errors /\ <<"diff">> \in Errors
  /\ \A e \in Errors : Copied(e) \in Errors /\ Copied(e)[1] = "copied" /\ Copied(e) # None
  /\ \A e \in Own : e # None /\ e # Handle /\ e # Pending /\ e[1] # "copied"
  /\ \A s \in Sides : \A e \in {Aborted, Unread(s)} : e # Handle /\ e # Pending /\ e # None
  /\ Crashed # None /\ Terminated # None /\ Crashed # Handle /\ Crashed # Pending
  /\ Handle # Pending
<1> DEFINE One == \A w \in Words : <<w>> \in Seq(Words)
           Two == \A v, w \in Words : <<v, w>> \in Seq(Words)
<1>a. One /\ Two
  OBVIOUS
<1> HIDE DEF One, Two
<1>1. /\ None \in Errors /\ Aborted \in Errors /\ Crashed \in Errors /\ Terminated \in Errors
      /\ Pending \in Errors /\ Handle \in Errors /\ WriteAfterEnd \in Errors
      /\ <<"load">> \in Errors /\ <<"diff">> \in Errors
  <2>1. /\ "aborted" \in Words /\ "crashed" \in Words /\ "terminated" \in Words
        /\ "pending" \in Words /\ "handle" \in Words /\ "write after end" \in Words
        /\ "load" \in Words /\ "diff" \in Words
    BY DEF Words
  <2>2. None \in Errors
    BY EmptySeq DEF None, Errors
  <2>3. QED
    BY <1>a, <2>1, <2>2 DEF One, Aborted, Crashed, Terminated, Pending, Handle, WriteAfterEnd,
                           Errors
<1>2. \A s \in Sides : Unread(s) \in Errors /\ <<"parse", s>> \in Errors
  <2>1. "read" \in Words /\ "parse" \in Words /\ \A s \in Sides : s \in Words
    BY DEF Words, Sides
  <2>2. QED
    BY <1>a, <2>1 DEF Two, Unread, Errors
<1>3. ASSUME NEW e \in Errors
      PROVE  Copied(e) \in Errors /\ Copied(e)[1] = "copied" /\ Copied(e) # None
  <2> DEFINE c == <<"copied">>
  <2>0. "copied" \in Words
    BY DEF Words
  <2>1. c \in Seq(Words) /\ Len(c) = 1 /\ c[1] = "copied" /\ e \in Seq(Words) /\ Len(e) \in Nat
    BY <1>a, <2>0, LenProperties DEF One, Errors
  <2> HIDE DEF c
  <2>2. /\ c \o e \in Seq(Words) /\ Len(c \o e) = Len(c) + Len(e)
        /\ \A i \in 1 .. Len(c) + Len(e) : (c \o e)[i] = IF i <= Len(c) THEN c[i] ELSE e[i - Len(c)]
    BY <2>1, ConcatProperties
  <2>3. (c \o e)[1] = "copied" /\ Len(c \o e) > 0
    BY <2>1, <2>2
  <2>4. Copied(e) = c \o e
    BY DEF Copied, c
  <2>5. c \o e # <<>>
    BY <2>3, EmptySeq
  <2>6. QED
    BY <2>2, <2>3, <2>4, <2>5 DEF Errors, None
<1>4. \A e \in Own : e # None /\ e # Handle /\ e # Pending /\ e[1] # "copied"
  BY DEF Own, None, Handle, Pending, Sides
<1>5. \A s \in Sides : \A e \in {Aborted, Unread(s)} : e # Handle /\ e # Pending /\ e # None
  BY DEF Aborted, Unread, None, Handle, Pending, Sides
<1>6. /\ Crashed # None /\ Terminated # None /\ Crashed # Handle /\ Crashed # Pending
      /\ Handle # Pending
  BY DEF Crashed, Terminated, None, Handle, Pending
<1>7. QED
  BY <1>1, <1>2, <1>3, <1>4, <1>5, <1>6

\* compareInWorker throws what the comparison failed with.
LEMMA NotReadyKeepsInv ==
  ASSUME Inv, NotReady
  PROVE  Inv'
<1>1. /\ Receive("ready") /\ Taken.error # None /\ pump' = Rejected
      /\ outcome' = Taken.error /\ failure' = Terminated /\ pending' = Nobody /\ alive' = FALSE
      /\ UNCHANGED <<seq, chunks, cause, aborted, toWorker, pushed, comparison>>
  BY DEF NotReady, Abandon
<1>2. /\ Live /\ Taken \in Replies /\ 1 \in DOMAIN toClient /\ Taken = toClient[1]
      /\ AwaitedBy(Taken.seq, "ready")
      /\ toClient' = Tail(toClient) /\ toClient' \in Seq(Replies)
  BY <1>1, ReceiveFacts
<1>3. Taken.error = broken
  BY <1>2 DEF Inv, RepliesFit
<1>4. broken \in Own
  <2>1. ~ \E s \in Sides, j \in DOMAIN toClient : j < 1 /\ AwaitedBy(toClient[j].seq, s)
    BY ChannelTypes DEF Inv
  <2>2. broken \in Own \cup {None}
    BY <1>2, <2>1 DEF Inv, Breaks
  <2>3. QED
    BY <1>1, <1>3, <2>2
<1>5. ~Live' /\ outcome' # Pending /\ outcome' # Handle
  BY <1>1, <1>3, <1>4, ErrorsDiffer DEF Live
<1>6. broken' = broken /\ cause' = cause /\ chunks' = chunks
  BY <1>1 DEF comparison
<1>7. Outcomes'
  BY <1>1, <1>3, <1>4, <1>5, <1>6 DEF Outcomes
<1>8. ClientOK' /\ ChannelsOK'
  <2>1. Taken.error \in Errors
    BY <1>2 DEF Replies
  <2>2. ChannelsOK'
    BY <1>1, <1>2 DEF Inv, TypeOK, ChannelsOK
  <2>3. DOMAIN Nobody = {}
    BY DEF Nobody
  <2>4. QED
    BY <1>1, <2>1, <2>2, <2>3, RejectedPumps, ErrorsDiffer DEF Inv, TypeOK, ClientOK
<1>9. DOMAIN pending' = {}
  BY <1>1 DEF Nobody
<1>10. \A s \in Sides : pump'[s] \notin Waits /\ (pump[s] \in Waits => pump'[s] = "threw")
                        /\ (pump[s] \notin Waits => pump'[s] = pump[s])
  BY <1>1, RejectedPumps
<1>11. QED
  BY <1>1, <1>5, <1>6, <1>7, <1>8, <1>9, <1>10, FailedKeepsInv DEF Waits

\* compareInWorker throws what a pump caught.
LEMMA ThrewKeepsInv ==
  ASSUME Inv, NEW s \in Sides, Threw(s)
  PROVE  Inv'
<1>1. /\ Receive(s) /\ pump[s] = "failing" /\ pump' = [Rejected EXCEPT ![s] = "threw"]
      /\ outcome' = cause[s] /\ failure' = Terminated /\ pending' = Nobody /\ alive' = FALSE
      /\ UNCHANGED <<seq, chunks, cause, aborted, toWorker, pushed, comparison>>
  BY DEF Threw, Abandon
<1>2. /\ Live /\ toClient' \in Seq(Replies)
  BY <1>1, ReceiveFacts
<1>3. cause[s] \in {Aborted, Unread(s)}
  BY <1>1, <1>2 DEF Inv, Causes
<1>4. ~Live' /\ outcome' # Pending /\ outcome' # Handle
  BY <1>1, <1>3, ErrorsDiffer DEF Live
<1>5. \A u \in Sides : /\ pump'[u] \notin Waits /\ pump'[u] \in Pumps
                       /\ (pump[u] \in Waits => pump'[u] = "threw")
                       /\ (pump[u] \notin Waits => pump'[u] = pump[u])
  <2>1. \A u \in Sides : pump'[u] = IF u = s THEN "threw" ELSE Rejected[u]
    BY <1>1, RejectedPumps
  <2>2. "threw" \notin Waits /\ "threw" \in Pumps /\ "failing" \in Waits
    BY DEF Waits, Pumps
  <2>3. QED
    BY <1>1, <2>1, <2>2, RejectedPumps
<1>6. Outcomes'
  <2>1. pump'[s] = "threw"
    BY <1>1, <1>5 DEF Waits
  <2>2. QED
    BY <1>1, <1>3, <1>4, <2>1 DEF Outcomes, Aborted, Unread
<1>7. ClientOK' /\ ChannelsOK'
  <2>1. pump' \in [Sides -> Pumps]
    BY <1>1, RejectedPumps DEF Pumps
  <2>2. ChannelsOK'
    BY <1>1, <1>2 DEF Inv, TypeOK, ChannelsOK
  <2>3. DOMAIN Nobody = {} /\ cause[s] \in Errors
    BY DEF Nobody, Inv, TypeOK, ClientOK
  <2>4. QED
    BY <1>1, <2>1, <2>2, <2>3, ErrorsDiffer DEF Inv, TypeOK, ClientOK
<1>8. DOMAIN pending' = {}
  BY <1>1 DEF Nobody
<1>9. QED
  BY <1>1, <1>4, <1>5, <1>6, <1>7, <1>8, FailedKeepsInv DEF Waits

\* The worker has died.
LEMMA DiedKeepsInv ==
  ASSUME Inv, Died
  PROVE  Inv'
<1>1. /\ toClient # <<>> /\ Taken.seq = 0 /\ toClient' = Tail(toClient)
      /\ failure' \in {Crashed, Terminated} /\ pending' = Nobody /\ pump' = Rejected
      /\ outcome' = (IF outcome = Pending THEN Crashed ELSE outcome)
      /\ UNCHANGED <<seq, chunks, cause, aborted, toWorker, worker>>
  BY DEF Died
<1>2. /\ toClient' \in Seq(Replies) /\ 1 \in DOMAIN toClient /\ Taken = toClient[1]
  BY <1>1, ChannelTypes, TailIndices DEF Inv, Taken
<1>3. ~alive /\ alive' = alive /\ UNCHANGED <<pushed, comparison>>
  BY <1>1, <1>2 DEF Inv, Failing, worker
<1>4. ~Live' /\ outcome' # Pending
  BY <1>1, ErrorsDiffer DEF Live
<1>5. \A s \in Sides : /\ pump'[s] \notin Waits
                       /\ (pump[s] \in Waits => pump'[s] = "threw")
                       /\ (pump[s] \notin Waits => pump'[s] = pump[s])
  BY <1>1, RejectedPumps
<1>6. Outcomes'
  <2>1. UNCHANGED <<engine, broken, cause>>
    BY <1>1, <1>3 DEF comparison
  <2>2. \A s \in Sides : pump[s] = "threw" => pump'[s] = "threw"
    BY <1>5 DEF Waits
  <2>3. CASE outcome = Pending
    BY <1>1, <1>3, <1>4, <2>3, ErrorsDiffer DEF Outcomes
  <2>4. CASE outcome # Pending
    BY <1>1, <1>3, <1>4, <2>1, <2>2, <2>4 DEF Inv, Outcomes, Aborted, Unread, Own, Crashed, Handle, Pending
  <2>5. QED
    BY <2>3, <2>4
<1>7. ClientOK' /\ ChannelsOK'
  <2>1. ChannelsOK'
    BY <1>1, <1>2 DEF Inv, TypeOK, ChannelsOK
  <2>2. DOMAIN Nobody = {} /\ outcome' \in Errors /\ failure' \in Errors
    BY <1>1, ErrorsDiffer DEF Nobody, Inv, TypeOK, ClientOK
  <2>3. QED
    BY <1>1, <2>1, <2>2, RejectedPumps DEF Inv, TypeOK, ClientOK
<1>8. DOMAIN pending' = {} /\ alive' \in BOOLEAN
  BY <1>1, <1>3 DEF Nobody, Inv, TypeOK, WorkerOK
<1>9. QED
  BY <1>1, <1>3, <1>4, <1>5, <1>6, <1>7, <1>8, FailedKeepsInv DEF Waits

\* A reply nobody waits for is one to a transfer that has failed.
LEMMA StrayKeepsInv ==
  ASSUME Inv, Stray
  PROVE  Inv'
<1>1. /\ toClient # <<>> /\ Taken.seq # 0 /\ Taken.seq \notin DOMAIN pending
      /\ toClient' = Tail(toClient) /\ UNCHANGED <<client, toWorker, worker>>
  BY DEF Stray
<1>2. /\ toClient' \in Seq(Replies) /\ 1 \in DOMAIN toClient /\ Taken = toClient[1]
  BY <1>1, ChannelTypes, TailIndices DEF Inv, Taken
<1>3. ~Live
  BY <1>1, <1>2 DEF Inv, Replied
<1>4. /\ UNCHANGED <<seq, pending, failure, pump, chunks, cause, aborted, outcome>>
      /\ UNCHANGED <<alive, pushed, comparison>>
  BY <1>1 DEF client, worker
<1>5. ClientOK' /\ ChannelsOK' /\ ~Live'
  BY <1>1, <1>2, <1>3, <1>4 DEF Inv, TypeOK, ClientOK, ChannelsOK, Live
<1>6. DOMAIN pending' = {} /\ ~alive' /\ alive' \in BOOLEAN /\ outcome' # Pending
  BY <1>3, <1>4 DEF Inv, Failing, TypeOK, WorkerOK
<1>7. Outcomes'
  BY <1>4, <1>5 DEF Inv, Outcomes, comparison, Aborted, Unread, Own, Handle, Pending, Crashed
<1>8. \A s \in Sides : pump[s] \notin Waits
  BY <1>4, <1>6 DEF Inv, Requests
<1>9. QED
  BY <1>4, <1>5, <1>6, <1>7, <1>8, FailedKeepsInv DEF Waits

\* A pump that goes on after the transfer has failed sends nothing.
LEMMA PumpGivesUp ==
  ASSUME Inv, ~Live, NEW s \in Sides, pump[s] \in {"loop", "reading"},
         NEW p \in {"reading", "threw"}, pump' = [pump EXCEPT ![s] = p],
         NEW e \in Errors, cause' \in {cause, [cause EXCEPT ![s] = e]},
         chunks' \in {chunks, [chunks EXCEPT ![s] = @ + 1]},
         UNCHANGED <<seq, pending, failure, aborted, outcome, toWorker, toClient, worker>>
  PROVE  Inv'
<1>1. /\ pump \in [Sides -> Pumps] /\ cause \in [Sides -> Errors] /\ chunks \in [Sides -> Nat]
  BY DEF Inv, TypeOK, ClientOK
<1>2. /\ p \in Pumps /\ p \notin Waits /\ {"ending", "failing"} \subseteq Waits
  BY DEF Pumps, Waits
<1>3. \A u \in Sides :
        /\ u # s => pump'[u] = pump[u] /\ cause'[u] = cause[u] /\ chunks'[u] = chunks[u]
        /\ pump'[s] = p
  BY <1>1
<1>4. UNCHANGED <<alive, pushed, comparison>> /\ UNCHANGED <<engine, broken>>
  BY DEF worker, comparison
<1>5. ClientOK' /\ ChannelsOK' /\ ~Live'
  <2>1. pump' \in [Sides -> Pumps] /\ cause' \in [Sides -> Errors] /\ chunks' \in [Sides -> Nat]
    BY <1>1, <1>2
  <2>2. QED
    BY <2>1 DEF Inv, TypeOK, ClientOK, ChannelsOK, Live
<1>6. DOMAIN pending' = {} /\ ~alive' /\ alive' \in BOOLEAN /\ outcome' # Pending
  BY <1>4 DEF Inv, Failing, TypeOK, WorkerOK
<1>7. \A u \in Sides : pump[u] \notin Waits /\ pump'[u] \notin Waits
  BY <1>2, <1>3, <1>6 DEF Inv, Requests
<1>8. Outcomes'
  <2>1. outcome' = outcome /\ broken' = broken /\ engine' = engine
    BY <1>4
  <2>2. \A u \in Sides : pump[u] = "threw" => pump'[u] = "threw" /\ cause'[u] = cause[u]
    BY <1>3
  <2>3. QED
    BY <1>4, <1>5, <2>1, <2>2 DEF Inv, Outcomes, Aborted, Unread, Own, Handle, Pending, Crashed
<1>9. ASSUME NEW u \in Sides, pump[u] \in {"ending", "failing", "done", "threw"}
      PROVE  /\ cause'[u] = cause[u] /\ chunks'[u] = chunks[u]
             /\ pump'[u] = pump[u] /\ pump[u] \in {"done", "threw"}
  BY <1>2, <1>3, <1>7, <1>9
<1>10. QED
  BY <1>4, <1>5, <1>6, <1>7, <1>8, <1>9, FailedKeepsInv

-----------------------------------------------------------------------------
(***************************************************************************)
(* Steps of the main thread while nothing has failed.                      *)
(***************************************************************************)
\* A step that moves no request and no message.
LEMMA QuietKeepsInv ==
  ASSUME Inv, Live, NEW s \in Sides,
         \/ pump[s] = "loop" /\ pump' = [pump EXCEPT ![s] = "reading"]
         \/ pump' = pump,
         UNCHANGED <<seq, pending, failure, chunks, cause, outcome, toWorker, toClient, worker>>,
         aborted' \in BOOLEAN
  PROVE  Inv'
<1>1. pump \in [Sides -> Pumps] /\ "reading" \in Pumps
  BY DEF Inv, TypeOK, ClientOK, Pumps
<1>2. \A u \in Sides : pump'[u] = pump[u] \/ (pump[u] = "loop" /\ pump'[u] = "reading")
  BY <1>1
<1>3. /\ UNCHANGED <<alive, queue, buffered, ended, failed, readerWaits, writer, writerWaits>>
      /\ UNCHANGED <<engine, broken, consumed, asked>>
  BY DEF worker, pushed, comparison
<1>4. TypeOK'
  <2>1. pump' \in [Sides -> Pumps]
    BY <1>1
  <2>2. QED
    BY <1>3, <2>1 DEF Inv, TypeOK, ClientOK, ChannelsOK, WorkerOK
<1>5. Live' /\ \A m : Sender(m)' = Sender(m)
  BY DEF Live, Sender
<1>6. Requests'
  BY <1>2, <1>3, <1>5 DEF Inv, Requests, Waits
<1>7. Failing' /\ OnTheirWay' /\ Replied' /\ InOrder' /\ Breaks'
  BY <1>3, <1>5 DEF Inv, Failing, OnTheirWay, Replied, InOrder, Breaks, AwaitedBy, Own
<1>8. Held'
  BY <1>2, <1>3, <1>5 DEF Inv, Held, AwaitedBy
<1>9. MessagesFit'
  <2> SUFFICES ASSUME NEW i \in DOMAIN toWorker
               PROVE  LET m == toWorker[i]
                      IN  /\ m.t = "open" => engine = "unopened"
                          /\ m.t = "chunk" =>
                               /\ pump'[m.side] = "sending"
                               /\ m.chunk.n = chunks[m.side]
                               /\ chunks[m.side] = Len(consumed[m.side]) + Len(queue[m.side]) + 1
                          /\ m.t = "end" => pump'[m.side] = "ending"
                          /\ m.t = "fail" =>
                               /\ pump'[m.side] = "failing" /\ failed[m.side] = None
                               /\ m.error = Copied(cause[m.side])
    BY <1>3 DEF MessagesFit, Copied
  <2>1. toWorker[i] \in Messages
    BY ChannelTypes DEF Inv
  <2>2. toWorker[i].t \in {"chunk", "end", "fail"} => toWorker[i].side \in Sides
    BY <2>1, MessageParts
  <2>3. QED
    BY <1>2, <2>2 DEF Inv, MessagesFit
<1>10. RepliesFit' /\ NothingLost'
  BY <1>3, <1>5 DEF Inv, RepliesFit, NothingLost, AwaitedBy
<1>11. Ends'
  BY <1>2, <1>3 DEF Inv, Ends, Complete, Passed, Copied
<1>12. Causes'
  BY <1>2, <1>3, <1>5 DEF Inv, Causes, AwaitedBy, Aborted, Unread
<1>13. Outcomes'
  BY <1>2, <1>3, <1>5 DEF Inv, Outcomes
<1>14. QED
  BY <1>4, <1>6, <1>7, <1>8, <1>9, <1>10, <1>11, <1>12, <1>13 DEF Inv

\* What there is of a side whose pump has no request in flight and has not ended.
LEMMA PumpIsFree ==
  ASSUME Inv, Live, NEW s \in Sides, pump[s] \in {"loop", "reading"}
  PROVE  /\ outcome = Pending
         /\ \A q \in DOMAIN pending : pending[q] # s /\ pending[q] # "open"
         /\ \A i \in DOMAIN toWorker : Sender(toWorker[i]) # s
         /\ chunks[s] = Len(consumed[s]) + Len(queue[s])
         /\ ~ended[s] /\ failed[s] = None /\ ~Passed(s) /\ cause[s] = None /\ writer[s] = 0
<1>1. \A q \in DOMAIN pending : pending[q] # s /\ pending[q] # "open"
  BY DEF Inv, Requests, Waits
<1>2. \A i \in DOMAIN toWorker : Sender(toWorker[i]) # s
  BY <1>1 DEF Inv, OnTheirWay, AwaitedBy
<1>3. chunks[s] = Len(consumed[s]) + Len(queue[s])
  <2>1. \A i \in DOMAIN toWorker : toWorker[i].t = "chunk" => toWorker[i].side # s
    BY <1>2 DEF Sender
  <2>2. QED
    BY <2>1 DEF Inv, NothingLost
<1>4. failed[s] = None /\ ~Passed(s)
  BY DEF Inv, Ends, Complete
<1>5. ended[s] = FALSE
  BY <1>4 DEF Inv, Ends, Complete, TypeOK, WorkerOK
<1>6. cause[s] = None
  BY DEF Inv, Causes
<1>7. writer[s] = 0
  BY DEF Inv, Held
<1>8. outcome = Pending
  BY <1>4 DEF Inv, Outcomes, Passed
<1>9. QED
  BY <1>1, <1>2, <1>3, <1>4, <1>5, <1>6, <1>7, <1>8

\* A pump sends a chunk, its end, or what it caught.
LEMMA PumpSends ==
  ASSUME Inv, Live, NEW s \in Sides, pump[s] \in {"loop", "reading"},
         NEW m \in Messages, m.seq = seq, m.t \in {"chunk", "end", "fail"}, m.side = s,
         Send(s, m, pending),
         UNCHANGED <<failure, aborted, outcome, toClient, worker>>,
         \/ /\ m.t = "chunk" /\ pump' = [pump EXCEPT ![s] = "sending"] /\ cause' = cause
            /\ chunks' = [chunks EXCEPT ![s] = @ + 1] /\ m.chunk.n = chunks'[s]
         \/ /\ m.t = "end" /\ pump' = [pump EXCEPT ![s] = "ending"] /\ cause' = cause
            /\ chunks' = chunks
         \/ /\ m.t = "fail" /\ pump' = [pump EXCEPT ![s] = "failing"] /\ chunks' = chunks
            /\ \E e \in {Aborted, Unread(s)} :
                 cause' = [cause EXCEPT ![s] = e] /\ m.error = Copied(e)
  PROVE  Inv'
<1>1. /\ pump \in [Sides -> Pumps] /\ cause \in [Sides -> Errors] /\ chunks \in [Sides -> Nat]
      /\ consumed \in [Sides -> Seq(Nat)] /\ queue \in [Sides -> Seq(Chunks)]
      /\ seq \in Nat /\ DOMAIN pending \subseteq Nat \ {0} /\ \A q \in DOMAIN pending : q < seq
      /\ seq # 0
  BY DEF Inv, TypeOK, ClientOK, WorkerOK
<1>2. /\ outcome = Pending
      /\ \A q \in DOMAIN pending : pending[q] # s /\ pending[q] # "open"
      /\ \A i \in DOMAIN toWorker : Sender(toWorker[i]) # s
      /\ chunks[s] = Len(consumed[s]) + Len(queue[s])
      /\ ~ended[s] /\ failed[s] = None /\ ~Passed(s) /\ cause[s] = None /\ writer[s] = 0
  BY PumpIsFree
<1>3. Sender(m) = s /\ s \in Who
  BY DEF Sender, Who
<1>4. /\ UNCHANGED <<alive, queue, buffered, ended, failed, readerWaits, writer, writerWaits>>
      /\ UNCHANGED <<engine, broken, consumed, asked>> /\ Live' /\ Copied(cause[s])' = Copied(cause'[s])
  BY DEF worker, pushed, comparison, Live, Copied
<1>5. /\ toWorker' = Append(toWorker, m) /\ seq' = seq + 1
      /\ DOMAIN pending' = DOMAIN pending \cup {seq} /\ pending'[seq] = s
      /\ \A q \in DOMAIN pending : pending'[q] = pending[q] /\ q # seq
  BY <1>1 DEF Send, Awaiting
<1>6. /\ \A u \in Sides : u # s => /\ pump'[u] = pump[u] /\ cause'[u] = cause[u]
                                   /\ chunks'[u] = chunks[u]
      /\ pump'[s] \in Waits /\ pump'[s] \in Pumps
  <2>1. \A u \in Sides : u # s => /\ pump'[u] = pump[u] /\ cause'[u] = cause[u]
                                  /\ chunks'[u] = chunks[u]
    BY <1>1
  <2>2. pump'[s] \in {"sending", "ending", "failing"}
    BY <1>1
  <2>3. QED
    BY <2>1, <2>2 DEF Waits, Pumps
<1>7. TypeOK'
  <2>1. pump' \in [Sides -> Pumps] /\ cause' \in [Sides -> Errors] /\ chunks' \in [Sides -> Nat]
    <3>1. pump' \in [Sides -> Pumps]
      BY <1>1 DEF Pumps, Waits
    <3>2. cause' \in [Sides -> Errors]
      <4>1. {Aborted, Unread(s)} \subseteq Errors
        BY ErrorsDiffer
      <4>2. CASE m.t # "fail"
        BY <1>1, <4>2
      <4>3. CASE m.t = "fail"
        <5>1. PICK e \in {Aborted, Unread(s)} : cause' = [cause EXCEPT ![s] = e]
          BY <4>3
        <5>2. QED
          BY <1>1, <4>1, <5>1
      <4>4. QED
        BY <4>2, <4>3
    <3>3. chunks' \in [Sides -> Nat]
      <4>1. chunks[s] + 1 \in Nat
        BY <1>1
      <4>2. chunks' \in {chunks, [chunks EXCEPT ![s] = chunks[s] + 1]}
        OBVIOUS
      <4>3. QED
        BY <1>1, <4>1, <4>2
    <3>4. QED
      BY <3>1, <3>2, <3>3
  <2>2. /\ seq' \in Nat \ {0} /\ DOMAIN pending' \subseteq Nat \ {0}
        /\ \A q \in DOMAIN pending' : q < seq' /\ pending'[q] \in Who
    BY <1>1, <1>3, <1>5 DEF Inv, TypeOK, ClientOK
  <2>3. ClientOK'
    BY <2>1, <2>2 DEF Inv, TypeOK, ClientOK
  <2>4. ChannelsOK'
    BY <1>5, AppendIndices DEF Inv, TypeOK, ChannelsOK
  <2>5. WorkerOK'
    BY <1>4 DEF Inv, TypeOK, WorkerOK
  <2>6. QED
    BY <2>3, <2>4, <2>5 DEF TypeOK
<1>8. Requests'
  <2>1. s \notin {"open", "ready"} /\ s \in {"source", "target"}
    BY DEF Sides
  <2>2. \A p, q \in DOMAIN pending' : pending'[p] = pending'[q] => p = q
    BY <1>2, <1>5 DEF Inv, Requests
  <2>3. \A u \in Sides : pump'[u] \in Waits <=> \E q \in DOMAIN pending' : pending'[q] = u
    BY <1>2, <1>5, <1>6 DEF Inv, Requests
  <2>4. /\ \A u \in Sides : pump'[u] # "threw"
        /\ \A u \in Sides :
             pump'[u] = "unstarted" <=> \E q \in DOMAIN pending' : pending'[q] = "open"
        /\ \/ engine' = "done"
           \/ \E q \in DOMAIN pending' : pending'[q] \in {"open", "ready"}
        /\ ~ \E p, q \in DOMAIN pending' : pending'[p] = "open" /\ pending'[q] = "ready"
    BY <1>2, <1>4, <1>5, <1>6, <2>1 DEF Inv, Requests, Waits
  <2>5. QED
    BY <2>2, <2>3, <2>4 DEF Requests
<1>9. Failing'
  BY <1>2, <1>4 DEF Inv, Failing
<1>10. Flight'
  <2>1. \A u \in Sides : writer[u] # 0 => pump'[u] = pump[u]
    BY <1>2, <1>6
  <2>2. QED
    BY <1>3, <1>4, <2>1, SendKeepsFlight
<1>11. /\ Len(toWorker) \in Nat /\ DOMAIN toWorker = 1 .. Len(toWorker)
       /\ DOMAIN toWorker' = 1 .. Len(toWorker) + 1
       /\ toWorker'[Len(toWorker) + 1] = m
       /\ \A i \in DOMAIN toWorker : toWorker'[i] = toWorker[i] /\ toWorker[i] \in Messages
       /\ \A i \in DOMAIN toWorker' : i \in DOMAIN toWorker \/ toWorker'[i] = m
       /\ DOMAIN toWorker \subseteq DOMAIN toWorker' /\ Len(toWorker) + 1 \in DOMAIN toWorker'
  <2>1. /\ Len(toWorker) \in Nat /\ DOMAIN toWorker = 1 .. Len(toWorker)
        /\ DOMAIN toWorker' = 1 .. Len(toWorker) + 1
        /\ toWorker'[Len(toWorker) + 1] = m
        /\ \A i \in DOMAIN toWorker : toWorker'[i] = toWorker[i] /\ toWorker[i] \in Messages
    BY <1>5, ChannelTypes, AppendIndices DEF Inv
  <2>2. \A i \in DOMAIN toWorker' : i \in DOMAIN toWorker \/ i = Len(toWorker) + 1
    BY <2>1
  <2>3. QED
    BY <2>1, <2>2
<1>12. MessagesFit'
  <2> SUFFICES ASSUME NEW i \in DOMAIN toWorker'
               PROVE  LET n == toWorker'[i]
                      IN  /\ n.t = "open" => engine = "unopened"
                          /\ n.t = "chunk" =>
                               /\ pump'[n.side] = "sending"
                               /\ n.chunk.n = chunks'[n.side]
                               /\ chunks'[n.side] = Len(consumed[n.side]) + Len(queue[n.side]) + 1
                          /\ n.t = "end" => pump'[n.side] = "ending"
                          /\ n.t = "fail" =>
                               /\ pump'[n.side] = "failing" /\ failed[n.side] = None
                               /\ n.error = Copied(cause'[n.side])
    BY <1>4 DEF MessagesFit, Copied
  <2>1. CASE i \in DOMAIN toWorker
    <3>1. toWorker[i].t \in {"chunk", "end", "fail"} =>
            toWorker[i].side \in Sides /\ toWorker[i].side # s
      BY <1>2, <1>11, <2>1, MessageParts
    <3>2. LET n == toWorker[i]
          IN  /\ n.t = "open" => engine = "unopened"
              /\ n.t = "chunk" =>
                   /\ pump[n.side] = "sending"
                   /\ n.chunk.n = chunks[n.side]
                   /\ chunks[n.side] = Len(consumed[n.side]) + Len(queue[n.side]) + 1
              /\ n.t = "end" => pump[n.side] = "ending"
              /\ n.t = "fail" =>
                   /\ pump[n.side] = "failing" /\ failed[n.side] = None
                   /\ n.error = Copied(cause[n.side])
      BY <2>1 DEF Inv, MessagesFit
    <3>3. toWorker'[i] = toWorker[i]
      BY <1>11, <2>1
    <3>4. QED
      <4> DEFINE v == toWorker[i].side
      <4>1. toWorker[i].t \in {"chunk", "end", "fail"} =>
              pump'[v] = pump[v] /\ cause'[v] = cause[v] /\ chunks'[v] = chunks[v]
        BY <1>6, <3>1
      <4> HIDE DEF v
      <4>2. toWorker[i].side = v
        BY DEF v
      <4>3. toWorker[i].t = "fail" => Copied(cause'[v]) = Copied(cause[v])
        BY <4>1
      <4>4. toWorker[i].t = "chunk" =>
              /\ pump'[v] = "sending" /\ toWorker[i].chunk.n = chunks'[v]
              /\ chunks'[v] = Len(consumed[v]) + Len(queue[v]) + 1
        BY <3>2, <4>1, <4>2
      <4>5. toWorker[i].t = "end" => pump'[v] = "ending"
        BY <3>2, <4>1, <4>2
      <4>6. toWorker[i].t = "fail" =>
              /\ pump'[v] = "failing" /\ failed[v] = None
              /\ toWorker[i].error = Copied(cause'[v])
        BY <3>2, <4>1, <4>2, <4>3
      <4>7. QED
        BY <3>2, <3>3, <4>2, <4>4, <4>5, <4>6
  <2>2. CASE toWorker'[i] = m
    BY <1>1, <1>2, <2>2
  <2>3. QED
    BY <1>11, <2>1, <2>2
<1>13. \A i \in DOMAIN toClient : \A who : AwaitedBy(toClient[i].seq, who)' <=>
                                           AwaitedBy(toClient[i].seq, who)
  <2>1. \A i \in DOMAIN toClient : toClient[i].seq # seq
    BY <1>1, <1>5 DEF Inv, Replied
  <2>2. QED
    BY <1>5, <2>1 DEF AwaitedBy
<1>14. RepliesFit'
  BY <1>4, <1>13 DEF Inv, RepliesFit
<1>15. NothingLost'
  <2> SUFFICES ASSUME NEW u \in Sides
               PROVE  \/ chunks'[u] = Len(consumed[u]) + Len(queue[u])
                      \/ \E i \in DOMAIN toWorker' : toWorker'[i].t = "chunk" /\ toWorker'[i].side = u
    BY <1>4 DEF NothingLost
  <2>1. CASE u # s
    <3>1. CASE chunks[u] = Len(consumed[u]) + Len(queue[u])
      BY <1>6, <2>1, <3>1
    <3>2. CASE \E i \in DOMAIN toWorker : toWorker[i].t = "chunk" /\ toWorker[i].side = u
      BY <1>11, <3>2
    <3>3. QED
      BY <3>1, <3>2 DEF Inv, NothingLost
  <2>2. CASE u = s /\ m.t = "chunk"
    BY <1>11, <2>2
  <2>3. CASE u = s /\ m.t # "chunk"
    BY <1>2, <2>3
  <2>4. QED
    BY <2>1, <2>2, <2>3
<1>16. InOrder'
  BY <1>4 DEF Inv, InOrder
<1>17. Ends'
  <2> SUFFICES ASSUME NEW u \in Sides
               PROVE  /\ ended[u] /\ failed[u] = None => Complete(u)'
                      /\ failed[u] # None =>
                           pump'[u] \in {"failing", "threw"} /\ failed[u] = Copied(cause'[u])
                      /\ Passed(u) => Complete(u)' /\ queue[u] = <<>>
    BY <1>4 DEF Ends, Passed, Copied, None
  <2>1. CASE u = s
    BY <1>2, <2>1
  <2>2. CASE u # s
    BY <1>4, <1>6, <2>2 DEF Inv, Ends, Complete, None
  <2>3. QED
    BY <2>1, <2>2
<1>18. Causes'
  <2>1. /\ pump'[s] = "failing" <=> cause'[s] # None
        /\ cause'[s] \in {None, Aborted, Unread(s)}
    BY <1>1, <1>2, ErrorsDiffer
  <2>2. \A u \in Sides : /\ pump'[u] = "failing" <=> cause'[u] # None
                         /\ cause'[u] \in {None, Aborted, Unread(u)}
    BY <1>6, <2>1 DEF Inv, Causes
  <2>3. \A u \in Sides : failed'[u] # None =>
          \E i \in DOMAIN toClient : AwaitedBy(toClient[i].seq, u)'
    BY <1>4, <1>13 DEF Inv, Causes
  <2>4. QED
    BY <1>4, <2>2, <2>3 DEF Causes, Aborted, Unread, None
<1>19. Breaks'
  <2>1. /\ engine' = "failed" <=> broken' # None
        /\ broken' \in Own \cup {None} \cup {failed'[u] : u \in Sides}
    BY <1>4 DEF Inv, Breaks
  <2>2. broken \notin Own \cup {None} =>
          \A i \in DOMAIN toClient : AwaitedBy(toClient[i].seq, "ready")' =>
            \E u \in Sides, j \in DOMAIN toClient :
              failed[u] # None /\ j < i /\ AwaitedBy(toClient[j].seq, u)'
    BY <1>4, <1>13 DEF Inv, Breaks
  <2>3. QED
    BY <1>4, <2>1, <2>2 DEF Breaks, Own, None
<1>20. Outcomes'
  BY <1>2, <1>4, ErrorsDiffer DEF Outcomes, Pending, Handle
<1>21. QED
  BY <1>7, <1>8, <1>9, <1>10, <1>12, <1>14, <1>15, <1>16, <1>17, <1>18, <1>19, <1>20
     DEF Inv, Flight

\* A pump catches what its input or the caller did.
LEMMA CatchKeepsInv ==
  ASSUME Inv, NEW s \in Sides, pump[s] \in {"loop", "reading"},
         NEW e \in Errors, Live => e \in {Aborted, Unread(s)}, Catch(s, e, pending),
         Live => chunks' = chunks, chunks' \in {chunks, [chunks EXCEPT ![s] = @ + 1]},
         UNCHANGED <<failure, aborted, outcome, toClient, worker>>
  PROVE  Inv'
<1>1. CASE Live
  <2> DEFINE m == [t |-> "fail", seq |-> seq, side |-> s, error |-> Copied(e)]
  <2>1. /\ cause' = [cause EXCEPT ![s] = e] /\ pump' = [pump EXCEPT ![s] = "failing"]
        /\ Send(s, m, pending)
    BY <1>1 DEF Catch, Live
  <2>2. /\ m \in Messages /\ m.seq = seq /\ m.t = "fail" /\ m.side = s /\ m.error = Copied(e)
    BY ErrorsDiffer DEF Messages, Inv, TypeOK, ClientOK
  <2> HIDE DEF m
  <2>3. \E d \in {Aborted, Unread(s)} :
          cause' = [cause EXCEPT ![s] = d] /\ m.error = Copied(d)
    BY <1>1, <2>1, <2>2
  <2>4. QED
    BY <1>1, <2>1, <2>2, <2>3, PumpSends
<1>2. CASE ~Live
  <2>1. /\ cause' = [cause EXCEPT ![s] = e] /\ pump' = [pump EXCEPT ![s] = "threw"]
        /\ UNCHANGED <<toWorker, pending, seq>>
    BY <1>2 DEF Catch, Live
  <2>2. QED
    BY <1>2, <2>1, PumpGivesUp
<1>3. QED
  BY <1>1, <1>2

\* The head of the loop.
LEMMA LoopKeepsInv ==
  ASSUME Inv, NEW s \in Sides, Loop(s)
  PROVE  Inv'
<1>1. /\ pump[s] = "loop"
      /\ UNCHANGED <<failure, chunks, aborted, outcome, toClient, worker>>
      /\ aborted \in BOOLEAN /\ Aborted \in Errors
  BY ErrorsDiffer DEF Loop, Inv, TypeOK, ClientOK
<1>2. CASE aborted
  <2>1. Catch(s, Aborted, pending)
    BY <1>2 DEF Loop
  <2>2. QED
    BY <1>1, <2>1, CatchKeepsInv
<1>3. CASE ~aborted
  <2>1. pump' = [pump EXCEPT ![s] = "reading"] /\ UNCHANGED <<toWorker, pending, seq, cause>>
    BY <1>3 DEF Loop
  <2>2. CASE Live
    BY <1>1, <2>1, <2>2, QuietKeepsInv
  <2>3. CASE ~Live
    BY <1>1, <2>1, <2>3, PumpGivesUp
  <2>4. QED
    BY <2>2, <2>3
<1>4. QED
  BY <1>2, <1>3

\* The input yields a chunk.
LEMMA YieldKeepsInv ==
  ASSUME Inv, NEW s \in Sides, Yield(s)
  PROVE  Inv'
<1>1. /\ pump[s] = "reading" /\ chunks' = [chunks EXCEPT ![s] = @ + 1]
      /\ UNCHANGED <<failure, aborted, outcome, toClient, worker>>
      /\ failure \in Errors /\ chunks \in [Sides -> Nat] /\ seq \in Nat
  BY DEF Yield, Inv, TypeOK, ClientOK
<1>2. CASE Live
  <2>1. PICK size \in Sizes :
          Send(s, [t |-> "chunk", seq |-> seq, side |-> s,
                   chunk |-> [n |-> chunks'[s], size |-> size]], pending)
    BY <1>2 DEF Yield, Live
  <2>2. pump' = [pump EXCEPT ![s] = "sending"] /\ cause' = cause
    BY <1>2 DEF Yield, Live
  <2> DEFINE m == [t |-> "chunk", seq |-> seq, side |-> s,
                   chunk |-> [n |-> chunks'[s], size |-> size]]
  <2>3. chunks'[s] \in Nat
    BY <1>1
  <2>4. m \in Messages /\ m.seq = seq /\ m.t = "chunk" /\ m.side = s /\ m.chunk.n = chunks'[s]
    BY <1>1, <2>3 DEF Messages, Chunks
  <2>5. Send(s, m, pending)
    BY <2>1
  <2> HIDE DEF m
  <2>6. QED
    BY <1>1, <1>2, <2>2, <2>4, <2>5, PumpSends
<1>3. CASE ~Live
  <2>1. Catch(s, failure, pending)
    BY <1>3 DEF Yield, Live
  <2>2. QED
    BY <1>1, <1>3, <2>1, CatchKeepsInv
<1>4. QED
  BY <1>2, <1>3

\* The input yields its end.
LEMMA YieldEndKeepsInv ==
  ASSUME Inv, NEW s \in Sides, YieldEnd(s)
  PROVE  Inv'
<1>1. /\ pump[s] = "reading"
      /\ UNCHANGED <<failure, chunks, aborted, outcome, toClient, worker>>
      /\ failure \in Errors /\ seq \in Nat
  BY DEF YieldEnd, Inv, TypeOK, ClientOK
<1>2. CASE Live
  <2> DEFINE m == [t |-> "end", seq |-> seq, side |-> s]
  <2>1. Send(s, m, pending) /\ pump' = [pump EXCEPT ![s] = "ending"] /\ cause' = cause
    BY <1>2 DEF YieldEnd, Live
  <2>2. m \in Messages /\ m.seq = seq /\ m.t = "end" /\ m.side = s
    BY <1>1 DEF Messages
  <2> HIDE DEF m
  <2>3. QED
    BY <1>1, <1>2, <2>1, <2>2, PumpSends
<1>3. CASE ~Live
  <2>1. Catch(s, failure, pending)
    BY <1>3 DEF YieldEnd, Live
  <2>2. QED
    BY <1>1, <1>3, <2>1, CatchKeepsInv
<1>4. QED
  BY <1>2, <1>3

\* The input fails.
LEMMA YieldErrorKeepsInv ==
  ASSUME Inv, NEW s \in Sides, YieldError(s)
  PROVE  Inv'
<1>1. /\ pump[s] = "reading" /\ Catch(s, Unread(s), pending) /\ Unread(s) \in Errors
      /\ UNCHANGED <<failure, chunks, aborted, outcome, toClient, worker>>
  BY ErrorsDiffer DEF YieldError
<1>2. QED
  BY <1>1, CatchKeepsInv

\* The caller aborts.
LEMMA AbortKeepsInv ==
  ASSUME Inv, Abort
  PROVE  Inv'
<1>1. /\ outcome = Pending /\ aborted' = TRUE
      /\ UNCHANGED <<seq, pending, failure, pump, chunks, cause, outcome, toWorker, toClient, worker>>
  BY DEF Abort
<1>2. Live
  BY <1>1 DEF Inv, Failing
<1>3. "source" \in Sides
  BY DEF Sides
<1>4. QED
  BY <1>1, <1>2, <1>3, QuietKeepsInv

-----------------------------------------------------------------------------
(***************************************************************************)
(* Replies.                                                                *)
(***************************************************************************)
\* The open request is answered, and the pumps start.
LEMMA OpenedKeepsInv ==
  ASSUME Inv, Opened
  PROVE  Inv'
<1> DEFINE m == [t |-> "ready", seq |-> seq]
<1>1. /\ Receive("open") /\ Send("ready", m, Settled) /\ pump' = Each("loop")
      /\ UNCHANGED <<failure, chunks, cause, aborted, outcome, worker>>
  BY DEF Opened
<1>2. /\ Live /\ outcome = Pending /\ AwaitedBy(Taken.seq, "open")
      /\ Taken = toClient[1] /\ 1 \in DOMAIN toClient /\ Taken.seq # 0
      /\ toClient' \in Seq(Replies)
      /\ \A i \in DOMAIN toClient' : /\ i + 1 \in DOMAIN toClient /\ toClient'[i] = toClient[i + 1]
                                     /\ toClient'[i].seq # Taken.seq
      /\ DOMAIN Settled = DOMAIN pending \ {Taken.seq}
  BY <1>1, ReceiveFacts
<1>3. /\ seq \in Nat \ {0} /\ DOMAIN pending \subseteq Nat \ {0}
      /\ \A q \in DOMAIN pending : q < seq /\ pending[q] \in Who
      /\ pump \in [Sides -> Pumps] /\ chunks \in [Sides -> Nat]
  BY DEF Inv, TypeOK, ClientOK
<1>4. /\ UNCHANGED <<alive, queue, buffered, ended, failed, readerWaits, writer, writerWaits>>
      /\ UNCHANGED <<engine, broken, consumed, asked>> /\ Live'
  BY <1>1, <1>2 DEF worker, pushed, comparison, Live
<1>5. \A s \in Sides : pump[s] = "unstarted" /\ pump'[s] = "loop"
  BY <1>1, <1>2 DEF Inv, Requests, AwaitedBy, Each
<1>6. DOMAIN pending = {Taken.seq}
  <2> SUFFICES ASSUME NEW q \in DOMAIN pending
               PROVE  q = Taken.seq
    BY <1>2 DEF AwaitedBy
  <2>1. pending[q] # "ready"
    BY <1>2 DEF Inv, Requests, AwaitedBy
  <2>2. \A s \in Sides : pending[q] # s
    BY <1>5 DEF Inv, Requests, Waits
  <2>3. pending[q] = "open"
    BY <1>3, <2>1, <2>2 DEF Who
  <2>4. QED
    BY <1>2, <2>3 DEF Inv, Requests, AwaitedBy
<1>7. DOMAIN toWorker = {}
  BY <1>2, <1>6 DEF Inv, OnTheirWay, Replied, AwaitedBy
<1>8. /\ m \in Messages /\ m.seq = seq /\ m.t = "ready" /\ Sender(m) = "ready"
  BY <1>3 DEF Messages, Sender
<1>9. toWorker' = Append(toWorker, m) /\ seq' = seq + 1 /\ pending' = Awaiting(seq, "ready", Settled)
  BY <1>1 DEF Send
<1> HIDE DEF m
<1>10. /\ DOMAIN pending' = {seq} /\ pending'[seq] = "ready"
  BY <1>2, <1>6, <1>9 DEF Awaiting
<1>11. /\ toWorker' \in Seq(Messages)
       /\ DOMAIN toWorker' = {1} /\ toWorker'[1] = m
  <2>1. Len(toWorker) = 0
    BY <1>7, ChannelTypes DEF Inv
  <2>2. QED
    BY <1>8, <1>9, <2>1, ChannelTypes, AppendIndices DEF Inv
<1>12. \A i \in DOMAIN toClient' : toClient'[i].seq = 0
  BY <1>2, <1>6 DEF Inv, Replied
<1>13. \A s \in Sides : writer[s] = 0
  BY <1>2, <1>5 DEF Inv, Held
<1>14. asked = 0
  BY <1>2, <1>6 DEF Inv, Held, AwaitedBy
<1>15. TypeOK'
  <2>1. pump' \in [Sides -> Pumps]
    BY <1>1 DEF Each, Pumps
  <2>2. /\ seq' \in Nat \ {0} /\ DOMAIN pending' \subseteq Nat \ {0}
        /\ \A q \in DOMAIN pending' : q < seq' /\ pending'[q] \in Who
    BY <1>3, <1>9, <1>10 DEF Who
  <2>3. ClientOK'
    BY <1>1, <2>1, <2>2 DEF Inv, TypeOK, ClientOK
  <2>4. ChannelsOK' /\ WorkerOK'
    BY <1>2, <1>4, <1>11 DEF Inv, TypeOK, ChannelsOK, WorkerOK
  <2>5. QED
    BY <2>3, <2>4 DEF TypeOK
<1>16. Requests'
  BY <1>5, <1>10 DEF Requests, Waits, Sides
<1>17. Failing'
  BY <1>1, <1>2, <1>4 DEF Inv, Failing
<1>18. OnTheirWay'
  BY <1>8, <1>10, <1>11 DEF OnTheirWay, AwaitedBy, Sender
<1>19. Replied'
  BY <1>3, <1>8, <1>11, <1>12 DEF Replied
<1>20. Held'
  BY <1>4, <1>13, <1>14 DEF Held
<1>21. MessagesFit'
  BY <1>8, <1>11 DEF MessagesFit
<1>22. \A i \in DOMAIN toClient' : toClient'[i].seq \notin DOMAIN pending'
  BY <1>3, <1>10, <1>12
<1>23. RepliesFit'
  BY <1>22 DEF RepliesFit, AwaitedBy
<1>24. NothingLost'
  BY <1>1, <1>2, <1>4, <1>7 DEF Inv, NothingLost
<1>25. InOrder'
  BY <1>4 DEF Inv, InOrder
<1>26. \A s \in Sides : failed[s] = None /\ ~Passed(s) /\ ~ended[s]
  BY <1>5 DEF Inv, Ends, Complete
<1>27. Ends'
  BY <1>4, <1>26 DEF Ends, Passed, None
<1>28. Causes'
  BY <1>1, <1>2, <1>4, <1>5, <1>26 DEF Inv, Causes, Aborted, Unread, None
<1>29. Breaks'
  <2>1. /\ engine' = "failed" <=> broken' # None
        /\ broken' \in Own \cup {None} \cup {failed'[u] : u \in Sides}
    BY <1>4 DEF Inv, Breaks
  <2>2. QED
    BY <1>22, <2>1 DEF Breaks, Own, None, AwaitedBy
<1>30. Outcomes'
  BY <1>1, <1>2, ErrorsDiffer DEF Outcomes, Pending, Handle
<1>31. QED
  BY <1>15, <1>16, <1>17, <1>18, <1>19, <1>20, <1>21, <1>23, <1>24, <1>25, <1>27, <1>28,
     <1>29, <1>30 DEF Inv

\* The ready request is answered well, or a pump hears that its chunk or its end
\* has arrived.
LEMMA SettleKeepsInv ==
  ASSUME Inv, NEW who, Receive(who), pending' = Settled, Fulfil,
         UNCHANGED <<seq, failure, chunks, cause, aborted, toWorker, worker>>,
         \/ who = "ready" /\ pump' = pump /\ engine = "done"
         \/ /\ who \in Sides /\ pump[who] \in {"sending", "ending"}
            /\ pump' = [pump EXCEPT ![who] = IF @ = "sending" THEN "loop" ELSE "done"]
  PROVE  Inv'
<1>1. /\ Live /\ outcome = Pending /\ AwaitedBy(Taken.seq, who)
      /\ Taken = toClient[1] /\ 1 \in DOMAIN toClient /\ Taken.seq # 0
      /\ toClient' = Tail(toClient) /\ toClient' \in Seq(Replies)
      /\ \A i \in DOMAIN toClient' : /\ i \in Nat /\ i + 1 \in DOMAIN toClient
                                     /\ toClient'[i] = toClient[i + 1]
                                     /\ toClient'[i].seq # Taken.seq
      /\ DOMAIN pending' = DOMAIN pending \ {Taken.seq}
      /\ \A q \in DOMAIN pending' : pending'[q] = pending[q] /\ pending'[q] # who
  BY ReceiveFacts
<1>2. /\ UNCHANGED <<alive, queue, buffered, ended, failed, readerWaits, writer, writerWaits>>
      /\ UNCHANGED <<engine, broken, consumed, asked>> /\ Live'
  BY <1>1 DEF worker, pushed, comparison, Live
<1>3. pump \in [Sides -> Pumps] /\ {"loop", "done"} \subseteq Pumps
  BY DEF Inv, TypeOK, ClientOK, Pumps
<1>4. /\ \A s \in Sides : s # who => pump'[s] = pump[s]
      /\ who \in Sides => \/ pump[who] = "sending" /\ pump'[who] = "loop"
                          \/ pump[who] = "ending" /\ pump'[who] = "done"
      /\ pump' \in [Sides -> Pumps] /\ who # "open"
  BY <1>3 DEF Sides
<1>5. \A q \in DOMAIN pending : q # Taken.seq => q \in DOMAIN pending'
  BY <1>1
<1>6. outcome' \in {Pending, Handle}
  BY <1>1 DEF Fulfil
<1>7. TypeOK'
  <2>1. outcome' \in Errors
    BY <1>6, ErrorsDiffer
  <2>2. ClientOK'
    BY <1>1, <1>4, <2>1 DEF Inv, TypeOK, ClientOK
  <2>3. ChannelsOK' /\ WorkerOK'
    BY <1>1, <1>2 DEF Inv, TypeOK, ChannelsOK, WorkerOK
  <2>4. QED
    BY <2>2, <2>3 DEF TypeOK
<1>8. Requests'
  <2>1. \A p, q \in DOMAIN pending' : pending'[p] = pending'[q] => p = q
    BY <1>1 DEF Inv, Requests
  <2>2. ASSUME NEW s \in Sides
        PROVE  pump'[s] \in Waits <=> \E q \in DOMAIN pending' : pending'[q] = s
    <3>1. CASE s = who
      BY <1>1, <1>4, <3>1 DEF Waits
    <3>2. CASE s # who
      BY <1>1, <1>4, <3>2 DEF Inv, Requests, AwaitedBy
    <3>3. QED
      BY <3>1, <3>2
  <2>3. /\ \A s \in Sides : pump'[s] # "threw"
        /\ ~ \E p, q \in DOMAIN pending' : pending'[p] = "open" /\ pending'[q] = "ready"
    BY <1>1, <1>4 DEF Inv, Requests
  <2>4. ASSUME NEW s \in Sides
        PROVE  pump'[s] = "unstarted" <=> \E q \in DOMAIN pending' : pending'[q] = "open"
    <3>1. pump'[s] = "unstarted" <=> pump[s] = "unstarted"
      BY <1>4
    <3>2. (\E q \in DOMAIN pending' : pending'[q] = "open")
            <=> \E q \in DOMAIN pending : pending[q] = "open"
      BY <1>1, <1>4 DEF AwaitedBy
    <3>3. QED
      BY <1>1, <3>1, <3>2 DEF Inv, Requests
  <2>5. engine' = "done" \/ \E q \in DOMAIN pending' : pending'[q] \in {"open", "ready"}
    <3>1. CASE who = "ready"
      BY <1>2, <3>1 DEF Sides
    <3>2. CASE who \in Sides
      <4>1. CASE engine = "done"
        BY <1>2, <4>1
      <4>2. CASE \E q \in DOMAIN pending : pending[q] \in {"open", "ready"}
        BY <1>1, <1>5, <3>2, <4>2 DEF AwaitedBy, Sides
      <4>3. QED
        BY <1>1, <4>1, <4>2 DEF Inv, Requests
    <3>3. QED
      BY <3>1, <3>2
  <2>6. QED
    BY <2>1, <2>2, <2>3, <2>4, <2>5 DEF Requests
<1>9. outcome' = Handle => DOMAIN pending' = {}
  <2> SUFFICES ASSUME outcome' = Handle, NEW q \in DOMAIN pending'
               PROVE  FALSE
    OBVIOUS
  <2>1. (\A s \in Sides : pump'[s] = "done") /\ \A p \in DOMAIN Settled : Settled[p] # "ready"
    BY <1>1, ErrorsDiffer DEF Fulfil
  <2>2. pending'[q] \in Who
    BY <1>7 DEF TypeOK, ClientOK
  <2>3. "source" \in Sides
    BY DEF Sides
  <2>4. pending'[q] # "open" /\ pending'[q] \notin Sides
    BY <1>2, <1>8, <2>1, <2>3 DEF Requests, Waits
  <2>5. QED
    BY <2>1, <2>2, <2>4 DEF Who
<1>10. Failing'
  <2>1. \A i \in DOMAIN toClient' : toClient'[i].seq = 0 => ~alive'
    BY <1>1, <1>2 DEF Inv, Failing
  <2>2. QED
    BY <1>2, <1>6, <1>9, <2>1 DEF Failing
<1>11. Flight'
  <2>1. UNCHANGED <<failure, toWorker, writer, asked>>
    BY <1>2
  <2>2. QED
    BY <1>4, <2>1, ReceiveKeepsFlight
<1>12. \A i \in DOMAIN toWorker : Sender(toWorker[i]) # who
  BY <1>1 DEF Inv, Replied, OnTheirWay, Requests, AwaitedBy
<1>13. MessagesFit'
  <2> SUFFICES ASSUME NEW i \in DOMAIN toWorker
               PROVE  LET n == toWorker[i]
                      IN  /\ n.t = "open" => engine = "unopened"
                          /\ n.t = "chunk" =>
                               /\ pump'[n.side] = "sending"
                               /\ n.chunk.n = chunks[n.side]
                               /\ chunks[n.side] = Len(consumed[n.side]) + Len(queue[n.side]) + 1
                          /\ n.t = "end" => pump'[n.side] = "ending"
                          /\ n.t = "fail" =>
                               /\ pump'[n.side] = "failing" /\ failed[n.side] = None
                               /\ n.error = Copied(cause[n.side])
    BY <1>2 DEF MessagesFit, Copied
  <2>1. toWorker[i].t \in {"chunk", "end", "fail"} => pump'[toWorker[i].side] = pump[toWorker[i].side]
    BY <1>4, <1>12, ChannelTypes, MessageParts DEF Inv
  <2>2. QED
    BY <1>1, <2>1 DEF Inv, MessagesFit
<1>14. RepliesFit'
  BY <1>1, <1>2 DEF Inv, RepliesFit, AwaitedBy
<1>15. NothingLost' /\ InOrder'
  BY <1>1, <1>2 DEF Inv, NothingLost, InOrder
<1>16. \A s \in Sides : Complete(s) => Complete(s)'
  BY <1>2, <1>4 DEF Complete, None
<1>17. Ends'
  BY <1>2, <1>4, <1>16 DEF Inv, Ends, Passed, Copied, None
<1>18. ASSUME NEW s \in Sides, failed[s] # None, NEW i \in DOMAIN toClient,
              AwaitedBy(toClient[i].seq, s)
       PROVE  /\ i - 1 \in DOMAIN toClient' /\ toClient'[i - 1] = toClient[i]
              /\ toClient'[i - 1].seq \in DOMAIN pending' /\ pending'[toClient'[i - 1].seq] = s
  <2>1. s # who
    BY <1>1, <1>4, <1>18 DEF Inv, Ends
  <2>2. i # 1 /\ toClient[i].seq # Taken.seq
    BY <1>1, <1>18, <2>1 DEF AwaitedBy
  <2>3. i - 1 \in DOMAIN toClient' /\ toClient'[i - 1] = toClient[i]
    <3>1. i - 1 \in DOMAIN toClient' /\ i \in Nat
      BY <1>1, <2>2, ChannelTypes, TailIndices DEF Inv
    <3>2. toClient'[i - 1] = toClient[(i - 1) + 1] /\ (i - 1) + 1 = i
      BY <1>1, <3>1
    <3>3. QED
      BY <3>1, <3>2
  <2>4. toClient[i].seq \in DOMAIN pending' /\ pending'[toClient[i].seq] = s
    BY <1>1, <1>18, <2>2 DEF AwaitedBy
  <2>5. QED
    BY <2>3, <2>4
<1>19. Causes'
  <2>1. \A s \in Sides : /\ pump'[s] = "failing" <=> cause'[s] # None
                         /\ cause'[s] \in {None, Aborted, Unread(s)}
    BY <1>1, <1>4 DEF Inv, Causes
  <2>2. ASSUME NEW s \in Sides, failed[s] # None
        PROVE  \E i \in DOMAIN toClient' :
                 toClient'[i].seq \in DOMAIN pending' /\ pending'[toClient'[i].seq] = s
    <3>1. PICK i \in DOMAIN toClient : AwaitedBy(toClient[i].seq, s)
      BY <1>1, <2>2 DEF Inv, Causes
    <3>2. QED
      BY <1>18, <2>2, <3>1
  <2>3. QED
    BY <1>2, <2>1, <2>2 DEF Causes, AwaitedBy, Aborted, Unread, None
<1>20. Breaks'
  <2>1. /\ engine' = "failed" <=> broken' # None
        /\ broken' \in Own \cup {None} \cup {failed'[u] : u \in Sides}
    BY <1>2 DEF Inv, Breaks
  <2>2. ASSUME broken \notin Own \cup {None}, NEW i \in DOMAIN toClient',
               toClient'[i].seq \in DOMAIN pending', pending'[toClient'[i].seq] = "ready"
        PROVE  \E s \in Sides, j \in DOMAIN toClient' :
                 /\ failed[s] # None /\ j < i
                 /\ toClient'[j].seq \in DOMAIN pending' /\ pending'[toClient'[j].seq] = s
    <3>1. i \in Nat /\ i + 1 \in DOMAIN toClient /\ AwaitedBy(toClient[i + 1].seq, "ready")
      BY <1>1, <2>2 DEF AwaitedBy
    <3>2. PICK s \in Sides, j \in DOMAIN toClient :
            failed[s] # None /\ j < i + 1 /\ AwaitedBy(toClient[j].seq, s)
      BY <1>1, <2>2, <3>1 DEF Inv, Breaks
    <3>3. /\ j - 1 \in DOMAIN toClient' /\ toClient'[j - 1].seq \in DOMAIN pending'
          /\ pending'[toClient'[j - 1].seq] = s
      BY <1>18, <3>2
    <3>4. j - 1 < i
      BY <3>1, <3>2, ChannelTypes DEF Inv
    <3>5. QED
      BY <3>2, <3>3, <3>4
  <2>3. QED
    BY <1>2, <2>1, <2>2 DEF Breaks, Own, None, AwaitedBy
<1>21. Outcomes'
  <2>1. outcome' = Handle => engine' = "done"
    BY <1>2, <1>8, <1>9 DEF Requests
  <2>2. QED
    BY <1>2, <1>6, <2>1 DEF Outcomes, Pending, Handle
<1>22. QED
  BY <1>7, <1>8, <1>10, <1>11, <1>13, <1>14, <1>15, <1>17, <1>19, <1>20, <1>21 DEF Inv, Flight

\* The comparison is ready.
LEMMA ReadyKeepsInv ==
  ASSUME Inv, Ready
  PROVE  Inv'
<1>1. /\ Receive("ready") /\ Taken.error = None /\ pending' = Settled /\ pump' = pump /\ Fulfil
      /\ UNCHANGED <<seq, failure, chunks, cause, aborted, toWorker, worker>>
  BY DEF Ready
<1>2. Live /\ Taken = toClient[1] /\ 1 \in DOMAIN toClient /\ AwaitedBy(Taken.seq, "ready")
  BY <1>1, ReceiveFacts
<1>3. engine \in {"done", "failed"} /\ broken = None
  BY <1>1, <1>2 DEF Inv, RepliesFit
<1>4. engine = "done"
  BY <1>3 DEF Inv, Breaks
<1>5. QED
  BY <1>1, <1>4, SettleKeepsInv

\* A chunk, or the end of the input, has arrived: no request of a pump fails.
LEMMA AnsweredKeepsInv ==
  ASSUME Inv, NEW s \in Sides, Answered(s)
  PROVE  Inv'
<1>1. /\ Receive(s) /\ pump[s] \in {"sending", "ending"}
      /\ UNCHANGED <<failure, chunks, aborted, worker>>
  BY DEF Answered
<1>2. Taken.error = None
  <2>1. Live /\ Taken = toClient[1] /\ 1 \in DOMAIN toClient /\ AwaitedBy(Taken.seq, s)
    BY <1>1, ReceiveFacts
  <2>2. QED
    BY <2>1 DEF Inv, RepliesFit
<1>3. /\ pump' = [pump EXCEPT ![s] = IF @ = "sending" THEN "loop" ELSE "done"]
      /\ pending' = Settled /\ Fulfil /\ UNCHANGED <<toWorker, seq, cause>>
  BY <1>2 DEF Answered
<1>4. QED
  BY <1>1, <1>3, SettleKeepsInv

-----------------------------------------------------------------------------
(***************************************************************************)
(* Steps of the worker.                                                    *)
(***************************************************************************)
\* The channel to the client after a reply.
LEMMA ReplyIndices ==
  ASSUME TypeOK, NEW q \in Nat, NEW e \in Errors, Reply(q, e)
  PROVE  /\ toClient' \in Seq(Replies) /\ Len(toClient) + 1 \in DOMAIN toClient'
         /\ toClient'[Len(toClient) + 1].seq = q /\ toClient'[Len(toClient) + 1].error = e
         /\ \A i \in DOMAIN toClient :
              i \in DOMAIN toClient' /\ toClient'[i] = toClient[i] /\ i < Len(toClient) + 1
         /\ \A i \in DOMAIN toClient' : i \in DOMAIN toClient \/ i = Len(toClient) + 1
<1> DEFINE r == [seq |-> q, error |-> e]
<1>1. r \in Replies /\ r.seq = q /\ r.error = e /\ toClient' = Append(toClient, r)
  BY DEF Replies, Reply
<1> HIDE DEF r
<1>2. QED
  BY <1>1, ChannelTypes, AppendIndices

\* What a step of the worker leaves of the client.
LEMMA WorkerKeepsClient ==
  ASSUME Inv, alive, alive' = alive, UNCHANGED client, engine = "done" => engine' = "done",
         \/ toClient' = toClient
         \/ \E q \in Nat \ {0}, e \in Errors : Reply(q, e)
  PROVE  /\ Live /\ Live' /\ ClientOK' /\ toClient' \in Seq(Replies)
         /\ Requests' /\ Failing' /\ Outcomes'
         /\ UNCHANGED <<seq, pending, failure, pump, chunks, cause, aborted, outcome>>
<1>1. UNCHANGED <<seq, pending, failure, pump, chunks, cause, aborted, outcome>>
  BY DEF client
<1>2. Live /\ Live'
  BY <1>1 DEF Inv, Failing, Live
<1>3. ClientOK'
  BY <1>1 DEF Inv, TypeOK, ClientOK
<1>4. toClient' \in Seq(Replies) /\ \A i \in DOMAIN toClient' : toClient'[i].seq # 0
  <2>1. \A i \in DOMAIN toClient : toClient[i].seq # 0
    BY DEF Inv, Failing
  <2>2. CASE toClient' = toClient
    BY <2>1, <2>2 DEF Inv, TypeOK, ChannelsOK
  <2>3. ASSUME NEW q \in Nat \ {0}, NEW e \in Errors, Reply(q, e)
        PROVE  toClient' \in Seq(Replies) /\ \A i \in DOMAIN toClient' : toClient'[i].seq # 0
    BY <2>1, <2>3, ReplyIndices DEF Inv
  <2>4. QED
    BY <2>2, <2>3
<1>5. Requests'
  BY <1>1, <1>2 DEF Inv, Requests
<1>6. Failing'
  BY <1>1, <1>2, <1>4 DEF Inv, Failing
<1>7. Outcomes'
  <2>1. outcome \in {Pending, Handle}
    BY <1>2 DEF Inv, Outcomes
  <2>2. outcome' \in {Pending', Handle'} /\ Pending' = Pending /\ Handle' = Handle
    BY <1>1, <2>1 DEF Pending, Handle
  <2>3. outcome' = Handle => engine' = "done"
    BY <1>1 DEF Inv, Outcomes
  <2>4. QED
    BY <2>2, <2>3 DEF Outcomes
<1>8. QED
  BY <1>1, <1>2, <1>3, <1>4, <1>5, <1>6, <1>7

\* What the messages that stay on their way still say.
LEMMA TakeKeepsMessages ==
  ASSUME Inv, alive, toWorker # <<>>, toWorker' = Tail(toWorker),
         UNCHANGED <<pending, failure, pump, chunks, cause>>,
         Head(toWorker).t = "open" \/ engine' = engine,
         \A u \in Sides : failed'[u] = failed[u] \/ u = Sender(Head(toWorker)),
         \A u \in Sides :
           \/ consumed'[u] = consumed[u] /\ queue'[u] = queue[u]
           \/ /\ Head(toWorker).t = "chunk" /\ Head(toWorker).side = u
              /\ chunks[u] = Len(consumed'[u]) + Len(queue'[u]),
         Head(toWorker).t = "chunk" =>
           chunks[Head(toWorker).side] =
             Len(consumed'[Head(toWorker).side]) + Len(queue'[Head(toWorker).side])
  PROVE  MessagesFit' /\ NothingLost'
<1> DEFINE h == Head(toWorker)
<1>1. /\ Live /\ Live' /\ h \in Messages /\ h = toWorker[1] /\ 1 \in DOMAIN toWorker
      /\ h.t = "chunk" => Sender(h) = h.side
  BY HeadOfWorker DEF Live, Sender
<1>2. \A i \in DOMAIN toWorker' :
        /\ i \in Nat /\ i >= 1 /\ i + 1 \in DOMAIN toWorker /\ toWorker'[i] = toWorker[i + 1]
  BY TakeKeepsOnTheirWay
<1>3. MessagesFit'
  <2> SUFFICES ASSUME NEW i \in DOMAIN toWorker'
               PROVE  LET n == toWorker'[i]
                      IN  /\ n.t = "open" => engine' = "unopened"
                          /\ n.t = "chunk" =>
                               /\ pump[n.side] = "sending"
                               /\ n.chunk.n = chunks[n.side]
                               /\ chunks[n.side] = Len(consumed'[n.side]) + Len(queue'[n.side]) + 1
                          /\ n.t = "end" => pump[n.side] = "ending"
                          /\ n.t = "fail" =>
                               /\ pump[n.side] = "failing" /\ failed'[n.side] = None
                               /\ n.error = Copied(cause[n.side])
    BY DEF MessagesFit, Copied, None
  <2> DEFINE n == toWorker[i + 1]
  <2>1. /\ n \in Messages /\ toWorker'[i] = n /\ i + 1 \in DOMAIN toWorker /\ i + 1 # 1
    BY <1>2, ChannelTypes DEF Inv
  <2>2. Sender(n) # Sender(h)
    BY <1>1, <2>1, OneMessageEach
  <2>3. /\ n.t \in {"open", "ready"} => Sender(n) = n.t
        /\ n.t \in {"chunk", "end", "fail"} => n.side \in Sides /\ Sender(n) = n.side
        /\ h.t \in {"open", "ready"} => Sender(h) = h.t
    BY <1>1, <2>1, MessageParts
  <2>4. /\ n.t = "open" => engine = "unopened"
        /\ n.t = "chunk" =>
             /\ pump[n.side] = "sending"
             /\ n.chunk.n = chunks[n.side]
             /\ chunks[n.side] = Len(consumed[n.side]) + Len(queue[n.side]) + 1
        /\ n.t = "end" => pump[n.side] = "ending"
        /\ n.t = "fail" =>
             /\ pump[n.side] = "failing" /\ failed[n.side] = None
             /\ n.error = Copied(cause[n.side])
    BY <1>1, <2>1 DEF Inv, MessagesFit
  <2> HIDE DEF n
  <2>5. n.t = "open" => engine' = "unopened"
    BY <2>2, <2>3, <2>4
  <2> HIDE DEF h
  <2>6. n.t = "chunk" => consumed'[n.side] = consumed[n.side] /\ queue'[n.side] = queue[n.side]
    BY <1>1, <2>2, <2>3 DEF h
  <2>7. n.t = "fail" => failed'[n.side] = None
    BY <2>2, <2>3, <2>4 DEF h
  <2>8. QED
    BY <2>1, <2>4, <2>5, <2>6, <2>7
<1>4. NothingLost'
  <2> SUFFICES ASSUME NEW u \in Sides
               PROVE  \/ chunks[u] = Len(consumed'[u]) + Len(queue'[u])
                      \/ \E i \in DOMAIN toWorker' : toWorker'[i].t = "chunk" /\ toWorker'[i].side = u
    BY DEF NothingLost
  <2>1. CASE h.t = "chunk" /\ h.side = u
    BY <2>1
  <2>2. CASE ~(h.t = "chunk" /\ h.side = u)
    <3>1. consumed'[u] = consumed[u] /\ queue'[u] = queue[u]
      BY <2>2
    <3>2. CASE chunks[u] = Len(consumed[u]) + Len(queue[u])
      BY <3>1, <3>2
    <3>3. ASSUME NEW i \in DOMAIN toWorker, toWorker[i].t = "chunk", toWorker[i].side = u
          PROVE  \E j \in DOMAIN toWorker' : toWorker'[j].t = "chunk" /\ toWorker'[j].side = u
      <4>1. i # 1
        BY <1>1, <2>2, <3>3
      <4>2. i - 1 \in DOMAIN toWorker' /\ i \in Nat
        BY <4>1, <3>3, ChannelTypes, TailIndices DEF Inv
      <4>3. toWorker'[i - 1] = toWorker[(i - 1) + 1] /\ (i - 1) + 1 = i
        BY <1>2, <4>2
      <4>4. QED
        BY <3>3, <4>2, <4>3
    <3>4. QED
      BY <1>1, <3>2, <3>3 DEF Inv, NothingLost
  <2>3. QED
    BY <2>1, <2>2
<1>5. QED
  BY <1>3, <1>4

\* What the replies say when the worker gives one more.
LEMMA ReplyKeepsReplies ==
  ASSUME Inv, Live, UNCHANGED <<pending, failure, pump, cause, broken>>,
         NEW q \in Nat \ {0}, NEW e \in Errors, Reply(q, e),
         AwaitedBy(q, "ready") => engine' \in {"done", "failed"} /\ e = broken,
         \A s \in Sides : AwaitedBy(q, s) => e = None,
         engine' = engine \/ (engine \notin {"done", "failed"} /\ engine' # "failed"),
         \A s \in Sides : failed'[s] = failed[s] \/ (failed[s] = None /\ AwaitedBy(q, s))
  PROVE  RepliesFit' /\ Causes' /\ Breaks'
<1>1. /\ Len(toClient) + 1 \in DOMAIN toClient'
      /\ toClient'[Len(toClient) + 1].seq = q /\ toClient'[Len(toClient) + 1].error = e
      /\ \A i \in DOMAIN toClient :
           i \in DOMAIN toClient' /\ toClient'[i] = toClient[i] /\ i < Len(toClient) + 1
      /\ \A i \in DOMAIN toClient' : i \in DOMAIN toClient \/ i = Len(toClient) + 1
  BY ReplyIndices DEF Inv
<1>2. Live'
  BY DEF Live
<1>3. RepliesFit'
  <2> SUFFICES ASSUME NEW i \in DOMAIN toClient'
               PROVE  /\ \A s \in Sides :
                           toClient'[i].seq \in DOMAIN pending /\ pending[toClient'[i].seq] = s =>
                             toClient'[i].error = None
                      /\ toClient'[i].seq \in DOMAIN pending /\ pending[toClient'[i].seq] = "ready" =>
                           engine' \in {"done", "failed"} /\ toClient'[i].error = broken
    BY DEF RepliesFit, AwaitedBy, None
  <2>1. CASE i \in DOMAIN toClient
    BY <1>1, <2>1 DEF Inv, RepliesFit, AwaitedBy
  <2>2. CASE i = Len(toClient) + 1
    BY <1>1, <2>2 DEF AwaitedBy
  <2>3. QED
    BY <1>1, <2>1, <2>2
<1>4. ASSUME NEW s \in Sides, failed'[s] # None
      PROVE  \E i \in DOMAIN toClient' :
               toClient'[i].seq \in DOMAIN pending /\ pending[toClient'[i].seq] = s
  <2>1. CASE failed'[s] = failed[s]
    <3>1. PICK i \in DOMAIN toClient : AwaitedBy(toClient[i].seq, s)
      BY <1>4, <2>1 DEF Inv, Causes
    <3>2. QED
      BY <1>1, <3>1 DEF AwaitedBy
  <2>2. CASE AwaitedBy(q, s)
    BY <1>1, <2>2 DEF AwaitedBy
  <2>3. QED
    BY <2>1, <2>2
<1>5. Causes'
  <2>1. \A s \in Sides : /\ pump'[s] = "failing" <=> cause'[s] # None
                         /\ cause'[s] \in {None, Aborted, Unread(s)}
    BY DEF Inv, Causes
  <2>2. QED
    BY <1>4, <2>1 DEF Causes, AwaitedBy, Aborted, Unread, None
<1>6. ASSUME broken \notin Own \cup {None}, NEW i \in DOMAIN toClient',
             toClient'[i].seq \in DOMAIN pending, pending[toClient'[i].seq] = "ready"
      PROVE  \E s \in Sides, j \in DOMAIN toClient' :
               /\ failed'[s] # None /\ j < i
               /\ toClient'[j].seq \in DOMAIN pending /\ pending[toClient'[j].seq] = s
  <2>1. CASE i \in DOMAIN toClient
    <3>1. PICK s \in Sides, j \in DOMAIN toClient :
            failed[s] # None /\ j < i /\ AwaitedBy(toClient[j].seq, s)
      BY <1>1, <1>6, <2>1 DEF Inv, Breaks, AwaitedBy
    <3>2. failed'[s] # None /\ j \in DOMAIN toClient' /\ toClient'[j] = toClient[j]
      BY <1>1, <3>1
    <3>3. QED
      BY <3>1, <3>2 DEF AwaitedBy
  <2>2. CASE i = Len(toClient) + 1
    <3>1. PICK s \in Sides : broken = failed[s]
      BY <1>6 DEF Inv, Breaks
    <3>2. failed[s] # None
      BY <1>6, <3>1
    <3>3. PICK j \in DOMAIN toClient : AwaitedBy(toClient[j].seq, s)
      BY <3>2 DEF Inv, Causes
    <3>4. failed'[s] # None /\ j \in DOMAIN toClient' /\ toClient'[j] = toClient[j] /\ j < i
      BY <1>1, <2>2, <3>2, <3>3
    <3>5. QED
      BY <3>3, <3>4 DEF AwaitedBy
  <2>3. QED
    BY <1>1, <2>1, <2>2
<1>7. Breaks'
  <2>1. engine' = "failed" <=> broken # None
    BY DEF Inv, Breaks
  <2>2. broken \in Own \cup {None} \cup {failed'[s] : s \in Sides}
    BY DEF Inv, Breaks
  <2>3. QED
    BY <1>6, <2>1, <2>2 DEF Breaks, AwaitedBy, Own, None
<1>8. QED
  BY <1>3, <1>5, <1>7

\* What they say when it gives none.
LEMMA QuietKeepsReplies ==
  ASSUME Inv, Live, UNCHANGED <<pending, failure, pump, cause, toClient, failed>>,
         \/ engine' = engine /\ broken' = broken
         \/ /\ engine \notin {"done", "failed"} /\ (engine' = "failed" <=> broken' # None)
            /\ broken' \in Own \cup {None} \cup {failed[s] : s \in Sides}
  PROVE  RepliesFit' /\ Causes' /\ Breaks'
<1>1. Causes'
  BY DEF Inv, Causes, Live, AwaitedBy, Aborted, Unread, None
<1>2. CASE engine' = engine /\ broken' = broken
  <2>1. RepliesFit'
    BY <1>2 DEF Inv, RepliesFit, AwaitedBy, Live, None
  <2>2. Breaks'
    BY <1>2 DEF Inv, Breaks, AwaitedBy, Live, None, Own
  <2>3. QED
    BY <1>1, <2>1, <2>2
<1>3. CASE /\ engine \notin {"done", "failed"} /\ (engine' = "failed" <=> broken' # None)
           /\ broken' \in Own \cup {None} \cup {failed[s] : s \in Sides}
  <2>1. \A i \in DOMAIN toClient : ~AwaitedBy(toClient[i].seq, "ready")
    BY <1>3 DEF Inv, RepliesFit
  <2>2. RepliesFit'
    BY <2>1 DEF Inv, RepliesFit, AwaitedBy, None
  <2>3. Breaks'
    <3>1. /\ engine' = "failed" <=> broken' # None
          /\ broken' \in Own \cup {None} \cup {failed'[s] : s \in Sides}
      BY <1>3
    <3>2. QED
      BY <2>1, <3>1 DEF Breaks, AwaitedBy, Own, None
  <2>4. QED
    BY <1>1, <2>2, <2>3
<1>4. QED
  BY <1>2, <1>3

\* The engine is loaded on the worker's first message.
LEMMA TakeOpenKeepsInv ==
  ASSUME Inv, TakeOpen
  PROVE  Inv'
<1> DEFINE h == Head(toWorker)
<1>1. /\ alive /\ toWorker # <<>> /\ toWorker' = Tail(toWorker) /\ h.t = "open"
      /\ engine' = "loading" /\ Reply(h.seq, None)
      /\ UNCHANGED <<client, alive, pushed, broken, consumed, asked>>
  BY DEF TakeOpen, Take
<1>2. /\ Live /\ h = toWorker[1] /\ 1 \in DOMAIN toWorker /\ h.seq \in Nat \ {0}
      /\ AwaitedBy(h.seq, "open") /\ None \in Errors
  BY <1>1, HeadOfWorker, MessageParts, ErrorsDiffer
<1>3. engine = "unopened"
  BY <1>1, <1>2 DEF Inv, MessagesFit
<1> HIDE DEF h
<1>4. UNCHANGED <<queue, buffered, ended, failed, readerWaits, writer, writerWaits>>
  BY <1>1 DEF pushed
<1>5. /\ Live' /\ ClientOK' /\ toClient' \in Seq(Replies) /\ Requests' /\ Failing' /\ Outcomes'
      /\ UNCHANGED <<seq, pending, failure, pump, chunks, cause, aborted, outcome>>
  BY <1>1, <1>2, <1>3, WorkerKeepsClient
<1>6. TypeOK'
  <2>1. toWorker' \in Seq(Messages)
    BY <1>1, ChannelTypes, TailIndices DEF Inv
  <2>2. WorkerOK'
    BY <1>1, <1>4 DEF Inv, TypeOK, WorkerOK, Engines
  <2>3. QED
    BY <1>5, <2>1, <2>2 DEF TypeOK, ChannelsOK
<1>7. Flight'
  BY <1>1, <1>2, <1>4, <1>5, AnswerKeepsFlight DEF h
<1>8. MessagesFit' /\ NothingLost'
  BY <1>1, <1>4, <1>5, TakeKeepsMessages DEF h
<1>9. RepliesFit' /\ Causes' /\ Breaks'
  <2>1. ~AwaitedBy(h.seq, "ready") /\ \A s \in Sides : ~AwaitedBy(h.seq, s)
    BY <1>2 DEF AwaitedBy, Sides
  <2>2. QED
    BY <1>1, <1>2, <1>3, <1>4, <1>5, <2>1, ReplyKeepsReplies
<1>10. InOrder'
  BY <1>1, <1>4 DEF Inv, InOrder
<1>11. Ends'
  BY <1>1, <1>4, <1>5 DEF Inv, Ends, Complete, Passed, Copied, None
<1>12. QED
  BY <1>5, <1>6, <1>7, <1>8, <1>9, <1>10, <1>11 DEF Inv, Flight

\* The comparison is asked for.
LEMMA TakeReadyKeepsInv ==
  ASSUME Inv, TakeReady
  PROVE  Inv'
<1>1. /\ alive /\ toWorker # <<>> /\ toWorker' = Tail(toWorker) /\ Head(toWorker).t = "ready"
      /\ asked' = Head(toWorker).seq
      /\ UNCHANGED <<client, toClient, alive, pushed, engine, broken, consumed>>
  BY DEF TakeReady, Take
<1>2. Live /\ Head(toWorker).seq \in Nat
  BY <1>1, HeadOfWorker
<1>3. UNCHANGED <<queue, buffered, ended, failed, readerWaits, writer, writerWaits>>
  BY <1>1 DEF pushed
<1>4. /\ Live' /\ ClientOK' /\ toClient' \in Seq(Replies) /\ Requests' /\ Failing' /\ Outcomes'
      /\ UNCHANGED <<seq, pending, failure, pump, chunks, cause, aborted, outcome>>
  BY <1>1, WorkerKeepsClient
<1>5. TypeOK'
  <2>1. toWorker' \in Seq(Messages)
    BY <1>1, ChannelTypes, TailIndices DEF Inv
  <2>2. WorkerOK'
    BY <1>1, <1>2, <1>3 DEF Inv, TypeOK, WorkerOK
  <2>3. QED
    BY <1>4, <2>1, <2>2 DEF TypeOK, ChannelsOK
<1>6. Flight'
  BY <1>1, <1>3, <1>4, HoldKeepsFlight
<1>7. MessagesFit' /\ NothingLost'
  BY <1>1, <1>3, <1>4, TakeKeepsMessages
<1>8. RepliesFit' /\ Causes' /\ Breaks'
  BY <1>1, <1>2, <1>3, <1>4, QuietKeepsReplies
<1>9. InOrder'
  BY <1>1, <1>3 DEF Inv, InOrder
<1>10. Ends'
  BY <1>1, <1>3, <1>4 DEF Inv, Ends, Complete, Passed, Copied, None
<1>11. QED
  BY <1>4, <1>5, <1>6, <1>7, <1>8, <1>9, <1>10 DEF Inv, Flight

\* The module loads, or fails to.
LEMMA LoadedKeepsInv ==
  ASSUME Inv, Loaded
  PROVE  Inv'
<1>1. /\ alive /\ engine = "loading" /\ engine' \in {"source", "failed"}
      /\ engine' = "source" => broken' = broken
      /\ engine' = "failed" => broken' = <<"load">>
      /\ UNCHANGED <<client, toWorker, toClient, alive, pushed, consumed, asked>>
  BY DEF Loaded
<1>2. broken = None
  BY <1>1 DEF Inv, Breaks
<1>3. UNCHANGED <<queue, buffered, ended, failed, readerWaits, writer, writerWaits>>
  BY <1>1 DEF pushed
<1>4. /\ Live /\ Live' /\ ClientOK' /\ toClient' \in Seq(Replies)
      /\ Requests' /\ Failing' /\ Outcomes'
      /\ UNCHANGED <<seq, pending, failure, pump, chunks, cause, aborted, outcome>>
  BY <1>1, WorkerKeepsClient
<1>5. TypeOK'
  <2>1. WorkerOK'
    BY <1>1, <1>3, ErrorsDiffer DEF Inv, TypeOK, WorkerOK, Engines, Sides
  <2>2. QED
    BY <1>1, <1>4, <2>1 DEF Inv, TypeOK, ChannelsOK
<1>6. OnTheirWay' /\ Replied' /\ Held' /\ InOrder'
  BY <1>1, <1>3, <1>4
     DEF Inv, OnTheirWay, Replied, Held, InOrder, AwaitedBy, Sender
<1>7. MessagesFit'
  <2>1. \A i \in DOMAIN toWorker : toWorker[i].t # "open"
    BY <1>1, <1>4 DEF Inv, MessagesFit
  <2>2. QED
    BY <1>1, <1>3, <1>4, <2>1 DEF Inv, MessagesFit, Copied, None
<1>8. NothingLost'
  BY <1>1, <1>3, <1>4 DEF Inv, NothingLost
<1>9. RepliesFit' /\ Causes' /\ Breaks'
  <2>1. broken' \in Own \cup {None} /\ (engine' = "failed" <=> broken' # None)
    BY <1>1, <1>2, ErrorsDiffer DEF Own
  <2>2. QED
    BY <1>1, <1>3, <1>4, <2>1, QuietKeepsReplies
<1>10. Ends'
  BY <1>1, <1>3, <1>4 DEF Inv, Ends, Complete, Passed, Copied, None, Sides
<1>11. QED
  BY <1>4, <1>5, <1>6, <1>7, <1>8, <1>9, <1>10 DEF Inv

\* The comparison answers with how it ended.
LEMMA AnswerReadyKeepsInv ==
  ASSUME Inv, AnswerReady
  PROVE  Inv'
<1>1. /\ alive /\ asked # 0 /\ engine \in {"done", "failed"} /\ Reply(asked, broken) /\ asked' = 0
      /\ UNCHANGED <<client, toWorker, alive, pushed, engine, broken, consumed>>
      /\ asked \in Nat \ {0} /\ broken \in Errors
  BY DEF AnswerReady, ReadyRuns, Inv, TypeOK, WorkerOK
<1>2. UNCHANGED <<queue, buffered, ended, failed, readerWaits, writer, writerWaits>>
  BY <1>1 DEF pushed
<1>3. /\ Live /\ Live' /\ ClientOK' /\ toClient' \in Seq(Replies)
      /\ Requests' /\ Failing' /\ Outcomes'
      /\ UNCHANGED <<seq, pending, failure, pump, chunks, cause, aborted, outcome>>
  BY <1>1, WorkerKeepsClient
<1>4. TypeOK'
  <2>1. WorkerOK'
    BY <1>1, <1>2 DEF Inv, TypeOK, WorkerOK
  <2>2. QED
    BY <1>1, <1>3, <2>1 DEF Inv, TypeOK, ChannelsOK
<1>5. Flight'
  BY <1>1, <1>2, <1>3, ReleaseKeepsFlight
<1>6. MessagesFit' /\ NothingLost'
  BY <1>1, <1>2, <1>3 DEF Inv, MessagesFit, NothingLost, Copied, None
<1>7. RepliesFit' /\ Causes' /\ Breaks'
  <2>1. AwaitedBy(asked, "ready") /\ \A s \in Sides : ~AwaitedBy(asked, s)
    BY <1>1, <1>3 DEF Inv, Held, AwaitedBy, Sides
  <2>2. QED
    BY <1>1, <1>2, <1>3, <2>1, ReplyKeepsReplies
<1>8. InOrder'
  BY <1>1, <1>2 DEF Inv, InOrder
<1>9. Ends'
  BY <1>1, <1>2, <1>3 DEF Inv, Ends, Complete, Passed, Copied, None
<1>10. QED
  BY <1>3, <1>4, <1>5, <1>6, <1>7, <1>8, <1>9 DEF Inv, Flight

\* A chunk joins the queue of its side, and its request is answered or held.
LEMMA TakeChunkKeepsInv ==
  ASSUME Inv, TakeChunk
  PROVE  Inv'
<1>a. PICK h : h = Head(toWorker)
  OBVIOUS
<1>b. PICK s : s = h.side
  OBVIOUS
<1>1. /\ alive /\ toWorker # <<>> /\ toWorker' = Tail(toWorker) /\ h.t = "chunk"
      /\ UNCHANGED <<client, alive, comparison>>
  BY <1>a DEF TakeChunk, Take
<1>2. /\ Live /\ h = toWorker[1] /\ 1 \in DOMAIN toWorker /\ h.seq \in Nat \ {0}
      /\ h \in Messages /\ s \in Sides /\ h.chunk \in Chunks /\ Sender(h) = s
      /\ AwaitedBy(h.seq, s) /\ None \in Errors
  BY <1>a, <1>b, <1>1, HeadOfWorker, MessageParts, ErrorsDiffer
<1>3. /\ pump[s] = "sending" /\ h.chunk.n = chunks[s]
      /\ chunks[s] = Len(consumed[s]) + Len(queue[s]) + 1
  <2>1. MessagesFit
    BY DEF Inv
  <2>2. toWorker[1].t = "chunk" =>
          /\ pump[toWorker[1].side] = "sending"
          /\ toWorker[1].chunk.n = chunks[toWorker[1].side]
          /\ chunks[toWorker[1].side] =
               Len(consumed[toWorker[1].side]) + Len(queue[toWorker[1].side]) + 1
    BY <1>2, <2>1 DEF MessagesFit
  <2>3. QED
    BY <1>b, <1>1, <1>2, <2>2
<1>4. failed[s] = None /\ ended[s] = FALSE /\ ~Passed(s)
  <2>1. failed[s] = None /\ ~Passed(s)
    BY <1>2, <1>3 DEF Inv, Ends, Complete
  <2>2. ended[s] \in BOOLEAN
    BY <1>2 DEF Inv, TypeOK, WorkerOK
  <2>3. ~(ended[s] /\ failed[s] = None)
    BY <1>2, <1>3 DEF Inv, Ends, Complete
  <2>4. QED
    BY <2>1, <2>2, <2>3
<1>5. /\ queue' = [queue EXCEPT ![s] = Append(@, h.chunk)]
      /\ buffered' = [buffered EXCEPT ![s] = @ + h.chunk.size]
      /\ readerWaits' = WakeReader(s)
      /\ writerWaits' = [writerWaits EXCEPT ![s] = Full(s, h.chunk.size)]
      /\ \/ writer' = [writer EXCEPT ![s] = h.seq] /\ toClient' = toClient
         \/ Reply(h.seq, None) /\ writer' = writer
      /\ UNCHANGED <<ended, failed>>
  BY <1>a, <1>b, <1>4 DEF TakeChunk
<1>6. UNCHANGED <<engine, broken, consumed, asked>>
  BY <1>1 DEF comparison
<1>7. /\ Live' /\ ClientOK' /\ toClient' \in Seq(Replies)
      /\ Requests' /\ Failing' /\ Outcomes'
      /\ UNCHANGED <<seq, pending, failure, pump, chunks, cause, aborted, outcome>>
  <2>1. toClient' = toClient \/ \E q \in Nat \ {0}, e \in Errors : Reply(q, e)
    BY <1>2, <1>5
  <2>2. QED
    BY <1>1, <1>6, <2>1, WorkerKeepsClient
<1>8. /\ queue \in [Sides -> Seq(Chunks)] /\ consumed \in [Sides -> Seq(Nat)]
      /\ buffered \in [Sides -> Int] /\ writer \in [Sides -> Nat]
      /\ readerWaits \in [Sides -> BOOLEAN] /\ writerWaits \in [Sides -> BOOLEAN]
  BY DEF Inv, TypeOK, WorkerOK
<1>9. /\ \A u \in Sides : u # s => queue'[u] = queue[u]
      /\ queue'[s] = Append(queue[s], h.chunk) /\ queue'[s] \in Seq(Chunks)
      /\ Len(queue[s]) \in Nat /\ Len(queue'[s]) = Len(queue[s]) + 1
      /\ DOMAIN queue[s] = 1 .. Len(queue[s]) /\ DOMAIN queue'[s] = 1 .. Len(queue[s]) + 1
      /\ queue'[s][Len(queue[s]) + 1] = h.chunk
      /\ \A i \in DOMAIN queue[s] : queue'[s][i] = queue[s][i]
  <2>1. queue[s] \in Seq(Chunks) /\ queue'[s] = Append(queue[s], h.chunk)
        /\ \A u \in Sides : u # s => queue'[u] = queue[u]
    BY <1>2, <1>5, <1>8
  <2>2. QED
    BY <1>2, <2>1, AppendIndices
<1>10. Len(consumed[s]) \in Nat
  BY <1>2, <1>8, LenProperties
<1>11. TypeOK'
  <2>1. toWorker' \in Seq(Messages)
    BY <1>1, ChannelTypes, TailIndices DEF Inv
  <2>2. queue' \in [Sides -> Seq(Chunks)]
    BY <1>5, <1>8, <1>9
  <2>3. h.chunk.size \in Int
    <3>1. h.chunk.size \in Sizes
      BY <1>2 DEF Chunks
    <3>2. PICK z : z = h.chunk.size
      OBVIOUS
    <3>3. z \in Sizes
      BY <3>1, <3>2
    <3>4. z \in Int
      BY <3>3, SizesAssumption
    <3>5. QED
      BY <3>2, <3>4
  <2>4. buffered' \in [Sides -> Int]
    <3>1. buffered[s] + h.chunk.size \in Int
      BY <1>2, <1>8, <2>3
    <3>2. buffered' = [buffered EXCEPT ![s] = buffered[s] + h.chunk.size]
      BY <1>5
    <3>3. QED
      BY <1>8, <3>1, <3>2
  <2>5. writer' \in [Sides -> Nat]
    BY <1>2, <1>5, <1>8
  <2>6. readerWaits' \in [Sides -> BOOLEAN] /\ writerWaits' \in [Sides -> BOOLEAN]
    <3>1. Full(s, h.chunk.size) \in BOOLEAN
      BY DEF Full
    <3>2. QED
      BY <1>5, <1>8, <3>1 DEF WakeReader
  <2>7. WorkerOK'
    BY <1>1, <1>5, <1>6, <2>2, <2>4, <2>5, <2>6 DEF Inv, TypeOK, WorkerOK
  <2>8. QED
    BY <1>7, <2>1, <2>7 DEF TypeOK, ChannelsOK
<1>12. Flight'
  <2>1. CASE writer' = [writer EXCEPT ![s] = h.seq] /\ toClient' = toClient
    BY <1>1, <1>6, <1>7, <2>1, <1>a, <1>b, HoldKeepsFlight
  <2>2. CASE Reply(h.seq, None) /\ writer' = writer
    BY <1>1, <1>2, <1>6, <1>7, <2>2, <1>a, AnswerKeepsFlight
  <2>3. QED
    BY <1>5, <2>1, <2>2
<1>13. MessagesFit' /\ NothingLost'
  <2>1. chunks[s] = Len(consumed'[s]) + Len(queue'[s])
    <3>1. Len(queue'[s]) = Len(queue[s]) + 1 /\ Len(queue[s]) \in Nat
      BY <1>9
    <3>2. consumed'[s] = consumed[s]
      BY <1>6
    <3>3. chunks[s] = Len(consumed[s]) + Len(queue[s]) + 1
      BY <1>3
    <3>4. \A d : \A a, b \in Nat : d = a + b + 1 => d = a + (b + 1)
      OBVIOUS
    <3>5. chunks[s] = Len(consumed[s]) + (Len(queue[s]) + 1)
      BY <1>10, <3>1, <3>3, <3>4, Zenon
    <3>6. QED
      BY <3>1, <3>2, <3>5, Zenon
  <2>2. \A u \in Sides :
          \/ consumed'[u] = consumed[u] /\ queue'[u] = queue[u]
          \/ h.t = "chunk" /\ h.side = u /\ chunks[u] = Len(consumed'[u]) + Len(queue'[u])
    BY <1>1, <1>6, <1>9, <2>1, <1>b
  <2>3. chunks[h.side] = Len(consumed'[h.side]) + Len(queue'[h.side])
    BY <2>1, <1>b
  <2>4. \A u \in Sides : failed'[u] = failed[u]
    BY <1>5
  <2>5. engine' = engine /\ UNCHANGED <<pending, failure, pump, chunks, cause>>
    BY <1>6, <1>7
  <2>6. QED
    BY <1>1, <2>2, <2>3, <2>4, <2>5, <1>a, TakeKeepsMessages
<1>14. RepliesFit' /\ Causes' /\ Breaks'
  <2>1. CASE toClient' = toClient
    BY <1>2, <1>5, <1>6, <1>7, <2>1, QuietKeepsReplies
  <2>2. CASE Reply(h.seq, None)
    <3>1. ~AwaitedBy(h.seq, "ready")
      BY <1>2 DEF AwaitedBy, Sides
    <3>2. QED
      BY <1>2, <1>5, <1>6, <1>7, <2>2, <3>1, ReplyKeepsReplies
  <2>3. QED
    BY <1>5, <2>1, <2>2
<1>15. InOrder'
  <2> SUFFICES ASSUME NEW u \in Sides
               PROVE  /\ \A i \in DOMAIN consumed[u] : consumed[u][i] = i
                      /\ \A i \in DOMAIN queue'[u] : queue'[u][i].n = Len(consumed[u]) + i
    BY <1>6 DEF InOrder
  <2>1. CASE u # s
    BY <1>9, <2>1 DEF Inv, InOrder
  <2>2. CASE u = s
    <3>1. \A i \in DOMAIN queue[s] : queue[s][i].n = Len(consumed[s]) + i
      BY <1>2 DEF Inv, InOrder
    <3>2. h.chunk.n = Len(consumed[s]) + (Len(queue[s]) + 1)
      <4>1. h.chunk.n = Len(consumed[s]) + Len(queue[s]) + 1
        BY <1>3
      <4>2. Len(queue[s]) \in Nat
        BY <1>9
      <4>3. \A d : \A a, b \in Nat : d = a + b + 1 => d = a + (b + 1)
        OBVIOUS
      <4>4. QED
        BY <1>10, <4>1, <4>2, <4>3, Zenon
    <3>3. \A i \in DOMAIN queue'[s] : i \in DOMAIN queue[s] \/ i = Len(queue[s]) + 1
      BY <1>9
    <3>4. \A i \in DOMAIN queue'[s] : queue'[s][i].n = Len(consumed[s]) + i
      BY <1>9, <3>1, <3>2, <3>3
    <3>5. \A i \in DOMAIN consumed[s] : consumed[s][i] = i
      BY <1>2 DEF Inv, InOrder
    <3>6. QED
      BY <2>2, <3>4, <3>5
  <2>3. QED
    BY <2>1, <2>2
<1>16. Ends'
  <2> SUFFICES ASSUME NEW u \in Sides
               PROVE  /\ ended[u] /\ failed[u] = None => Complete(u)'
                      /\ failed[u] # None =>
                           pump[u] \in {"failing", "threw"} /\ failed[u] = Copied(cause[u])
                      /\ Passed(u) => Complete(u)' /\ queue'[u] = <<>>
    BY <1>5, <1>6, <1>7 DEF Ends, Passed, Copied, None
  <2>1. CASE u = s
    BY <1>4, <2>1
  <2>2. CASE u # s
    BY <1>6, <1>7, <1>9, <2>2 DEF Inv, Ends, Complete, None
  <2>3. QED
    BY <2>1, <2>2
<1>17. QED
  BY <1>7, <1>11, <1>12, <1>13, <1>14, <1>15, <1>16 DEF Inv, Flight

\* A write that was woken waits again, or returns.
LEMMA WriterStepKeepsInv ==
  ASSUME Inv, NEW s \in Sides, WriterStep(s)
  PROVE  Inv'
<1>1. /\ alive /\ writer[s] # 0
      /\ UNCHANGED <<client, toWorker, alive, queue, buffered, ended, failed, readerWaits, comparison>>
      /\ \/ writerWaits' = [writerWaits EXCEPT ![s] = TRUE] /\ UNCHANGED <<toClient, writer>>
         \/ /\ Reply(writer[s], failed[s]) /\ writer' = [writer EXCEPT ![s] = 0]
            /\ writerWaits' = writerWaits
  BY DEF WriterStep, WriterRuns
<1>2. UNCHANGED <<engine, broken, consumed, asked>>
  BY <1>1 DEF comparison
<1>3. /\ writer \in [Sides -> Nat] /\ writerWaits \in [Sides -> BOOLEAN]
      /\ failed \in [Sides -> Errors] /\ writer[s] \in Nat \ {0} /\ failed[s] \in Errors
  BY <1>1 DEF Inv, TypeOK, WorkerOK
<1>4. /\ Live /\ Live' /\ ClientOK' /\ toClient' \in Seq(Replies)
      /\ Requests' /\ Failing' /\ Outcomes'
      /\ UNCHANGED <<seq, pending, failure, pump, chunks, cause, aborted, outcome>>
  <2>1. toClient' = toClient \/ \E q \in Nat \ {0}, e \in Errors : Reply(q, e)
    BY <1>1, <1>3
  <2>2. QED
    BY <1>1, <1>2, <2>1, WorkerKeepsClient
<1>5. AwaitedBy(writer[s], s) /\ pump[s] = "sending" /\ failed[s] = None
  BY <1>1, <1>4 DEF Inv, Held, Ends
<1>6. TypeOK'
  <2>1. writer' \in [Sides -> Nat] /\ writerWaits' \in [Sides -> BOOLEAN]
    <3>1. writer' \in {writer, [writer EXCEPT ![s] = 0]}
      BY <1>1
    <3>2. writerWaits' \in {writerWaits, [writerWaits EXCEPT ![s] = TRUE]}
      BY <1>1
    <3>3. [writer EXCEPT ![s] = 0] \in [Sides -> Nat]
      BY <1>3
    <3>4. [writerWaits EXCEPT ![s] = TRUE] \in [Sides -> BOOLEAN]
      BY <1>3
    <3>5. QED
      BY <1>3, <3>1, <3>2, <3>3, <3>4
  <2>2. WorkerOK'
    BY <1>1, <1>2, <2>1 DEF Inv, TypeOK, WorkerOK
  <2>3. QED
    BY <1>1, <1>4, <2>2 DEF Inv, TypeOK, ChannelsOK
<1>7. Flight'
  <2>1. CASE UNCHANGED <<toClient, writer>>
    BY <1>1, <1>2, <1>4, <2>1
       DEF Inv, Flight, OnTheirWay, Replied, Held, AwaitedBy, Sender
  <2>2. CASE Reply(writer[s], failed[s]) /\ writer' = [writer EXCEPT ![s] = 0]
    BY <1>1, <1>2, <1>3, <1>4, <2>2, ReleaseKeepsFlight
  <2>3. QED
    BY <1>1, <2>1, <2>2
<1>8. RepliesFit' /\ Causes' /\ Breaks'
  <2>1. CASE UNCHANGED <<toClient, writer>>
    BY <1>1, <1>2, <1>4, <2>1, QuietKeepsReplies
  <2>2. CASE Reply(writer[s], failed[s])
    <3>1. ~AwaitedBy(writer[s], "ready")
      BY <1>5 DEF AwaitedBy, Sides
    <3>2. QED
      BY <1>1, <1>2, <1>3, <1>4, <1>5, <2>2, <3>1, ReplyKeepsReplies
  <2>3. QED
    BY <1>1, <2>1, <2>2
<1>9. MessagesFit' /\ NothingLost' /\ InOrder'
  BY <1>1, <1>2, <1>4 DEF Inv, MessagesFit, NothingLost, InOrder, Copied, None
<1>10. Ends'
  BY <1>1, <1>2, <1>4 DEF Inv, Ends, Complete, Passed, Copied, None
<1>11. QED
  BY <1>4, <1>6, <1>7, <1>8, <1>9, <1>10 DEF Inv, Flight

\* A side ends: every chunk of it is queued or parsed.
LEMMA TakeEndKeepsInv ==
  ASSUME Inv, TakeEnd
  PROVE  Inv'
<1>a. PICK h : h = Head(toWorker)
  OBVIOUS
<1>b. PICK s : s = h.side
  OBVIOUS
<1>1. /\ alive /\ toWorker # <<>> /\ toWorker' = Tail(toWorker) /\ h.t = "end"
      /\ ended' = [ended EXCEPT ![s] = TRUE] /\ readerWaits' = WakeReader(s)
      /\ Reply(h.seq, None)
      /\ UNCHANGED <<client, alive, queue, buffered, failed, writer, writerWaits, comparison>>
  BY <1>a, <1>b DEF TakeEnd, Take
<1>2. /\ Live /\ h = toWorker[1] /\ 1 \in DOMAIN toWorker /\ h.seq \in Nat \ {0}
      /\ h \in Messages /\ s \in Sides /\ AwaitedBy(h.seq, s) /\ None \in Errors
  BY <1>a, <1>b, <1>1, HeadOfWorker, MessageParts, ErrorsDiffer
<1>3. pump[s] = "ending"
  BY <1>b, <1>1, <1>2 DEF Inv, MessagesFit
<1>4. Complete(s)
  <2>1. cause[s] = None
    BY <1>2, <1>3 DEF Inv, Causes
  <2>2. \A i \in DOMAIN toWorker : ~(toWorker[i].t = "chunk" /\ toWorker[i].side = s)
    BY <1>2, <1>3 DEF Inv, MessagesFit
  <2>3. chunks[s] = Len(consumed[s]) + Len(queue[s])
    BY <1>2, <2>2 DEF Inv, NothingLost
  <2>4. QED
    BY <1>3, <2>1, <2>3 DEF Complete
<1>5. UNCHANGED <<engine, broken, consumed, asked>>
  BY <1>1 DEF comparison
<1>6. /\ Live' /\ ClientOK' /\ toClient' \in Seq(Replies)
      /\ Requests' /\ Failing' /\ Outcomes'
      /\ UNCHANGED <<seq, pending, failure, pump, chunks, cause, aborted, outcome>>
  BY <1>1, <1>2, <1>5, WorkerKeepsClient
<1>7. ended \in [Sides -> BOOLEAN] /\ readerWaits \in [Sides -> BOOLEAN]
  BY DEF Inv, TypeOK, WorkerOK
<1>8. TypeOK'
  <2>1. toWorker' \in Seq(Messages)
    BY <1>1, ChannelTypes, TailIndices DEF Inv
  <2>2. ended' \in [Sides -> BOOLEAN] /\ readerWaits' \in [Sides -> BOOLEAN]
    BY <1>1, <1>7 DEF WakeReader
  <2>3. WorkerOK'
    BY <1>1, <1>5, <2>2 DEF Inv, TypeOK, WorkerOK
  <2>4. QED
    BY <1>6, <2>1, <2>3 DEF TypeOK, ChannelsOK
<1>9. Flight'
  BY <1>a, <1>1, <1>2, <1>5, <1>6, AnswerKeepsFlight
<1>10. MessagesFit' /\ NothingLost'
  BY <1>a, <1>1, <1>5, <1>6, TakeKeepsMessages
<1>11. RepliesFit' /\ Causes' /\ Breaks'
  <2>1. ~AwaitedBy(h.seq, "ready")
    BY <1>2 DEF AwaitedBy, Sides
  <2>2. QED
    BY <1>1, <1>2, <1>5, <1>6, <2>1, ReplyKeepsReplies
<1>12. InOrder'
  BY <1>1, <1>5 DEF Inv, InOrder
<1>13. Ends'
  <2> SUFFICES ASSUME NEW u \in Sides
               PROVE  /\ ended'[u] /\ failed[u] = None => Complete(u)'
                      /\ failed[u] # None =>
                           pump[u] \in {"failing", "threw"} /\ failed[u] = Copied(cause[u])
                      /\ Passed(u) => Complete(u)' /\ queue[u] = <<>>
    BY <1>1, <1>5, <1>6 DEF Ends, Passed, Copied, None
  <2>1. Complete(u) => Complete(u)'
    BY <1>1, <1>5, <1>6 DEF Complete, None
  <2>2. u # s => ended'[u] = ended[u]
    BY <1>1, <1>7
  <2>3. QED
    BY <1>4, <2>1, <2>2 DEF Inv, Ends
<1>14. QED
  BY <1>6, <1>8, <1>9, <1>10, <1>11, <1>12, <1>13 DEF Inv, Flight

\* A side fails with the copy of what its pump caught.
LEMMA TakeFailKeepsInv ==
  ASSUME Inv, TakeFail
  PROVE  Inv'
<1>a. PICK h : h = Head(toWorker)
  OBVIOUS
<1>b. PICK s : s = h.side
  OBVIOUS
<1>1. /\ alive /\ toWorker # <<>> /\ toWorker' = Tail(toWorker) /\ h.t = "fail"
      /\ failed' = [failed EXCEPT ![s] = h.error] /\ ended' = [ended EXCEPT ![s] = TRUE]
      /\ readerWaits' = WakeReader(s) /\ writerWaits' = WakeWriter(s)
      /\ Reply(h.seq, None) /\ writer' = writer
      /\ UNCHANGED <<client, alive, queue, buffered, comparison>>
  BY <1>a, <1>b DEF TakeFail, Take, FailAnswered
<1>2. /\ Live /\ h = toWorker[1] /\ 1 \in DOMAIN toWorker /\ h.seq \in Nat \ {0}
      /\ h \in Messages /\ s \in Sides /\ Sender(h) = s /\ h.error \in Errors
      /\ AwaitedBy(h.seq, s) /\ None \in Errors
  BY <1>a, <1>b, <1>1, HeadOfWorker, MessageParts, ErrorsDiffer
<1>3. pump[s] = "failing" /\ failed[s] = None /\ h.error = Copied(cause[s])
  BY <1>b, <1>1, <1>2 DEF Inv, MessagesFit
<1>4. /\ failed \in [Sides -> Errors] /\ cause \in [Sides -> Errors]
      /\ ended \in [Sides -> BOOLEAN] /\ readerWaits \in [Sides -> BOOLEAN]
      /\ writerWaits \in [Sides -> BOOLEAN]
  BY DEF Inv, TypeOK, ClientOK, WorkerOK
<1>5. UNCHANGED <<engine, broken, consumed, asked>>
  BY <1>1 DEF comparison
<1>6. /\ Live' /\ ClientOK' /\ toClient' \in Seq(Replies)
      /\ Requests' /\ Failing' /\ Outcomes'
      /\ UNCHANGED <<seq, pending, failure, pump, chunks, cause, aborted, outcome>>
  BY <1>1, <1>2, <1>5, WorkerKeepsClient
<1>7. /\ \A u \in Sides : u # s => failed'[u] = failed[u] /\ ended'[u] = ended[u]
      /\ failed'[s] = Copied(cause[s]) /\ failed'[s] # None
  <2>1. Copied(cause[s]) # None
    BY <1>2, <1>4, ErrorsDiffer
  <2>2. QED
    BY <1>1, <1>2, <1>3, <1>4, <2>1
<1>8. TypeOK'
  <2>1. toWorker' \in Seq(Messages)
    BY <1>1, ChannelTypes, TailIndices DEF Inv
  <2>2. /\ failed' \in [Sides -> Errors] /\ ended' \in [Sides -> BOOLEAN]
        /\ readerWaits' \in [Sides -> BOOLEAN] /\ writerWaits' \in [Sides -> BOOLEAN]
    BY <1>1, <1>2, <1>4 DEF WakeReader, WakeWriter
  <2>3. WorkerOK'
    BY <1>1, <1>5, <2>2 DEF Inv, TypeOK, WorkerOK
  <2>4. QED
    BY <1>6, <2>1, <2>3 DEF TypeOK, ChannelsOK
<1>9. Flight'
  BY <1>a, <1>1, <1>2, <1>5, <1>6, AnswerKeepsFlight
<1>10. MessagesFit' /\ NothingLost'
  <2>1. \A u \in Sides : failed'[u] = failed[u] \/ u = Sender(Head(toWorker))
    BY <1>a, <1>2, <1>7
  <2>2. QED
    BY <1>a, <1>1, <1>5, <1>6, <2>1, TakeKeepsMessages
<1>11. RepliesFit' /\ Causes' /\ Breaks'
  <2>1. ~AwaitedBy(h.seq, "ready")
    BY <1>2 DEF AwaitedBy, Sides
  <2>2. \A u \in Sides : failed'[u] = failed[u] \/ (failed[u] = None /\ AwaitedBy(h.seq, u))
    BY <1>2, <1>3, <1>7
  <2>3. QED
    BY <1>1, <1>2, <1>5, <1>6, <2>1, <2>2, ReplyKeepsReplies
<1>12. InOrder'
  BY <1>1, <1>5 DEF Inv, InOrder
<1>13. Ends'
  <2> SUFFICES ASSUME NEW u \in Sides
               PROVE  /\ ended'[u] /\ failed'[u] = None => Complete(u)'
                      /\ failed'[u] # None =>
                           pump[u] \in {"failing", "threw"} /\ failed'[u] = Copied(cause[u])
                      /\ Passed(u) => Complete(u)' /\ queue[u] = <<>>
    BY <1>1, <1>5, <1>6 DEF Ends, Passed, Copied, None
  <2>1. Complete(u) => Complete(u)'
    BY <1>1, <1>5, <1>6 DEF Complete, None
  <2>2. CASE u = s
    BY <1>2, <1>3, <1>7, <2>2 DEF Inv, Ends, Complete
  <2>3. CASE u # s
    BY <1>7, <2>1, <2>3 DEF Inv, Ends
  <2>4. QED
    BY <2>2, <2>3
<1>14. QED
  BY <1>6, <1>8, <1>9, <1>10, <1>11, <1>12, <1>13 DEF Inv, Flight

\* The comparison reads on: what it does to the queues and to itself.
LEMMA EngineKeepsInv ==
  ASSUME Inv, alive, engine \in Sides,
         UNCHANGED <<client, toWorker, toClient, alive, asked, ended, failed, writer>>,
         WorkerOK', InOrder',
         engine' = "failed" <=> broken' # None,
         broken' \in Own \cup {None} \cup {failed[s] : s \in Sides},
         engine' # "unopened",
         \A s \in Sides : Len(consumed'[s]) + Len(queue'[s]) = Len(consumed[s]) + Len(queue[s]),
         \A s \in Sides : engine' = "done" \/ (engine' = "target" /\ s = "source") =>
           \/ Passed(s) /\ queue'[s] = queue[s]
           \/ Complete(s) /\ queue'[s] = <<>>
  PROVE  Inv'
<1>1. engine \notin {"done", "failed", "unopened"}
  BY DEF Sides
<1>2. /\ Live /\ Live' /\ ClientOK' /\ toClient' \in Seq(Replies)
      /\ Requests' /\ Failing' /\ Outcomes'
      /\ UNCHANGED <<seq, pending, failure, pump, chunks, cause, aborted, outcome>>
  BY <1>1, WorkerKeepsClient
<1>3. TypeOK'
  BY <1>2 DEF Inv, TypeOK, ChannelsOK
<1>4. OnTheirWay' /\ Replied' /\ Held'
  BY <1>2 DEF Inv, OnTheirWay, Replied, Held, AwaitedBy, Sender
<1>5. MessagesFit'
  <2> SUFFICES ASSUME NEW i \in DOMAIN toWorker
               PROVE  LET n == toWorker[i]
                      IN  /\ n.t = "open" => engine' = "unopened"
                          /\ n.t = "chunk" =>
                               /\ pump[n.side] = "sending"
                               /\ n.chunk.n = chunks[n.side]
                               /\ chunks[n.side] = Len(consumed'[n.side]) + Len(queue'[n.side]) + 1
                          /\ n.t = "end" => pump[n.side] = "ending"
                          /\ n.t = "fail" =>
                               /\ pump[n.side] = "failing" /\ failed[n.side] = None
                               /\ n.error = Copied(cause[n.side])
    BY <1>2 DEF MessagesFit, Copied, None
  <2> DEFINE n == toWorker[i]
  <2>1. n.t # "open"
    BY <1>1, <1>2 DEF Inv, MessagesFit
  <2>2. n.t \in {"chunk", "end", "fail"} => n.side \in Sides
    BY ChannelTypes, MessageParts DEF Inv
  <2>3. n.t = "chunk" => Len(consumed'[n.side]) + Len(queue'[n.side])
                           = Len(consumed[n.side]) + Len(queue[n.side])
    BY <2>2
  <2>4. /\ n.t = "chunk" =>
             /\ pump[n.side] = "sending"
             /\ n.chunk.n = chunks[n.side]
             /\ chunks[n.side] = Len(consumed[n.side]) + Len(queue[n.side]) + 1
        /\ n.t = "end" => pump[n.side] = "ending"
        /\ n.t = "fail" =>
             /\ pump[n.side] = "failing" /\ failed[n.side] = None
             /\ n.error = Copied(cause[n.side])
    BY <1>2 DEF Inv, MessagesFit
  <2> HIDE DEF n
  <2>5. QED
    BY <2>1, <2>3, <2>4 DEF n
<1>6. NothingLost'
  BY <1>2 DEF Inv, NothingLost
<1>7. RepliesFit' /\ Causes' /\ Breaks'
  BY <1>1, <1>2, QuietKeepsReplies
<1>8. \A s \in Sides : Complete(s) => Complete(s)'
  BY <1>2 DEF Complete, None
<1>9. Ends'
  <2> SUFFICES ASSUME NEW s \in Sides
               PROVE  /\ ended[s] /\ failed[s] = None => Complete(s)'
                      /\ failed[s] # None =>
                           pump[s] \in {"failing", "threw"} /\ failed[s] = Copied(cause[s])
                      /\ Passed(s)' => Complete(s)' /\ queue'[s] = <<>>
    BY <1>2 DEF Ends, Copied, None
  <2>1. Passed(s)' => Complete(s)' /\ queue'[s] = <<>>
    BY <1>8 DEF Inv, Ends, Passed
  <2>2. QED
    BY <1>8, <2>1 DEF Inv, Ends
<1>10. QED
  BY <1>2, <1>3, <1>4, <1>5, <1>6, <1>7, <1>9 DEF Inv

\* It takes the next chunk of a queue, and may fail on it.
LEMMA ReadChunkKeepsInv ==
  ASSUME Inv, alive, engine \in Sides, ReadChunk(engine),
         UNCHANGED <<client, toWorker, toClient, alive, asked>>
  PROVE  Inv'
<1>a. PICK s \in Sides : s = engine
  OBVIOUS
<1>1. /\ failed[s] = None /\ queue[s] # <<>>
      /\ queue' = [queue EXCEPT ![s] = Tail(@)]
      /\ buffered' = [buffered EXCEPT ![s] = @ - Head(queue[s]).size]
      /\ writerWaits' = (IF buffered'[s] < HighWater THEN WakeWriter(s) ELSE writerWaits)
      /\ consumed' = [consumed EXCEPT ![s] = Append(@, Head(queue[s]).n)]
      /\ UNCHANGED <<engine, broken>> \/ Break(<<"parse", s>>)
      /\ UNCHANGED <<ended, failed, readerWaits, writer>>
  BY <1>a DEF ReadChunk, HasFailed
<1>2. /\ queue \in [Sides -> Seq(Chunks)] /\ consumed \in [Sides -> Seq(Nat)]
      /\ buffered \in [Sides -> Int] /\ writerWaits \in [Sides -> BOOLEAN]
      /\ engine \in Engines /\ broken \in Errors
  BY DEF Inv, TypeOK, WorkerOK
<1>3. \A u \in Sides : u # s => queue'[u] = queue[u] /\ consumed'[u] = consumed[u]
  BY <1>1
<1> DEFINE Q == queue[s]
           C == consumed[s]
           n == Head(Q).n
<1>4. queue'[s] = Tail(Q) /\ consumed'[s] = Append(C, n) /\ Q \in Seq(Chunks) /\ C \in Seq(Nat)
      /\ Q # <<>>
  BY <1>1, <1>2
<1>5. \A i \in DOMAIN C : C[i] = i
  BY DEF Inv, InOrder
<1>6. \A i \in DOMAIN Q : Q[i].n = Len(C) + i
  BY DEF Inv, InOrder
<1> HIDE DEF Q, C, n
<1>7. /\ Head(Q) = Q[1] /\ Head(Q) \in Chunks /\ 1 \in DOMAIN Q
      /\ Tail(Q) \in Seq(Chunks) /\ Len(Tail(Q)) = Len(Q) - 1
      /\ \A i \in DOMAIN Tail(Q) : i \in Nat /\ i + 1 \in DOMAIN Q /\ Tail(Q)[i] = Q[i + 1]
  BY <1>4, TailIndices
<1>8. Len(C) \in Nat /\ Len(Q) \in Nat
  BY <1>4, LenProperties
<1>9. n = Len(C) + 1 /\ n \in Nat
  BY <1>6, <1>7, <1>8 DEF n
<1>10. /\ Append(C, n) \in Seq(Nat) /\ Len(Append(C, n)) = Len(C) + 1
       /\ DOMAIN C = 1 .. Len(C) /\ DOMAIN Append(C, n) = 1 .. Len(C) + 1
       /\ Append(C, n)[Len(C) + 1] = n /\ \A i \in DOMAIN C : Append(C, n)[i] = C[i]
  BY <1>4, <1>9, AppendIndices
<1>11. \A u \in Sides : Len(consumed'[u]) + Len(queue'[u]) = Len(consumed[u]) + Len(queue[u])
  <2>1. Len(consumed'[s]) + Len(queue'[s]) = Len(C) + Len(Q)
    BY <1>4, <1>7, <1>8, <1>10
  <2>2. Len(consumed'[s]) + Len(queue'[s]) = Len(consumed[s]) + Len(queue[s])
    BY <2>1 DEF C, Q
  <2>3. QED
    BY <1>3, <2>2
<1>12. InOrder'
  <2>1. \A i \in DOMAIN Append(C, n) : Append(C, n)[i] = i
    <3>1. \A i \in DOMAIN Append(C, n) : i \in DOMAIN C \/ i = Len(C) + 1
      BY <1>8, <1>10
    <3>2. QED
      BY <1>5, <1>9, <1>10, <3>1
  <2>2. \A i \in DOMAIN Tail(Q) : Tail(Q)[i].n = Len(Append(C, n)) + i
    <3>1. \A i \in DOMAIN Tail(Q) : Tail(Q)[i].n = Len(C) + (i + 1)
      BY <1>6, <1>7
    <3>2. \A i \in DOMAIN Tail(Q) : Len(C) + (i + 1) = Len(Append(C, n)) + i
      BY <1>7, <1>8, <1>10
    <3>3. QED
      BY <3>1, <3>2
  <2>3. \A u \in Sides : u # s =>
          /\ \A i \in DOMAIN consumed'[u] : consumed'[u][i] = i
          /\ \A i \in DOMAIN queue'[u] : queue'[u][i].n = Len(consumed'[u]) + i
    BY <1>3 DEF Inv, InOrder
  <2>4. /\ \A i \in DOMAIN consumed'[s] : consumed'[s][i] = i
        /\ \A i \in DOMAIN queue'[s] : queue'[s][i].n = Len(consumed'[s]) + i
    BY <1>4, <2>1, <2>2
  <2>5. QED
    BY <2>3, <2>4 DEF InOrder
<1>13. broken = None /\ engine # "failed" /\ engine # "unopened"
  <2>1. engine # "failed" /\ engine # "unopened"
    BY DEF Sides
  <2>2. QED
    BY <2>1 DEF Inv, Breaks
<1>14. \/ engine' = engine /\ broken' = broken
       \/ engine' = "failed" /\ broken' = <<"parse", s>>
  BY <1>1 DEF Break
<1>15. <<"parse", s>> \in Own /\ <<"parse", s>> # None /\ <<"parse", s>> \in Errors
  <2>1. <<"parse", s>> \in Own
    BY DEF Own
  <2>2. QED
    BY <2>1, ErrorsDiffer
<1>16. /\ engine' = "failed" <=> broken' # None
       /\ broken' \in Own \cup {None} \cup {failed[u] : u \in Sides}
       /\ engine' # "unopened"
  BY <1>13, <1>14, <1>15
<1>17. WorkerOK'
  <2>1. queue' \in [Sides -> Seq(Chunks)] /\ consumed' \in [Sides -> Seq(Nat)]
    BY <1>1, <1>2, <1>4, <1>7, <1>10 DEF Q, C, n
  <2>2. buffered' \in [Sides -> Int]
    <3>1. PICK z : z = Head(queue[s]).size
      OBVIOUS
    <3>2. z \in Sizes
      BY <1>7, <3>1 DEF Q, Chunks
    <3>3. z \in Int
      BY <3>2, SizesAssumption
    <3>4. buffered[s] - z \in Int
      BY <1>2, <3>3
    <3>5. buffered' = [buffered EXCEPT ![s] = buffered[s] - z]
      BY <1>1, <3>1
    <3>6. QED
      BY <1>2, <3>4, <3>5
  <2>3. writerWaits' \in [Sides -> BOOLEAN]
    BY <1>1, <1>2 DEF WakeWriter
  <2>4. engine' \in Engines /\ broken' \in Errors
    BY <1>2, <1>14, <1>15 DEF Engines
  <2>5. QED
    BY <1>1, <2>1, <2>2, <2>3, <2>4 DEF Inv, TypeOK, WorkerOK
<1>18. ASSUME NEW u \in Sides, Passed(u)'
       PROVE  Passed(u) /\ queue'[u] = queue[u]
  <2>1. engine' = engine
    BY <1>14, <1>18 DEF Passed
  <2>2. Passed(u) /\ u # s
    BY <1>a, <1>18, <2>1 DEF Passed, Sides
  <2>3. QED
    BY <1>3, <2>2
<1>19. UNCHANGED <<client, toWorker, toClient, alive, asked, ended, failed, writer>>
  BY <1>1
<1>20. \A u \in Sides : engine' = "done" \/ (engine' = "target" /\ u = "source") =>
         Passed(u) /\ queue'[u] = queue[u]
  BY <1>18 DEF Passed
<1>21. QED
  BY <1>11, <1>12, <1>16, <1>17, <1>19, <1>20, EngineKeepsInv

\* The comparison takes one step.
LEMMA EngineStepKeepsInv ==
  ASSUME Inv, EngineStep
  PROVE  Inv'
<1>1. /\ alive /\ engine \in Sides
      /\ \/ ReadFailure(engine) \/ ReadChunk(engine) \/ ReadEnd(engine) \/ ReadNothing(engine)
      /\ UNCHANGED <<client, toWorker, toClient, alive, asked>>
  BY DEF EngineStep, EngineRuns
<1>2. broken = None /\ engine # "failed" /\ engine # "unopened"
  <2>1. engine # "failed" /\ engine # "unopened"
    BY <1>1 DEF Sides
  <2>2. QED
    BY <2>1 DEF Inv, Breaks
<1>3. Live
  BY <1>1 DEF Inv, Failing
<1>4. failed \in [Sides -> Errors]
  BY DEF Inv, TypeOK, WorkerOK
<1>5. CASE ReadFailure(engine)
  <2>1. /\ failed[engine] # None /\ engine' = "failed" /\ broken' = failed[engine]
        /\ UNCHANGED <<queue, buffered, ended, failed, readerWaits, writer, writerWaits, consumed>>
    BY <1>5 DEF ReadFailure, HasFailed, Break, pushed
  <2>2. WorkerOK'
    BY <1>1, <1>4, <2>1 DEF Inv, TypeOK, WorkerOK, Engines
  <2>3. InOrder'
    BY <2>1 DEF Inv, InOrder
  <2>4. engine' # "done" /\ engine' # "target"
    BY <2>1
  <2>5. broken' \in {failed[s] : s \in Sides} /\ broken' # None /\ engine' # "unopened"
    BY <1>1, <2>1
  <2>6. \A s \in Sides : Len(consumed'[s]) + Len(queue'[s]) = Len(consumed[s]) + Len(queue[s])
    BY <2>1
  <2>7. QED
    BY <1>1, <2>1, <2>2, <2>3, <2>4, <2>5, <2>6, EngineKeepsInv
<1>6. CASE ReadChunk(engine)
  BY <1>1, <1>6, ReadChunkKeepsInv
<1>7. CASE ReadEnd(engine)
  <2>1. /\ failed[engine] = None /\ queue[engine] = <<>> /\ ended[engine]
        /\ UNCHANGED <<queue, buffered, ended, failed, readerWaits, writer, writerWaits, consumed>>
    BY <1>7 DEF ReadEnd, HasFailed, pushed
  <2>2. \/ engine' = (IF engine = "source" THEN "target" ELSE "done") /\ broken' = broken
        \/ engine' = "failed" /\ broken' \in Own
    BY <1>1, <1>7 DEF ReadEnd, Break, Own
  <2>3. Complete(engine)
    BY <1>1, <2>1 DEF Inv, Ends
  <2>4. /\ engine' = "failed" <=> broken' # None
        /\ broken' \in Own \cup {None} \cup {failed[s] : s \in Sides}
        /\ engine' # "unopened"
    BY <1>2, <2>2, ErrorsDiffer
  <2>5. WorkerOK'
    <3>1. Own \subseteq Errors
      BY ErrorsDiffer DEF Own
    <3>2. engine' \in Engines /\ broken' \in Errors
      BY <2>2, <3>1 DEF Inv, TypeOK, WorkerOK, Engines, Sides
    <3>3. QED
      BY <1>1, <2>1, <3>2 DEF Inv, TypeOK, WorkerOK
  <2>6. InOrder'
    BY <2>1 DEF Inv, InOrder
  <2>7. ASSUME NEW s \in Sides, Passed(s)'
        PROVE  Complete(s) /\ queue'[s] = <<>>
    <3>1. CASE s = engine
      BY <2>1, <2>3, <3>1
    <3>2. CASE s # engine
      <4>1. s = "source" /\ engine = "target"
        BY <1>1, <2>2, <2>7, <3>2 DEF Passed, Sides
      <4>2. QED
        BY <2>1, <4>1 DEF Inv, Ends, Passed
    <3>3. QED
      BY <3>1, <3>2
  <2>8. \A s \in Sides : Len(consumed'[s]) + Len(queue'[s]) = Len(consumed[s]) + Len(queue[s])
    BY <2>1
  <2>9. \A s \in Sides : engine' = "done" \/ (engine' = "target" /\ s = "source") =>
          Complete(s) /\ queue'[s] = <<>>
    BY <2>7 DEF Passed
  <2>10. QED
    BY <1>1, <2>1, <2>4, <2>5, <2>6, <2>8, <2>9, EngineKeepsInv
<1>8. CASE ReadNothing(engine)
  <2>1. /\ readerWaits' = [readerWaits EXCEPT ![engine] = TRUE]
        /\ UNCHANGED <<queue, buffered, ended, failed, writer, writerWaits, engine, broken, consumed>>
    BY <1>8 DEF ReadNothing
  <2>2. readerWaits' \in [Sides -> BOOLEAN]
    BY <2>1 DEF Inv, TypeOK, WorkerOK
  <2>3. WorkerOK'
    BY <1>1, <2>1, <2>2 DEF Inv, TypeOK, WorkerOK
  <2>4. InOrder'
    BY <2>1 DEF Inv, InOrder
  <2>5. \A s \in Sides : Passed(s)' => Passed(s) /\ queue'[s] = queue[s]
    BY <2>1 DEF Passed
  <2>6. \A s \in Sides : Len(consumed'[s]) + Len(queue'[s]) = Len(consumed[s]) + Len(queue[s])
    BY <2>1
  <2>7. UNCHANGED <<client, toWorker, toClient, alive, asked, ended, failed, writer>>
    BY <1>1, <2>1
  <2>8. /\ engine' = "failed" <=> broken' # None
        /\ broken' \in Own \cup {None} \cup {failed[s] : s \in Sides}
        /\ engine' # "unopened"
    BY <1>2, <2>1
  <2>9. \A s \in Sides : engine' = "done" \/ (engine' = "target" /\ s = "source") =>
          Passed(s) /\ queue'[s] = queue[s]
    BY <2>5 DEF Passed
  <2>10. QED
    BY <1>1, <2>3, <2>4, <2>6, <2>7, <2>8, <2>9, EngineKeepsInv
<1>9. QED
  BY <1>1, <1>5, <1>6, <1>7, <1>8

\* The worker's error event joins the replies at either end.
LEMMA CrashKeepsInv ==
  ASSUME Inv, Crash
  PROVE  Inv'
<1> DEFINE r == [seq |-> 0, error |-> Crashed]
           E == <<r>>
<1>1. /\ alive /\ outcome = Pending /\ alive' = FALSE
      /\ toClient' = E \o toClient \/ toClient' = toClient \o E
      /\ UNCHANGED <<client, toWorker, pushed, comparison>>
  BY DEF Crash
<1>2. /\ UNCHANGED <<seq, pending, failure, pump, chunks, cause, aborted, outcome>>
      /\ UNCHANGED <<queue, buffered, ended, failed, readerWaits, writer, writerWaits>>
      /\ UNCHANGED <<engine, broken, consumed, asked>>
  BY <1>1 DEF client, pushed, comparison
<1>3. Live /\ Live'
  BY <1>1, <1>2 DEF Inv, Failing, Live
<1>4. r \in Replies /\ r.seq = 0
  BY ErrorsDiffer DEF Replies
<1> HIDE DEF r
<1>5. E \in Seq(Replies) /\ Len(E) = 1 /\ E[1] = r
  BY <1>4
<1> HIDE DEF E
<1> DEFINE n == Len(toClient)
<1>6. toClient \in Seq(Replies) /\ n \in Nat /\ DOMAIN toClient = 1 .. n
  BY ChannelTypes DEF Inv
<1>7. toClient' \in Seq(Replies) /\ DOMAIN toClient' = 1 .. n + 1
  <2>1. /\ E \o toClient \in Seq(Replies) /\ Len(E \o toClient) = 1 + n
        /\ toClient \o E \in Seq(Replies) /\ Len(toClient \o E) = n + 1
    BY <1>5, <1>6, ConcatProperties
  <2>2. toClient' \in Seq(Replies) /\ Len(toClient') = n + 1
    <3>1. 1 + n = n + 1
      BY <1>6
    <3>2. QED
      BY <1>1, <2>1, <3>1, Zenon
  <2>3. QED
    BY <2>2, LenProperties
<1>8. PICK k \in {0, 1} :
        /\ \A i \in DOMAIN toClient : i + k \in DOMAIN toClient' /\ toClient'[i + k] = toClient[i]
        /\ \A i \in DOMAIN toClient' : \/ i - k \in DOMAIN toClient /\ toClient'[i] = toClient[i - k]
                                       \/ toClient'[i].seq = 0
  <2>1. CASE toClient' = E \o toClient
    <3>1. \A i \in 1 .. 1 + n :
            toClient'[i] = IF i <= 1 THEN E[i] ELSE toClient[i - 1]
      <4>1. \A i \in 1 .. Len(E) + n :
              (E \o toClient)[i] = IF i <= Len(E) THEN E[i] ELSE toClient[i - Len(E)]
        BY <1>5, <1>6, ConcatProperties DEF n
      <4>2. QED
        BY <1>5, <2>1, <4>1, Zenon
    <3>2. \A i \in DOMAIN toClient : i + 1 \in DOMAIN toClient' /\ toClient'[i + 1] = toClient[i]
      <4> SUFFICES ASSUME NEW i \in DOMAIN toClient
                   PROVE  i + 1 \in DOMAIN toClient' /\ toClient'[i + 1] = toClient[i]
        OBVIOUS
      <4>1. i \in 1 .. n /\ i + 1 \in 1 .. 1 + n /\ ~(i + 1 <= 1) /\ (i + 1) - 1 = i
        BY <1>6
      <4>2. toClient'[i + 1] = toClient[(i + 1) - 1]
        BY <3>1, <4>1
      <4>3. QED
        BY <1>6, <1>7, <4>1, <4>2
    <3>3. \A i \in DOMAIN toClient' : \/ i - 1 \in DOMAIN toClient /\ toClient'[i] = toClient[i - 1]
                                      \/ toClient'[i].seq = 0
      <4> SUFFICES ASSUME NEW i \in DOMAIN toClient'
                   PROVE  \/ i - 1 \in DOMAIN toClient /\ toClient'[i] = toClient[i - 1]
                          \/ toClient'[i].seq = 0
        OBVIOUS
      <4>1. i \in 1 .. 1 + n
        BY <1>6, <1>7
      <4>2. CASE i = 1
        BY <1>4, <1>5, <3>1, <4>1, <4>2
      <4>3. CASE i # 1
        <5>1. i - 1 \in 1 .. n /\ ~(i <= 1)
          BY <1>6, <4>1, <4>3
        <5>2. QED
          BY <1>6, <3>1, <4>1, <5>1
      <4>4. QED
        BY <4>2, <4>3
    <3>4. QED
      BY <3>2, <3>3
  <2>2. CASE toClient' = toClient \o E
    <3>1. \A i \in 1 .. n + 1 :
            toClient'[i] = IF i <= n THEN toClient[i] ELSE E[i - n]
      <4>1. \A i \in 1 .. n + Len(E) :
              (toClient \o E)[i] = IF i <= n THEN toClient[i] ELSE E[i - n]
        BY <1>5, <1>6, ConcatProperties DEF n
      <4>2. QED
        BY <1>5, <2>2, <4>1, Zenon
    <3>2. \A i \in DOMAIN toClient : i + 0 \in DOMAIN toClient' /\ toClient'[i + 0] = toClient[i]
      <4> SUFFICES ASSUME NEW i \in DOMAIN toClient
                   PROVE  i + 0 \in DOMAIN toClient' /\ toClient'[i + 0] = toClient[i]
        OBVIOUS
      <4>1. i \in 1 .. n /\ i \in 1 .. n + 1 /\ i <= n /\ i + 0 = i
        BY <1>6
      <4>2. QED
        BY <1>6, <1>7, <3>1, <4>1
    <3>3. \A i \in DOMAIN toClient' : \/ i - 0 \in DOMAIN toClient /\ toClient'[i] = toClient[i - 0]
                                      \/ toClient'[i].seq = 0
      <4> SUFFICES ASSUME NEW i \in DOMAIN toClient'
                   PROVE  \/ i - 0 \in DOMAIN toClient /\ toClient'[i] = toClient[i - 0]
                          \/ toClient'[i].seq = 0
        OBVIOUS
      <4>1. i \in 1 .. n + 1 /\ i - 0 = i
        BY <1>6, <1>7
      <4>2. CASE i = n + 1
        <5>1. ~(i <= n) /\ i - n = 1
          BY <1>6, <4>2
        <5>2. toClient'[i] = E[1]
          BY <3>1, <4>1, <5>1
        <5>3. QED
          BY <1>4, <1>5, <5>2
      <4>3. CASE i # n + 1
        <5>1. i \in 1 .. n /\ i <= n
          BY <1>6, <4>1, <4>3
        <5>2. QED
          BY <1>6, <3>1, <4>1, <5>1
      <4>4. QED
        BY <4>2, <4>3
    <3>4. QED
      BY <3>2, <3>3
  <2>3. QED
    BY <1>1, <2>1, <2>2
<1> HIDE DEF n
<1>9. ClientOK'
  BY <1>2 DEF Inv, TypeOK, ClientOK
<1>10. TypeOK'
  <2>1. WorkerOK'
    BY <1>1, <1>2 DEF Inv, TypeOK, WorkerOK
  <2>2. QED
    BY <1>1, <1>7, <1>9, <2>1 DEF Inv, TypeOK, ChannelsOK
<1>11. Requests'
  BY <1>2, <1>3 DEF Inv, Requests
<1>12. Failing'
  BY <1>1, <1>2, <1>3 DEF Inv, Failing
<1>13. OnTheirWay'
  BY <1>1, <1>2, <1>3 DEF Inv, OnTheirWay, AwaitedBy, Sender
<1>14. \A i \in DOMAIN toClient' : toClient'[i].seq # 0 =>
         i - k \in DOMAIN toClient /\ toClient'[i] = toClient[i - k]
  BY <1>8
<1>15. 0 \notin DOMAIN pending
  BY DEF Inv, TypeOK, ClientOK
<1>16. Replied'
  <2>1. \A i \in DOMAIN toClient' : toClient'[i].seq # 0 => toClient'[i].seq \in DOMAIN pending
    BY <1>3, <1>14 DEF Inv, Replied
  <2>2. ASSUME NEW i \in DOMAIN toClient', NEW j \in DOMAIN toClient', i # j,
               toClient'[i].seq # 0
        PROVE  toClient'[i].seq # toClient'[j].seq
    <3>1. CASE toClient'[j].seq = 0
      BY <2>2, <3>1
    <3>2. CASE toClient'[j].seq # 0
      <4>1. /\ i - k \in DOMAIN toClient /\ toClient'[i] = toClient[i - k]
            /\ j - k \in DOMAIN toClient /\ toClient'[j] = toClient[j - k]
        BY <1>14, <2>2, <3>2
      <4>2. i - k # j - k
        BY <1>6, <1>7, <2>2 DEF n
      <4>3. QED
        BY <1>3, <2>2, <4>1, <4>2 DEF Inv, Replied
    <3>3. QED
      BY <3>1, <3>2
  <2>3. ASSUME NEW i \in DOMAIN toClient', NEW j \in DOMAIN toWorker
        PROVE  toClient'[i].seq # toWorker[j].seq
    <3>1. CASE toClient'[i].seq = 0
      BY <1>3, <1>15, <3>1 DEF Inv, OnTheirWay, AwaitedBy
    <3>2. CASE toClient'[i].seq # 0
      BY <1>3, <1>14, <3>2 DEF Inv, Replied
    <3>3. QED
      BY <3>1, <3>2
  <2>4. QED
    BY <1>1, <1>2, <2>1, <2>2, <2>3 DEF Replied
<1>17. Held'
  <2>1. \A s \in Sides : writer[s] # 0 => \A i \in DOMAIN toClient' : toClient'[i].seq # writer[s]
    BY <1>3, <1>14 DEF Inv, Held
  <2>2. asked # 0 => \A i \in DOMAIN toClient' : toClient'[i].seq # asked
    BY <1>3, <1>14 DEF Inv, Held
  <2>3. QED
    BY <1>1, <1>2, <1>3, <2>1, <2>2 DEF Inv, Held, AwaitedBy
<1>18. MessagesFit' /\ NothingLost' /\ InOrder'
  BY <1>1, <1>2, <1>3 DEF Inv, MessagesFit, NothingLost, InOrder, Copied, None
<1>19. RepliesFit'
  <2> SUFFICES ASSUME NEW i \in DOMAIN toClient'
               PROVE  /\ \A s \in Sides :
                           toClient'[i].seq \in DOMAIN pending /\ pending[toClient'[i].seq] = s =>
                             toClient'[i].error = None
                      /\ toClient'[i].seq \in DOMAIN pending /\ pending[toClient'[i].seq] = "ready" =>
                           engine \in {"done", "failed"} /\ toClient'[i].error = broken
    BY <1>2 DEF RepliesFit, AwaitedBy, None
  <2>1. CASE toClient'[i].seq = 0
    BY <1>15, <2>1
  <2>2. CASE toClient'[i].seq # 0
    BY <1>3, <1>14, <2>2 DEF Inv, RepliesFit, AwaitedBy
  <2>3. QED
    BY <2>1, <2>2
<1>20. Ends'
  BY <1>2 DEF Inv, Ends, Complete, Passed, Copied, None
<1>21. Causes'
  <2>1. \A s \in Sides : /\ pump'[s] = "failing" <=> cause'[s] # None
                         /\ cause'[s] \in {None, Aborted, Unread(s)}
    BY <1>2, <1>3 DEF Inv, Causes
  <2>2. ASSUME NEW s \in Sides, failed[s] # None
        PROVE  \E i \in DOMAIN toClient' :
                 toClient'[i].seq \in DOMAIN pending /\ pending[toClient'[i].seq] = s
    <3>1. PICK i \in DOMAIN toClient : AwaitedBy(toClient[i].seq, s)
      BY <1>3, <2>2 DEF Inv, Causes
    <3>2. QED
      BY <1>8, <3>1 DEF AwaitedBy
  <2>3. QED
    BY <1>2, <2>1, <2>2 DEF Causes, AwaitedBy, Aborted, Unread, None
<1>22. Breaks'
  <2>1. /\ engine' = "failed" <=> broken' # None
        /\ broken' \in Own \cup {None} \cup {failed'[u] : u \in Sides}
    BY <1>2 DEF Inv, Breaks
  <2>2. ASSUME broken \notin Own \cup {None}, NEW i \in DOMAIN toClient',
               toClient'[i].seq \in DOMAIN pending, pending[toClient'[i].seq] = "ready"
        PROVE  \E s \in Sides, j \in DOMAIN toClient' :
                 /\ failed[s] # None /\ j < i
                 /\ toClient'[j].seq \in DOMAIN pending /\ pending[toClient'[j].seq] = s
    <3>1. i - k \in DOMAIN toClient /\ AwaitedBy(toClient[i - k].seq, "ready")
      BY <1>14, <1>15, <2>2 DEF AwaitedBy
    <3>2. PICK s \in Sides, j \in DOMAIN toClient :
            failed[s] # None /\ j < i - k /\ AwaitedBy(toClient[j].seq, s)
      BY <1>3, <2>2, <3>1 DEF Inv, Breaks
    <3>3. j + k \in DOMAIN toClient' /\ toClient'[j + k] = toClient[j]
      BY <1>8
    <3>4. j + k < i
      BY <1>6, <1>7, <3>2 DEF n
    <3>5. QED
      BY <3>2, <3>3, <3>4 DEF AwaitedBy
  <2>3. QED
    BY <1>2, <2>1, <2>2 DEF Breaks, Own, None, AwaitedBy
<1>23. Outcomes'
  BY <1>1, <1>2, ErrorsDiffer DEF Outcomes, Pending, Handle
<1>24. QED
  BY <1>10, <1>11, <1>12, <1>13, <1>16, <1>17, <1>18, <1>19, <1>20, <1>21, <1>22, <1>23 DEF Inv

-----------------------------------------------------------------------------
(***************************************************************************)
(* The transfer.                                                           *)
(***************************************************************************)
\* The invariant holds when the worker has been spawned.
LEMMA InitInv ==
  Init => Inv
<1> SUFFICES ASSUME Init
             PROVE  Inv
  OBVIOUS
<1> DEFINE m == [t |-> "open", seq |-> 1]
<1>1. /\ seq = 2 /\ failure = None /\ pump = Each("unstarted") /\ chunks = Each(0)
      /\ cause = Each(None) /\ aborted = FALSE /\ outcome = Pending
      /\ toWorker = <<m>> /\ toClient = <<>> /\ alive = TRUE
      /\ queue = Each(<<>>) /\ buffered = Each(0) /\ ended = Each(FALSE) /\ failed = Each(None)
      /\ readerWaits = Each(FALSE) /\ writer = Each(0) /\ writerWaits = Each(FALSE)
      /\ engine = "unopened" /\ broken = None /\ consumed = Each(<<>>) /\ asked = 0
  BY DEF Init
<1>2. DOMAIN pending = {1} /\ pending[1] = "open"
  BY DEF Init, Awaiting, Nobody
<1>3. m \in Messages /\ m.t = "open" /\ m.seq = 1 /\ Sender(m) = "open"
  BY DEF Messages, Sender
<1> HIDE DEF m
<1>4. /\ toWorker \in Seq(Messages) /\ DOMAIN toWorker = {1} /\ toWorker[1] = m
  BY <1>1, <1>3
<1>5. toClient \in Seq(Replies) /\ DOMAIN toClient = {}
  BY <1>1
<1>6. /\ \A s \in Sides : /\ pump[s] = "unstarted" /\ chunks[s] = 0 /\ cause[s] = None
                          /\ queue[s] = <<>> /\ consumed[s] = <<>> /\ ended[s] = FALSE
                          /\ failed[s] = None /\ writer[s] = 0
  BY <1>1 DEF Each
<1>7. TypeOK
  <2>1. ClientOK
    <3>1. /\ seq \in Nat \ {0} /\ DOMAIN pending \subseteq Nat \ {0}
          /\ \A q \in DOMAIN pending : q < seq /\ pending[q] \in Who
      BY <1>1, <1>2 DEF Who
    <3>2. failure \in Errors /\ outcome \in Errors /\ cause \in [Sides -> Errors]
      BY <1>1, ErrorsDiffer DEF Each
    <3>3. pump \in [Sides -> Pumps] /\ chunks \in [Sides -> Nat] /\ aborted \in BOOLEAN
      BY <1>1 DEF Each, Pumps
    <3>4. QED
      BY <3>1, <3>2, <3>3 DEF ClientOK
  <2>2. ChannelsOK
    BY <1>4, <1>5 DEF ChannelsOK
  <2>3. <<>> \in Seq(Chunks) /\ <<>> \in Seq(Nat)
    OBVIOUS
  <2>4. WorkerOK
    BY <1>1, <2>3, ErrorsDiffer DEF WorkerOK, Each, Engines
  <2>5. QED
    BY <2>1, <2>2, <2>4 DEF TypeOK
<1>8. Requests
  BY <1>2, <1>6 DEF Requests, Waits, Sides
<1>9. Failing
  BY <1>1, <1>5 DEF Failing, Live
<1>10. OnTheirWay /\ Replied /\ Held
  <2>1. OnTheirWay
    BY <1>2, <1>3, <1>4 DEF OnTheirWay, AwaitedBy
  <2>2. Replied
    BY <1>5 DEF Replied
  <2>3. Held
    BY <1>1, <1>6 DEF Held
  <2>4. QED
    BY <2>1, <2>2, <2>3
<1>11. MessagesFit /\ RepliesFit
  BY <1>1, <1>3, <1>4, <1>5 DEF MessagesFit, RepliesFit
<1>12. NothingLost /\ InOrder
  <2>1. \A s \in Sides : /\ Len(queue[s]) = 0 /\ Len(consumed[s]) = 0
                         /\ DOMAIN queue[s] = {} /\ DOMAIN consumed[s] = {}
    BY <1>6
  <2>2. \A s \in Sides : chunks[s] = Len(consumed[s]) + Len(queue[s])
    <3>1. 0 = 0 + 0
      OBVIOUS
    <3>2. \A s \in Sides : chunks[s] = 0
      BY <1>6
    <3>3. QED
      BY <2>1, <3>1, <3>2, Zenon
  <2>3. NothingLost
    BY <2>2 DEF NothingLost
  <2>4. InOrder
    BY <2>1 DEF InOrder
  <2>5. QED
    BY <2>3, <2>4
<1>13. Ends /\ Causes
  BY <1>1, <1>6 DEF Ends, Causes, Passed
<1>14. Breaks /\ Outcomes
  BY <1>1, <1>5, ErrorsDiffer DEF Breaks, Outcomes
<1>15. QED
  BY <1>7, <1>8, <1>9, <1>10, <1>11, <1>12, <1>13, <1>14 DEF Inv

\* Every step keeps it.
LEMMA NextKeepsInv ==
  Inv /\ [Next]_vars => Inv'
<1> SUFFICES ASSUME Inv, [Next]_vars
             PROVE  Inv'
  OBVIOUS
<1>1. CASE Main
  BY <1>1, LoopKeepsInv, AnsweredKeepsInv, ThrewKeepsInv, OpenedKeepsInv, ReadyKeepsInv,
     NotReadyKeepsInv, StrayKeepsInv, DiedKeepsInv DEF Main
<1>2. CASE Worker
  BY <1>2, TakeOpenKeepsInv, TakeReadyKeepsInv, TakeChunkKeepsInv, TakeEndKeepsInv,
     TakeFailKeepsInv, LoadedKeepsInv, AnswerReadyKeepsInv, EngineStepKeepsInv,
     WriterStepKeepsInv DEF Worker
<1>3. CASE Abort
  BY <1>3, AbortKeepsInv
<1>4. CASE Crash
  BY <1>4, CrashKeepsInv
<1>5. ASSUME NEW s \in Sides, Input(s)
      PROVE  Inv'
  BY <1>5, YieldKeepsInv, YieldEndKeepsInv, YieldErrorKeepsInv DEF Input
<1>6. CASE UNCHANGED vars
  <2>1. /\ UNCHANGED <<seq, pending, failure, pump, chunks, cause, aborted, outcome>>
        /\ UNCHANGED <<toWorker, toClient, alive>>
        /\ UNCHANGED <<queue, buffered, ended, failed, readerWaits, writer, writerWaits>>
        /\ UNCHANGED <<engine, broken, consumed, asked>>
    BY <1>6 DEF vars, client, worker, pushed, comparison
  <2>2. TypeOK' /\ Requests' /\ Failing'
    BY <2>1 DEF Inv, TypeOK, ClientOK, ChannelsOK, WorkerOK, Requests, Failing, Live, None
  <2>3. OnTheirWay' /\ Replied' /\ Held'
    BY <2>1 DEF Inv, OnTheirWay, Replied, Held, Live, None, AwaitedBy, Sender
  <2>4. MessagesFit' /\ RepliesFit' /\ NothingLost' /\ InOrder'
    BY <2>1 DEF Inv, MessagesFit, RepliesFit, NothingLost, InOrder, Live, None, AwaitedBy, Copied
  <2>5. Ends' /\ Causes'
    BY <2>1 DEF Inv, Ends, Complete, Passed, Causes, Live, None, Copied, AwaitedBy, Aborted, Unread
  <2>6. Breaks' /\ Outcomes'
    BY <2>1 DEF Inv, Breaks, Outcomes, Live, None, Own, AwaitedBy, Aborted, Unread, Handle,
                Pending, Crashed
  <2>7. QED
    BY <2>2, <2>3, <2>4, <2>5, <2>6 DEF Inv
<1>7. QED
  BY <1>1, <1>2, <1>3, <1>4, <1>5, <1>6 DEF Next

\* Every reachable state is within the invariant.
THEOREM WorkerTransferInvariant == Spec => []Inv
<1>1. Init => Inv
  BY InitInv
<1>2. Inv /\ [Next]_vars => Inv'
  BY NextKeepsInv
<1>3. QED
  BY <1>1, <1>2, PTL DEF Spec

\* The variables keep their types, for every watermark and all sizes.
THEOREM WorkerTransferTypeOK == Spec => []TypeOK
<1>1. Inv => TypeOK
  BY DEF Inv
<1>2. QED
  BY <1>1, WorkerTransferInvariant, PTL

\* compareInWorker never compares a shorter file: what has been parsed of a side is a
\* prefix of what its input yielded, and all of it once the comparison is done.
THEOREM WorkerWholeFiles == Spec => []WholeFiles
<1>1. Inv => WholeFiles
  <2> SUFFICES ASSUME Inv
               PROVE  WholeFiles
    OBVIOUS
  <2>1. \A s \in Sides : \A i \in DOMAIN consumed[s] : consumed[s][i] = i
    BY DEF Inv, InOrder
  <2>2. outcome = Handle => engine = "done"
    BY DEF Inv, Outcomes
  <2>3. ASSUME engine = "done", NEW s \in Sides
        PROVE  Len(consumed[s]) = chunks[s] /\ cause[s] = None
    <3>1. Complete(s) /\ queue[s] = <<>>
      BY <2>3 DEF Inv, Ends, Passed
    <3>2. Len(consumed[s]) \in Nat /\ Len(queue[s]) = 0
      BY <3>1, LenProperties DEF Inv, TypeOK, WorkerOK
    <3>3. QED
      BY <3>1, <3>2 DEF Complete
  <2>4. QED
    BY <2>1, <2>2, <2>3 DEF WholeFiles
<1>2. QED
  BY <1>1, WorkerTransferInvariant, PTL

\* compareInWorker throws what went wrong first and as it was: no copy of a pump's
\* error comes back in its place, and no request ended with the worker gives the reason.
THEOREM WorkerCauseReported == Spec => []CauseReported
<1>1. Inv => CauseReported
  <2> SUFFICES ASSUME Inv, outcome \notin {Pending, Handle}
               PROVE  \/ \E s \in Sides : outcome = cause[s] /\ cause[s] \in {Aborted, Unread(s)}
                      \/ outcome = broken /\ \A s \in Sides : broken # Copied(cause[s])
                      \/ outcome = Crashed /\ ~alive
    BY DEF CauseReported
  <2>1. \A s \in Sides : cause[s] \in Errors
    BY DEF Inv, TypeOK, ClientOK
  <2>2. broken \in Own => \A s \in Sides : broken # Copied(cause[s])
    BY <2>1, ErrorsDiffer
  <2>3. QED
    BY <2>2 DEF Inv, Outcomes
<1>2. QED
  BY <1>1, WorkerTransferInvariant, PTL

-----------------------------------------------------------------------------
(***************************************************************************)
(* The sizes of chunks, added up.                                          *)
(***************************************************************************)
\* The sum of a function is a sum over its domain.
LEMMA SumIsSum ==
  ASSUME NEW S, IsFiniteSet(S), NEW g, DOMAIN g = S, \A x \in S : g[x] \in Int
  PROVE  \E f : Sums(f, g, S) /\ SumFunction(g) = f[S]
<1> DEFINE Solves(f) == f = [s \in SUBSET S |->
              IF s = {} THEN 0
              ELSE g[CHOOSE x \in s : TRUE] + f[s \ {CHOOSE x \in s : TRUE}]]
           h == CHOOSE f : Solves(f)
<1>1. SumFunction(g) = h[S]
  BY DEF SumFunction, SumFunctionOnSet, FoldFunctionOnSet, MapThenFoldSet
<1>2. \A f : Sums(f, g, S) <=> Solves(f)
  BY DEF Sums, Chosen
<1>3. \E f : Sums(f, g, S)
  BY SumsExist
<1> HIDE DEF Solves
<1>4. Sums(h, g, S)
  BY <1>2, <1>3
<1> HIDE DEF h
<1> QED BY <1>1, <1>4

\* One summand, and none.
LEMMA SmallSums ==
  /\ \A g : DOMAIN g = {} => SumFunction(g) = 0
  /\ \A k, g : DOMAIN g = {k} /\ g[k] \in Int => SumFunction(g) = g[k]
<1>1. ASSUME NEW g, DOMAIN g = {} PROVE SumFunction(g) = 0
  <2>1. PICK f : Sums(f, g, {}) /\ SumFunction(g) = f[{}]
    BY <1>1, SumIsSum, FS_EmptySet
  <2> QED BY <2>1 DEF Sums
<1>2. ASSUME NEW k, NEW g, DOMAIN g = {k}, g[k] \in Int PROVE SumFunction(g) = g[k]
  <2>1. IsFiniteSet({k}) /\ \A x \in {k} : g[x] \in Int
    BY <1>2, FS_Singleton
  <2>2. PICK f : Sums(f, g, {k}) /\ SumFunction(g) = f[{k}]
    BY <1>2, <2>1, SumIsSum
  <2>3. f[{}] = 0 /\ \A s \in SUBSET {k} : \A x \in s : f[s] = g[x] + f[s \ {x}]
    BY <2>1, <2>2, SumsStep
  <2>4. {k} \ {k} = {} /\ {k} \in SUBSET {k} /\ k \in {k}
    OBVIOUS
  <2>5. f[{k}] = g[k] + f[{k} \ {k}]
    BY <2>3, <2>4
  <2>6. f[{k}] = g[k] + 0
    BY <2>3, <2>4, <2>5
  <2> QED BY <1>2, <2>2, <2>6
<1> QED BY <1>1, <1>2

\* What a queue of chunks holds.
Weight(q) == SumFunction([i \in DOMAIN q |-> q[i].size])

\* It is a sum over its indices.
LEMMA WeightIsSum ==
  ASSUME NEW q \in Seq(Chunks)
  PROVE  /\ IsFiniteSet(DOMAIN q) /\ \A i \in DOMAIN q : q[i].size \in Int
         /\ \E f : Sums(f, [i \in DOMAIN q |-> q[i].size], DOMAIN q) /\ Weight(q) = f[DOMAIN q]
<1>1. Len(q) \in Nat /\ DOMAIN q = 1 .. Len(q)
  BY LenProperties
<1>2. IsFiniteSet(DOMAIN q)
  BY <1>1, FS_Interval
<1>3. \A i \in DOMAIN q : q[i].size \in Int
  <2>1. \A i \in DOMAIN q : q[i] \in Chunks
    BY ElementOfSeq, LenProperties
  <2> QED BY <2>1, SizesAssumption DEF Chunks
<1> DEFINE g == [i \in DOMAIN q |-> q[i].size]
<1>4. DOMAIN g = DOMAIN q /\ \A i \in DOMAIN q : g[i] \in Int
  BY <1>3
<1>5. Weight(q) = SumFunction(g)
  BY DEF Weight
<1> HIDE DEF g
<1>6. \E f : Sums(f, g, DOMAIN q) /\ SumFunction(g) = f[DOMAIN q]
  BY <1>2, <1>4, SumIsSum
<1> QED BY <1>2, <1>3, <1>5, <1>6 DEF g

\* A chunk more at the end adds its size.
LEMMA WeightOfAppend ==
  ASSUME NEW q \in Seq(Chunks), NEW e \in Chunks
  PROVE  Weight(q) \in Int /\ Weight(Append(q, e)) = Weight(q) + e.size
<1> DEFINE p == Append(q, e)
           n == Len(q)
           g == [i \in DOMAIN q |-> q[i].size]
           d == [i \in DOMAIN p |-> p[i].size]
<1>1. /\ p \in Seq(Chunks) /\ n \in Nat /\ DOMAIN q = 1 .. n /\ DOMAIN p = 1 .. n + 1
      /\ p[n + 1] = e /\ \A i \in DOMAIN q : p[i] = q[i]
  BY AppendIndices
<1> HIDE DEF p
<1>2. PICK f : Sums(f, g, DOMAIN q) /\ Weight(q) = f[DOMAIN q]
  BY WeightIsSum
<1>3. PICK h : Sums(h, d, DOMAIN p) /\ Weight(p) = h[DOMAIN p]
  BY <1>1, WeightIsSum
<1>4. /\ IsFiniteSet(DOMAIN q) /\ IsFiniteSet(DOMAIN p)
      /\ \A i \in DOMAIN q : g[i] \in Int /\ g[i] = d[i]
      /\ \A i \in DOMAIN p : d[i] \in Int
      /\ d[n + 1] = e.size
  <2>1. \A i \in DOMAIN q : i \in DOMAIN p
    BY <1>1
  <2>2. n + 1 \in DOMAIN p
    BY <1>1
  <2> QED BY <1>1, <2>1, <2>2, WeightIsSum
<1> HIDE DEF g, d, n
<1>5. f[DOMAIN q] \in Int /\ f[DOMAIN q] = h[DOMAIN q]
  <2>1. f[DOMAIN q] \in Int
    BY <1>2, <1>4, SumsTyped
  <2>2. DOMAIN q \subseteq DOMAIN p
    BY <1>1
  <2> QED BY <1>2, <1>3, <1>4, <2>1, <2>2, SumsAgree
<1>6. h[DOMAIN p] = d[n + 1] + h[DOMAIN p \ {n + 1}]
  <2>1. n + 1 \in DOMAIN p /\ DOMAIN p \in SUBSET (DOMAIN p)
    BY <1>1
  <2>2. \A s \in SUBSET (DOMAIN p) : \A x \in s : h[s] = d[x] + h[s \ {x}]
    <3> DEFINE S == DOMAIN p
    <3>1. Sums(h, d, S) /\ IsFiniteSet(S) /\ \A x \in S : d[x] \in Int
      BY <1>3, <1>4
    <3> HIDE DEF S
    <3>2. h[{}] = 0 /\ \A s \in SUBSET S : \A x \in s : h[s] = d[x] + h[s \ {x}]
      BY <3>1, SumsStep
    <3> QED BY <3>2 DEF S
  <2> QED BY <2>1, <2>2
<1>7. DOMAIN p \ {n + 1} = DOMAIN q
  BY <1>1
<1>8. e.size \in Int
  <2>1. e.size \in Sizes
    BY DEF Chunks
  <2>2. \A x \in Sizes : x \in Int
    BY SizesAssumption
  <2> QED BY <2>1, <2>2, Zenon
<1> QED BY <1>2, <1>3, <1>4, <1>5, <1>6, <1>7, <1>8 DEF p

\* A chunk less at the head takes its size away.
LEMMA WeightOfTail ==
  ASSUME NEW q \in Seq(Chunks), q # <<>>
  PROVE  Weight(Tail(q)) = Weight(q) - Head(q).size
<1> DEFINE p == Tail(q)
           n == Len(p)
           g == [i \in DOMAIN p |-> p[i].size]
           d == [i \in DOMAIN q |-> q[i].size]
<1>1. /\ p \in Seq(Chunks) /\ n \in Nat /\ DOMAIN p = 1 .. n /\ DOMAIN q = 1 .. n + 1
      /\ Head(q) = q[1] /\ \A i \in DOMAIN p : p[i] = q[i + 1]
  <2>1. /\ Head(q) = q[1] /\ p \in Seq(Chunks) /\ Len(p) = Len(q) - 1
        /\ \A i \in DOMAIN p : p[i] = q[i + 1]
    BY TailIndices
  <2>2. Len(q) \in Nat /\ DOMAIN q = 1 .. Len(q)
    BY LenProperties
  <2> HIDE DEF p
  <2>3. Len(p) \in Nat /\ DOMAIN p = 1 .. Len(p)
    BY <2>1, LenProperties
  <2> QED BY <2>1, <2>2, <2>3
<1> HIDE DEF p
<1>2. PICK f : Sums(f, g, DOMAIN p) /\ Weight(p) = f[DOMAIN p]
  BY <1>1, WeightIsSum
<1>3. PICK h : Sums(h, d, DOMAIN q) /\ Weight(q) = h[DOMAIN q]
  BY WeightIsSum
<1>4. /\ IsFiniteSet(DOMAIN q) /\ IsFiniteSet(DOMAIN p)
      /\ \A i \in 1 .. n : g[i] \in Int /\ g[i] = d[i + 1]
      /\ \A i \in 1 .. n + 1 : d[i] \in Int
      /\ d[1] = Head(q).size
  <2>1. \A i \in 1 .. n : i + 1 \in 1 .. n + 1
    BY <1>1
  <2>2. 1 \in 1 .. n + 1
    BY <1>1
  <2> HIDE DEF n
  <2> QED BY <1>1, <2>1, <2>2, WeightIsSum
<1> HIDE DEF g, d, n
<1>5. /\ f[{}] = 0 /\ \A s \in SUBSET (1 .. n) : \A x \in s : f[s] = g[x] + f[s \ {x}]
      /\ h[{}] = 0 /\ \A s \in SUBSET (1 .. n + 1) : \A x \in s : h[s] = d[x] + h[s \ {x}]
  <2>1. f[{}] = 0 /\ \A s \in SUBSET (1 .. n) : \A x \in s : f[s] = g[x] + f[s \ {x}]
    <3> DEFINE S == 1 .. n
    <3>1. Sums(f, g, S) /\ IsFiniteSet(S) /\ \A x \in S : g[x] \in Int
      BY <1>1, <1>2, <1>4
    <3> HIDE DEF S
    <3>2. f[{}] = 0 /\ \A s \in SUBSET S : \A x \in s : f[s] = g[x] + f[s \ {x}]
      BY <3>1, SumsStep
    <3> QED BY <3>2 DEF S
  <2>2. h[{}] = 0 /\ \A s \in SUBSET (1 .. n + 1) : \A x \in s : h[s] = d[x] + h[s \ {x}]
    <3> DEFINE S == 1 .. n + 1
    <3>1. Sums(h, d, S) /\ IsFiniteSet(S) /\ \A x \in S : d[x] \in Int
      BY <1>1, <1>3, <1>4
    <3> HIDE DEF S
    <3>2. h[{}] = 0 /\ \A s \in SUBSET S : \A x \in s : h[s] = d[x] + h[s \ {x}]
      BY <3>1, SumsStep
    <3> QED BY <3>2 DEF S
  <2> QED BY <2>1, <2>2
<1> DEFINE K == {k \in 0 .. n : f[1 .. k] = h[2 .. k + 1]}
<1>6. 0 .. n \subseteq K
  <2>1. 0 \in K
    <3>1. 1 .. 0 = {} /\ 2 .. 0 + 1 = {}
      OBVIOUS
    <3>2. f[1 .. 0] = h[2 .. 0 + 1]
      BY <1>5, <3>1
    <3> QED BY <1>1, <3>2
  <2>2. ASSUME NEW k \in 0 .. n - 1, k \in K PROVE k + 1 \in K
    <3>1. /\ 1 .. k + 1 \in SUBSET (1 .. n) /\ k + 1 \in 1 .. k + 1
          /\ (1 .. k + 1) \ {k + 1} = 1 .. k
      BY <1>1
    <3>2. /\ 2 .. k + 2 \in SUBSET (1 .. n + 1) /\ k + 2 \in 2 .. k + 2
          /\ (2 .. k + 2) \ {k + 2} = 2 .. k + 1
      BY <1>1
    <3>3. f[1 .. k + 1] = g[k + 1] + f[1 .. k]
      BY <1>5, <3>1
    <3>4. h[2 .. k + 2] = d[k + 2] + h[2 .. k + 1]
      BY <1>5, <3>2
    <3>5. k + 1 \in 1 .. n /\ (k + 1) + 1 = k + 2 /\ k + 1 \in 0 .. n
      BY <1>1
    <3>6. g[k + 1] = d[k + 2]
      BY <1>4, <3>5
    <3> QED BY <2>2, <3>3, <3>4, <3>5, <3>6
  <2> HIDE DEF K
  <2> QED BY <1>1, <2>1, <2>2, UpTo
<1>7. f[1 .. n] = h[2 .. n + 1]
  <2>1. n \in K
    BY <1>1, <1>6
  <2> QED BY <2>1
<1>8. h[1 .. n + 1] = d[1] + h[2 .. n + 1]
  <2>1. /\ 1 .. n + 1 \in SUBSET (1 .. n + 1) /\ 1 \in 1 .. n + 1
        /\ (1 .. n + 1) \ {1} = 2 .. n + 1
    BY <1>1
  <2>2. \A s \in SUBSET (1 .. n + 1) : \A x \in s : h[s] = d[x] + h[s \ {x}]
    BY <1>5
  <2>3. h[1 .. n + 1] = d[1] + h[(1 .. n + 1) \ {1}]
    BY <2>1, <2>2
  <2> QED BY <2>1, <2>3
<1>9. f[1 .. n] \in Int
  <2>1. \A s \in SUBSET (1 .. n) : f[s] \in Int
    BY <1>1, <1>2, <1>4, SumsTyped
  <2>2. 1 .. n \in SUBSET (1 .. n)
    OBVIOUS
  <2> QED BY <2>1, <2>2
<1>10. d[1] \in Int
  BY <1>1, <1>4
<1> QED BY <1>1, <1>2, <1>3, <1>4, <1>7, <1>8, <1>9, <1>10 DEF p

-----------------------------------------------------------------------------
(***************************************************************************)
(* What is buffered and on its way.                                        *)
(***************************************************************************)
\* The parts of BuffersSound.
Weighed == \A s \in Sides : buffered[s] = Weight(queue[s])
ReaderSound == \A s \in Sides : readerWaits[s] => engine = s /\ queue[s] = <<>> /\ ~ended[s]
WriterSound ==
  \A s \in Sides : writerWaits[s] => writer[s] # 0 /\ buffered[s] >= HighWater
Started == \A s \in Sides : consumed[s] # <<>> => engine \notin {"unopened", "loading"}

\* A side that is full holds a write back, and no side is above the watermark by
\* more than one chunk.
FullWaits == \A s \in Sides : buffered[s] >= HighWater => writer[s] # 0
Below == \A s \in Sides : \E largest \in Sizes : buffered[s] < HighWater + largest

\* One chunk of a side at most is on its way, and there is room for it.
IsChunkOf(m, s) == m.t = "chunk" /\ m.side = s
OneChunk ==
  \A s \in Sides : \A i, j \in DOMAIN toWorker :
    IsChunkOf(toWorker[i], s) /\ IsChunkOf(toWorker[j], s) => i = j
RoomForIt ==
  \A s \in Sides : \A i \in DOMAIN toWorker :
    IsChunkOf(toWorker[i], s) => buffered[s] < HighWater

Kept == Weighed /\ ReaderSound /\ WriterSound /\ Started /\ FullWaits /\ Below
Room == Kept /\ OneChunk /\ RoomForIt

\* While nothing has failed, what is on its way is of a pump that waits for it, and
\* no write of that side is held back.
LEMMA LiveHasRoom == Inv /\ FullWaits /\ Live => OneChunk /\ RoomForIt
<1> SUFFICES ASSUME Inv, FullWaits, Live PROVE OneChunk /\ RoomForIt
  OBVIOUS
<1>1. ASSUME NEW s \in Sides, NEW i \in DOMAIN toWorker, IsChunkOf(toWorker[i], s)
      PROVE  Sender(toWorker[i]) = s
  BY <1>1 DEF IsChunkOf, Sender
<1>2. OneChunk
  BY <1>1, OneMessageEach DEF OneChunk
<1>3. ASSUME NEW s \in Sides, NEW i \in DOMAIN toWorker, IsChunkOf(toWorker[i], s)
      PROVE  buffered[s] < HighWater
  <2>1. AwaitedBy(toWorker[i].seq, s)
    BY <1>1, <1>3 DEF Inv, OnTheirWay
  <2>2. writer[s] = 0
    <3> SUFFICES ASSUME writer[s] # 0 PROVE FALSE
      OBVIOUS
    <3>1. AwaitedBy(writer[s], s) /\ toWorker[i].seq # writer[s]
      BY DEF Inv, Held
    <3> QED BY <2>1, <3>1 DEF Inv, Requests, AwaitedBy
  <2>3. buffered[s] \in Int /\ HighWater \in Int /\ ~(buffered[s] >= HighWater)
    <3>1. buffered \in [Sides -> Int]
      BY DEF Inv, TypeOK, WorkerOK
    <3>2. HighWater \in Int
      BY SizesAssumption
    <3> QED BY <2>2, <3>1, <3>2 DEF FullWaits
  <2> QED BY <2>3
<1> QED BY <1>2, <1>3 DEF RoomForIt

\* A step of the main thread leaves what the worker holds, and sends nothing once
\* something has failed.
LEMMA ClientSteps ==
  ASSUME Inv, Main \/ Abort \/ Crash \/ (\E s \in Sides : Input(s)) \/ UNCHANGED vars
  PROVE  /\ UNCHANGED <<queue, buffered, ended, readerWaits, writer, writerWaits>>
         /\ UNCHANGED <<engine, consumed>>
         /\ toWorker' = toWorker \/ Live'
<1> DEFINE Quiet == UNCHANGED <<pushed, comparison>> /\ (toWorker' = toWorker \/ Live')
<1>1. CASE Abort \/ Crash \/ UNCHANGED vars
  <2>1. Quiet
    BY <1>1 DEF Abort, Crash, vars, worker
  <2> QED BY <2>1 DEF pushed, comparison
<1>2. ASSUME NEW s \in Sides, Loop(s) \/ Input(s) PROVE Quiet
  BY <1>2 DEF Loop, Input, Yield, YieldEnd, YieldError, Catch, worker, Live
<1>3. ASSUME NEW who, Receive(who), UNCHANGED failure PROVE Live'
  BY <1>3, ReceiveFacts DEF Live, None
<1>4. ASSUME NEW s \in Sides, Answered(s) PROVE Quiet
  BY <1>3, <1>4 DEF Answered, worker
<1>5. ASSUME NEW s \in Sides, Threw(s) PROVE Quiet
  BY <1>5 DEF Threw, Abandon
<1>6. ASSUME Opened PROVE Quiet
  BY <1>3, <1>6 DEF Opened, worker
<1>7. ASSUME Ready \/ NotReady \/ Stray \/ Died PROVE Quiet
  BY <1>7 DEF Ready, NotReady, Abandon, Stray, Died, worker, client
<1>8. Quiet
  <2>1. CASE Main
    BY <1>2, <1>4, <1>5, <1>6, <1>7, <2>1 DEF Main
  <2>2. CASE Abort \/ Crash \/ UNCHANGED vars
    BY <2>2 DEF Abort, Crash, vars, worker
  <2> QED BY <1>2, <2>1, <2>2
<1> QED BY <1>8 DEF pushed, comparison

\* What a worker's step takes for granted.
LEMMA WorkerTypes ==
  ASSUME Inv
  PROVE  /\ queue \in [Sides -> Seq(Chunks)] /\ buffered \in [Sides -> Int]
         /\ ended \in [Sides -> BOOLEAN] /\ readerWaits \in [Sides -> BOOLEAN]
         /\ writer \in [Sides -> Nat] /\ writerWaits \in [Sides -> BOOLEAN]
         /\ consumed \in [Sides -> Seq(Nat)]
         /\ HighWater \in Int
         /\ \A c \in Chunks : c.size \in Sizes /\ c.size \in Int /\ c.size > 0
         /\ alive => Live
<1>1. \A c \in Chunks : c.size \in Sizes
  BY DEF Chunks
<1>2. HighWater \in Int /\ \A x \in Sizes : x \in Int /\ x > 0
  BY SizesAssumption
<1>3. \A c \in Chunks : c.size \in Int /\ c.size > 0
  BY <1>1, <1>2, Zenon
<1>4. alive => Live
  BY DEF Inv, Failing
<1> QED BY <1>1, <1>2, <1>3, <1>4 DEF Inv, TypeOK, WorkerOK

\* A write to a side with room: it is full afterwards by at most that chunk.
LEMMA ChunkKeepsRoom ==
  ASSUME Inv, Room, TakeChunk
  PROVE  Kept'
<1>a. PICK h : h = Head(toWorker)
  OBVIOUS
<1>b. PICK s : s = h.side
  OBVIOUS
<1>1. /\ alive /\ toWorker # <<>> /\ h.t = "chunk" /\ UNCHANGED <<engine, consumed>>
  BY <1>a DEF TakeChunk, Take, comparison
<1>2. /\ h = toWorker[1] /\ 1 \in DOMAIN toWorker /\ h.seq # 0
      /\ s \in Sides /\ h.chunk \in Chunks
  BY <1>a, <1>b, <1>1, HeadOfWorker, MessageParts
<1>3. buffered[s] < HighWater
  <2>1. IsChunkOf(toWorker[1], s)
    BY <1>b, <1>1, <1>2 DEF IsChunkOf
  <2> QED BY <1>2, <2>1 DEF Room, RoomForIt
<1>c. PICK size : size = h.chunk.size
  OBVIOUS
<1>4. size \in Sizes /\ size \in Int
  <2>1. h.chunk.size \in Sizes /\ h.chunk.size \in Int
    BY <1>2, WorkerTypes
  <2> QED BY <1>c, <2>1, Zenon
<1>5. CASE ended[s]
  <2>1. UNCHANGED <<queue, buffered, ended, readerWaits, writer, writerWaits>>
    BY <1>a, <1>b, <1>5 DEF TakeChunk, pushed
  <2> QED BY <1>1, <2>1 DEF Room, Kept, Weighed, ReaderSound, WriterSound, Started, FullWaits, Below
<1>6. CASE ~ended[s]
  <2>1. /\ queue' = [queue EXCEPT ![s] = Append(queue[s], h.chunk)]
        /\ buffered' = [buffered EXCEPT ![s] = buffered[s] + size]
        /\ readerWaits' = [readerWaits EXCEPT ![s] = FALSE]
        /\ writerWaits' = [writerWaits EXCEPT ![s] = (buffered[s] + size >= HighWater)]
        /\ IF buffered[s] + size >= HighWater THEN writer' = [writer EXCEPT ![s] = h.seq]
           ELSE writer' = writer
        /\ ended' = ended
    BY <1>a, <1>b, <1>c, <1>6 DEF TakeChunk, Full, WakeReader
  <2>2. ASSUME NEW u \in Sides, u # s
        PROVE  /\ queue'[u] = queue[u] /\ buffered'[u] = buffered[u] /\ writer'[u] = writer[u]
               /\ readerWaits'[u] = readerWaits[u] /\ writerWaits'[u] = writerWaits[u]
    BY <2>1, <2>2, WorkerTypes
  <2>3. /\ queue'[s] = Append(queue[s], h.chunk) /\ buffered'[s] = buffered[s] + size
        /\ ~readerWaits'[s]
        /\ writerWaits'[s] <=> buffered[s] + size >= HighWater
        /\ buffered[s] + size >= HighWater => writer'[s] = h.seq
    BY <1>2, <2>1, WorkerTypes
  <2>4. buffered[s] \in Int /\ HighWater \in Int /\ queue[s] \in Seq(Chunks)
    BY <1>2, WorkerTypes
  <2>5. Weighed'
    <3>1. Weight(Append(queue[s], h.chunk)) = Weight(queue[s]) + size
      BY <1>2, <1>c, <2>4, WeightOfAppend
    <3> SUFFICES ASSUME NEW u \in Sides PROVE buffered'[u] = Weight(queue'[u])
      BY DEF Weighed, Weight
    <3> QED BY <1>2, <2>2, <2>3, <3>1 DEF Room, Kept, Weighed
  <2>6. ReaderSound'
    BY <1>1, <1>2, <2>1, <2>2, <2>3 DEF Room, Kept, ReaderSound
  <2>7. WriterSound' /\ FullWaits'
    BY <1>2, <2>2, <2>3 DEF Room, Kept, WriterSound, FullWaits
  <2>8. Started'
    BY <1>1 DEF Room, Kept, Started
  <2>9. Below'
    <3>1. buffered'[s] < HighWater + size
      BY <1>3, <1>4, <2>3, <2>4
    <3> QED BY <1>2, <1>4, <2>2, <3>1 DEF Room, Kept, Below
  <2> QED BY <2>5, <2>6, <2>7, <2>8, <2>9 DEF Kept
<1> QED BY <1>5, <1>6

\* The rest of a write: it is only let go when there is room.
LEMMA WriterKeepsRoom ==
  ASSUME Inv, Room, NEW s \in Sides, WriterStep(s)
  PROVE  Kept'
<1>1. /\ alive /\ writer[s] # 0 /\ ~writerWaits[s]
      /\ UNCHANGED <<queue, buffered, ended, readerWaits, engine, consumed>>
      /\ \/ /\ buffered[s] >= HighWater
            /\ writerWaits' = [writerWaits EXCEPT ![s] = TRUE] /\ writer' = writer
         \/ /\ ~(buffered[s] >= HighWater /\ failed[s] = None)
            /\ writer' = [writer EXCEPT ![s] = 0] /\ writerWaits' = writerWaits
  BY DEF WriterStep, WriterRuns, comparison
<1>2. failed[s] = None
  BY <1>1 DEF Inv, Failing, Held, Ends
<1>3. Weighed' /\ ReaderSound' /\ Started' /\ Below'
  BY <1>1 DEF Room, Kept, Weighed, ReaderSound, Started, Below, Weight
<1>4. WriterSound' /\ FullWaits'
  BY <1>1, <1>2, WorkerTypes DEF Room, Kept, WriterSound, FullWaits
<1> QED BY <1>3, <1>4 DEF Kept

\* The comparison's read: a chunk leaves the queue, and with it its size.
LEMMA EngineKeepsRoom ==
  ASSUME Inv, Room, EngineStep
  PROVE  Kept'
<1>a. PICK s : s = engine
  OBVIOUS
<1>1. /\ s \in Sides /\ ~readerWaits[s]
      /\ ReadFailure(s) \/ ReadChunk(s) \/ ReadEnd(s) \/ ReadNothing(s)
  BY <1>a DEF EngineStep, EngineRuns
<1>2. \A u \in Sides : ~readerWaits[u]
  BY <1>a, <1>1 DEF Room, Kept, ReaderSound
<1>3. CASE ReadFailure(s) \/ ReadEnd(s)
  <2>1. UNCHANGED <<queue, buffered, ended, readerWaits, writer, writerWaits, consumed>>
    BY <1>3 DEF ReadFailure, ReadEnd, pushed
  <2>2. engine' \notin {"unopened", "loading"}
    BY <1>3, <1>1 DEF ReadFailure, ReadEnd, Break, Sides
  <2> QED BY <1>2, <2>1, <2>2
          DEF Room, Kept, Weighed, ReaderSound, WriterSound, Started, FullWaits, Below, Weight
<1>4. CASE ReadNothing(s)
  <2>1. /\ queue[s] = <<>> /\ ~ended[s] /\ readerWaits' = [readerWaits EXCEPT ![s] = TRUE]
        /\ UNCHANGED <<queue, buffered, ended, writer, writerWaits, consumed, engine>>
    BY <1>4 DEF ReadNothing
  <2>2. ReaderSound'
    BY <1>a, <1>1, <1>2, <2>1, WorkerTypes DEF ReaderSound
  <2> QED BY <2>1, <2>2 DEF Room, Kept, Weighed, WriterSound, Started, FullWaits, Below, Weight
<1>5. CASE ReadChunk(s)
  <2>c. PICK size : size = Head(queue[s]).size
    OBVIOUS
  <2>1. /\ queue[s] # <<>>
        /\ queue' = [queue EXCEPT ![s] = Tail(queue[s])]
        /\ buffered' = [buffered EXCEPT ![s] = buffered[s] - size]
        /\ \/ /\ buffered'[s] < HighWater
              /\ writerWaits' = [writerWaits EXCEPT ![s] = FALSE]
           \/ ~(buffered'[s] < HighWater) /\ writerWaits' = writerWaits
        /\ engine' = engine \/ engine' = "failed"
        /\ UNCHANGED <<ended, readerWaits, writer>>
    BY <1>5, <2>c DEF ReadChunk, WakeWriter, Break
  <2>2. /\ queue[s] \in Seq(Chunks) /\ buffered[s] \in Int /\ HighWater \in Int
        /\ size \in Int /\ size > 0
    <3>1. queue[s] \in Seq(Chunks)
      BY <1>1, WorkerTypes
    <3>2. Head(queue[s]) \in Chunks
      BY <2>1, <3>1, TailIndices
    <3>3. Head(queue[s]).size \in Int /\ Head(queue[s]).size > 0
      BY <3>2, WorkerTypes
    <3>4. size \in Int /\ size > 0
      BY <2>c, <3>3, Zenon
    <3> QED BY <1>1, <3>1, <3>4, WorkerTypes
  <2>3. ASSUME NEW u \in Sides, u # s
        PROVE  /\ queue'[u] = queue[u] /\ buffered'[u] = buffered[u]
               /\ writerWaits'[u] = writerWaits[u]
    BY <2>1, <2>3, WorkerTypes
  <2>4. /\ queue'[s] = Tail(queue[s]) /\ buffered'[s] = buffered[s] - size
        /\ writerWaits'[s] => writerWaits[s] /\ ~(buffered'[s] < HighWater)
    BY <1>1, <2>1, WorkerTypes
  <2>5. Weighed'
    <3>1. Weight(Tail(queue[s])) = Weight(queue[s]) - size
      BY <2>1, <2>2, <2>c, WeightOfTail
    <3> SUFFICES ASSUME NEW u \in Sides PROVE buffered'[u] = Weight(queue'[u])
      BY DEF Weighed, Weight
    <3> QED BY <1>1, <2>3, <2>4, <3>1 DEF Room, Kept, Weighed
  <2>6. ReaderSound' /\ Started'
    BY <1>a, <1>1, <1>2, <2>1 DEF ReaderSound, Started, Sides
  <2>7. WriterSound' /\ FullWaits'
    BY <1>1, <2>1, <2>2, <2>3, <2>4 DEF Room, Kept, WriterSound, FullWaits
  <2>8. Below'
    <3>1. PICK largest \in Sizes : buffered[s] < HighWater + largest
      BY <1>1 DEF Room, Kept, Below
    <3>2. largest \in Int
      BY SizesAssumption
    <3>3. buffered'[s] < HighWater + largest
      BY <2>2, <2>4, <3>1, <3>2
    <3> QED BY <2>3, <3>3 DEF Room, Kept, Below
  <2> QED BY <2>5, <2>6, <2>7, <2>8 DEF Kept
<1> QED BY <1>1, <1>3, <1>4, <1>5

\* The worker's other tasks, which put nothing in and take nothing out.
LEMMA OthersKeepRoom ==
  ASSUME Inv, Room,
         TakeOpen \/ TakeReady \/ TakeEnd \/ TakeFail \/ Loaded \/ AnswerReady
  PROVE  Kept'
<1>1. CASE TakeReady \/ AnswerReady
  <2>1. UNCHANGED <<queue, buffered, ended, readerWaits, writer, writerWaits, engine, consumed>>
    BY <1>1 DEF TakeReady, AnswerReady, pushed
  <2> QED BY <2>1 DEF Room, Kept, Weighed, ReaderSound, WriterSound, Started, FullWaits, Below, Weight
<1>2. CASE TakeOpen \/ Loaded
  <2>1. /\ UNCHANGED <<queue, buffered, ended, readerWaits, writer, writerWaits, consumed>>
    BY <1>2 DEF TakeOpen, Loaded, pushed
  <2>2. engine \in {"unopened", "loading"}
    <3>1. CASE TakeOpen
      <4>1. alive /\ toWorker # <<>> /\ Head(toWorker).t = "open"
        BY <3>1 DEF TakeOpen, Take
      <4>2. Live /\ 1 \in DOMAIN toWorker /\ toWorker[1].t = "open"
        BY <4>1, HeadOfWorker
      <4> QED BY <4>2 DEF Inv, MessagesFit
    <3>2. CASE Loaded
      BY <3>2 DEF Loaded
    <3> QED BY <1>2, <3>1, <3>2
  <2>3. \A s \in Sides : ~readerWaits[s] /\ consumed[s] = <<>>
    BY <2>2 DEF Room, Kept, ReaderSound, Started, Sides
  <2> QED BY <2>1, <2>3
          DEF Room, Kept, Weighed, ReaderSound, WriterSound, Started, FullWaits, Below, Weight
<1>3. CASE TakeEnd \/ TakeFail
  <2>a. PICK s : s = Head(toWorker).side
    OBVIOUS
  <2>1. /\ UNCHANGED <<queue, buffered, engine, consumed, writer>>
        /\ ended' = [ended EXCEPT ![s] = TRUE]
        /\ readerWaits' = [readerWaits EXCEPT ![s] = FALSE]
        /\ writerWaits' \in {writerWaits, [writerWaits EXCEPT ![s] = FALSE]}
    BY <1>3, <2>a DEF TakeEnd, TakeFail, FailAnswered, WakeReader, WakeWriter, comparison
  <2>2. s \in Sides
    <3>1. alive /\ toWorker # <<>> /\ Head(toWorker).t \in {"end", "fail"}
      BY <1>3 DEF TakeEnd, TakeFail, Take
    <3> QED BY <2>a, <3>1, HeadOfWorker, MessageParts
  <2>3. \A u \in Sides : /\ readerWaits'[u] => readerWaits[u] /\ ended'[u] = ended[u]
                         /\ writerWaits'[u] => writerWaits[u]
    <3> SUFFICES ASSUME NEW u \in Sides
                 PROVE  /\ readerWaits'[u] => readerWaits[u] /\ ended'[u] = ended[u]
                        /\ writerWaits'[u] => writerWaits[u]
      OBVIOUS
    <3>1. CASE u = s
      BY <2>1, <3>1, WorkerTypes
    <3>2. CASE u # s
      BY <2>1, <3>2, WorkerTypes
    <3> QED BY <3>1, <3>2
  <2>4. Weighed' /\ Started' /\ FullWaits' /\ Below'
    BY <2>1 DEF Room, Kept, Weighed, Started, FullWaits, Below, Weight
  <2>5. ReaderSound'
    BY <2>1, <2>3 DEF Room, Kept, ReaderSound
  <2>6. WriterSound'
    BY <2>1, <2>3 DEF Room, Kept, WriterSound
  <2> QED BY <2>4, <2>5, <2>6 DEF Kept
<1> QED BY <1>1, <1>2, <1>3

\* Every step keeps the room there is.
LEMMA NextKeepsRoom == Inv /\ Room /\ Inv' /\ [Next]_vars => Room'
<1> SUFFICES ASSUME Inv, Room, Inv', [Next]_vars PROVE Room'
  OBVIOUS
<1>1. Kept' /\ Live' => Room'
  <2>1. (Inv /\ FullWaits /\ Live => OneChunk /\ RoomForIt)'
    BY LiveHasRoom, PTL
  <2> QED BY <2>1 DEF Room, Kept
<1>2. CASE Main \/ Abort \/ Crash \/ (\E s \in Sides : Input(s)) \/ UNCHANGED vars
  <2>1. /\ UNCHANGED <<queue, buffered, ended, readerWaits, writer, writerWaits>>
        /\ UNCHANGED <<engine, consumed>>
        /\ toWorker' = toWorker \/ Live'
    BY <1>2, ClientSteps
  <2>2. Kept'
    BY <2>1
       DEF Room, Kept, Weighed, ReaderSound, WriterSound, Started, FullWaits, Below, Weight
  <2>3. CASE toWorker' = toWorker
    BY <2>1, <2>2, <2>3 DEF Room, OneChunk, RoomForIt, IsChunkOf
  <2> QED BY <1>1, <2>1, <2>2, <2>3
<1>3. CASE Worker
  <2>1. Kept'
    BY <1>3, ChunkKeepsRoom, WriterKeepsRoom, EngineKeepsRoom, OthersKeepRoom DEF Worker
  <2>2. alive /\ UNCHANGED client
    BY <1>3 DEF Worker, TakeOpen, TakeReady, TakeChunk, TakeEnd, TakeFail, Take, Loaded,
                AnswerReady, EngineStep, WriterStep
  <2>3. Live'
    BY <2>2, WorkerTypes DEF client, Live, None
  <2> QED BY <1>1, <2>1, <2>3
<1> QED BY <1>2, <1>3 DEF Next

\* There is room when the worker has been spawned.
LEMMA InitHasRoom == Init => Room
<1> SUFFICES ASSUME Init PROVE Room
  OBVIOUS
<1>1. /\ toWorker = <<[t |-> "open", seq |-> 1]>> /\ engine = "unopened"
      /\ \A s \in Sides : /\ queue[s] = <<>> /\ buffered[s] = 0 /\ ended[s] = FALSE
                          /\ readerWaits[s] = FALSE /\ writer[s] = 0
                          /\ writerWaits[s] = FALSE /\ consumed[s] = <<>>
  BY DEF Init, Each
<1>2. Weight(<<>>) = 0
  <2>1. DOMAIN [i \in DOMAIN <<>> |-> <<>>[i].size] = {}
    OBVIOUS
  <2> QED BY <2>1, SmallSums DEF Weight
<1>3. HighWater \in Int /\ HighWater > 0 /\ \E x \in Sizes : x \in Int /\ x > 0
  <2>1. HighWater \in Nat \ {0} /\ \E x \in Sizes : x \in Nat \ {0}
    BY SizesAssumption
  <2> QED BY <2>1
<1>4. Weighed /\ ReaderSound /\ WriterSound /\ Started
  BY <1>1, <1>2 DEF Weighed, ReaderSound, WriterSound, Started
<1>5. FullWaits /\ Below
  BY <1>1, <1>3 DEF FullWaits, Below
<1>6. OneChunk /\ RoomForIt
  BY <1>1 DEF OneChunk, RoomForIt, IsChunkOf
<1> QED BY <1>4, <1>5, <1>6 DEF Room, Kept

\* What the worker holds of a file, with what is on its way to it, stays below the
\* watermark and one chunk, for every watermark, all sizes and however fast the
\* pumps and slow the comparison are.
THEOREM WorkerBounded == Spec => []Bounded
<1>1. Inv /\ Room => Bounded
  <2> SUFFICES ASSUME Inv, Room PROVE Bounded
    OBVIOUS
  <2>1. BuffersSound
    BY DEF Room, Kept, Weighed, ReaderSound, WriterSound, Started, BuffersSound, Weight
  <2>2. ASSUME NEW s \in Sides
        PROVE  LET sent == {i \in DOMAIN toWorker : toWorker[i].t = "chunk" /\ toWorker[i].side = s}
                   onTheWay == SumFunction([i \in sent |-> toWorker[i].chunk.size])
               IN  \E largest \in Sizes : buffered[s] + onTheWay < HighWater + largest
    <3> DEFINE sent == {i \in DOMAIN toWorker : toWorker[i].t = "chunk" /\ toWorker[i].side = s}
               g == [i \in sent |-> toWorker[i].chunk.size]
    <3>1. DOMAIN g = sent /\ buffered[s] \in Int /\ HighWater \in Int
      BY <2>2, WorkerTypes
    <3>2. ASSUME sent = {}
          PROVE  \E largest \in Sizes : buffered[s] + SumFunction(g) < HighWater + largest
      <4>1. SumFunction(g) = 0
        <5> HIDE DEF g
        <5> QED BY <3>1, <3>2, SmallSums
      <4>2. \E largest \in Sizes : buffered[s] + 0 < HighWater + largest
        BY <2>2, <3>1 DEF Room, Kept, Below
      <4> HIDE DEF g
      <4> QED BY <4>1, <4>2 DEF g
    <3>3. ASSUME NEW k \in sent
          PROVE  \E largest \in Sizes : buffered[s] + SumFunction(g) < HighWater + largest
      <4>1. sent = {k} /\ buffered[s] < HighWater
        BY <2>2, <3>3 DEF Room, OneChunk, RoomForIt, IsChunkOf
      <4>2. toWorker[k].chunk \in Chunks
        BY ChannelTypes, MessageParts DEF Inv
      <4>3. g[k] \in Sizes /\ g[k] \in Int
        BY <4>2, WorkerTypes
      <4> HIDE DEF sent, g
      <4>4. SumFunction(g) = g[k]
        BY <3>1, <4>1, <4>3, SmallSums
      <4>5. buffered[s] + g[k] < HighWater + g[k]
        BY <3>1, <4>1, <4>3
      <4> QED BY <4>3, <4>4, <4>5
    <3> HIDE DEF sent, g
    <3>4. \E largest \in Sizes : buffered[s] + SumFunction(g) < HighWater + largest
      BY <3>2, <3>3
    <3> QED BY <3>4 DEF sent, g
  <2> QED BY <2>1, <2>2 DEF Bounded
<1>2. Init => Room
  BY InitHasRoom
<1>3. Inv /\ Room /\ Inv' /\ [Next]_vars => Room'
  BY NextKeepsRoom
<1> QED BY <1>1, <1>2, <1>3, WorkerTransferInvariant, PTL DEF Spec

=============================================================================
