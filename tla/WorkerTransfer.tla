--------------------------- MODULE WorkerTransfer ---------------------------
(***************************************************************************)
(* compareInWorker: the main thread pumps two files to a worker, a chunk   *)
(* at a time, while the engine there parses the source to its end and then *)
(* the target (workerClient.ts, worker.ts, push.ts, DiffEngine.compare).   *)
(*                                                                         *)
(* Each thread runs one task at a time to its end: the continuations that  *)
(* a message wakes run before the next message is taken.  Both channels    *)
(* deliver in order.  The model begins when the worker has been spawned    *)
(* and both inputs have been opened.  A chunk is its number and its size,  *)
(* and is not empty: an empty one is acknowledged and nothing more.        *)
(***************************************************************************)
EXTENDS Integers, Sequences, FiniteSets, Functions

CONSTANTS
  HighWater,  \* HIGH_WATER_BYTES
  Sizes,      \* the sizes of the chunks the inputs yield
  MaxChunks   \* bound: chunks an input yields

ASSUME SizesAssumption ==
  HighWater \in Nat \ {0} /\ Sizes \subseteq Nat \ {0} /\ Sizes # {} /\ MaxChunks \in Nat

VARIABLES
  (* the main thread *)
  seq,         \* WorkerClient.seq
  pending,     \* who waits for the reply to each request
  failure,     \* WorkerClient.failure
  pump,        \* where each side's pump is
  chunks,      \* how many chunks each input has yielded
  cause,       \* what each pump caught
  aborted,     \* options.signal
  outcome,     \* what compareInWorker's promise came to
  (* between the threads *)
  toWorker,
  toClient,
  (* the worker *)
  alive,
  queue,       \* each PushSource, up to writerWaits
  buffered,
  ended,
  failed,      \* PushSource.failure
  readerWaits, \* wakeReader is set
  writer,      \* the request whose write has not returned, else 0
  writerWaits, \* wakeWriter is set
  engine,      \* what the comparison is doing: parsing a side, or how it ended
  broken,      \* what it failed with
  consumed,    \* the chunks it has parsed
  asked        \* the ready request that awaits it, else 0

client == <<seq, pending, failure, pump, chunks, cause, aborted, outcome>>
pushed == <<queue, buffered, ended, failed, readerWaits, writer, writerWaits>>
comparison == <<engine, broken, consumed, asked>>
worker == <<alive, pushed, comparison>>
vars == <<client, toWorker, toClient, worker>>

Sides == {"source", "target"}
Each(x) == [s \in Sides |-> x]

\* Errors, by where they come from.  A pump's error goes to the engine as a copy,
\* an IO_ERROR with its message.
None == <<>>
Aborted == <<"aborted">>
Unread(s) == <<"read", s>>
Crashed == <<"crashed">>
Terminated == <<"terminated">>
WriteAfterEnd == <<"write after end">>
Copied(e) == <<"copied">> \o e

Pending == <<"pending">>
Handle == <<"handle">>

Nobody == [q \in {} |-> ""]

\* One more request to wait for, besides those of waiting.
Awaiting(q, who, waiting) ==
  [r \in DOMAIN waiting \cup {q} |-> IF r = q THEN who ELSE waiting[r]]

Init ==
  /\ seq = 2 /\ pending = Awaiting(1, "open", Nobody) /\ failure = None
  /\ pump = Each("unstarted") /\ chunks = Each(0) /\ cause = Each(None)
  /\ aborted = FALSE /\ outcome = Pending
  /\ toWorker = <<[t |-> "open", seq |-> 1]>> /\ toClient = <<>>
  /\ alive = TRUE
  /\ queue = Each(<<>>) /\ buffered = Each(0)
  /\ ended = Each(FALSE) /\ failed = Each(None)
  /\ readerWaits = Each(FALSE) /\ writer = Each(0) /\ writerWaits = Each(FALSE)
  /\ engine = "unopened" /\ broken = None /\ consumed = Each(<<>>) /\ asked = 0

-----------------------------------------------------------------------------
(***************************************************************************)
(* The main thread.                                                        *)
(***************************************************************************)
MainIsIdle == \A s \in Sides : pump[s] # "loop"

\* WorkerClient.send, when it has not failed, of a message that bears seq.
Send(who, message, waiting) ==
  /\ toWorker' = Append(toWorker, message)
  /\ pending' = Awaiting(seq, who, waiting)
  /\ seq' = seq + 1

\* What is left of the pumps when every request they wait for is rejected: each
\* sends its failure in vain and throws.
Rejected == [s \in Sides |->
  IF pump[s] \in {"sending", "ending", "failing"} THEN "threw" ELSE pump[s]]

\* The pump's catch: the worker is told, and what was caught is thrown once it
\* answers, or at once when nothing can be sent any more.
Catch(s, error, waiting) ==
  /\ cause' = [cause EXCEPT ![s] = error]
  /\ IF failure = None
     THEN /\ pump' = [pump EXCEPT ![s] = "failing"]
          /\ Send(s, [t |-> "fail", seq |-> seq, side |-> s, error |-> Copied(error)], waiting)
     ELSE /\ pump' = [pump EXCEPT ![s] = "threw"]
          /\ UNCHANGED <<toWorker, pending, seq>>

\* The head of the pump's loop.
Loop(s) ==
  /\ pump[s] = "loop"
  /\ IF aborted THEN Catch(s, Aborted, pending)
     ELSE /\ pump' = [pump EXCEPT ![s] = "reading"]
          /\ UNCHANGED <<toWorker, pending, seq, cause>>
  /\ UNCHANGED <<failure, chunks, aborted, outcome, toClient, worker>>

\* The input yields a chunk, its end, or an error.
Yield(s) ==
  /\ MainIsIdle /\ pump[s] = "reading" /\ chunks[s] < MaxChunks
  /\ chunks' = [chunks EXCEPT ![s] = @ + 1]
  /\ IF failure # None THEN Catch(s, failure, pending)
     ELSE /\ \E size \in Sizes :
               Send(s, [t |-> "chunk", seq |-> seq, side |-> s,
                        chunk |-> [n |-> chunks'[s], size |-> size]], pending)
          /\ pump' = [pump EXCEPT ![s] = "sending"] /\ UNCHANGED cause
  /\ UNCHANGED <<failure, aborted, outcome, toClient, worker>>

YieldEnd(s) ==
  /\ MainIsIdle /\ pump[s] = "reading"
  /\ IF failure # None THEN Catch(s, failure, pending)
     ELSE /\ Send(s, [t |-> "end", seq |-> seq, side |-> s], pending)
          /\ pump' = [pump EXCEPT ![s] = "ending"] /\ UNCHANGED cause
  /\ UNCHANGED <<failure, chunks, aborted, outcome, toClient, worker>>

YieldError(s) ==
  /\ MainIsIdle /\ pump[s] = "reading"
  /\ Catch(s, Unread(s), pending)
  /\ UNCHANGED <<failure, chunks, aborted, outcome, toClient, worker>>

Input(s) == Yield(s) \/ YieldEnd(s) \/ YieldError(s)

Abort ==
  /\ MainIsIdle /\ ~aborted /\ outcome = Pending
  /\ aborted' = TRUE
  /\ UNCHANGED <<seq, pending, failure, pump, chunks, cause, outcome, toWorker, toClient, worker>>

Taken == Head(toClient)

Receive(who) ==
  /\ MainIsIdle /\ toClient # <<>>
  /\ Taken.seq \in DOMAIN pending /\ pending[Taken.seq] = who
  /\ toClient' = Tail(toClient)

Settled == [q \in DOMAIN pending \ {Taken.seq} |-> pending[q]]

\* The ready request goes out first, then the pumps start.
Opened ==
  /\ Receive("open")
  /\ Send("ready", [t |-> "ready", seq |-> seq], Settled)
  /\ pump' = Each("loop")
  /\ UNCHANGED <<failure, chunks, cause, aborted, outcome, worker>>

\* Promise.all rejects: compareInWorker terminates the worker, and with it every
\* request in flight, and throws.
Abandon(error) ==
  /\ outcome' = error
  /\ failure' = Terminated /\ pending' = Nobody /\ alive' = FALSE
  /\ UNCHANGED <<seq, chunks, cause, aborted, toWorker, pushed, comparison>>

\* Promise.all resolves once both pumps have returned and the comparison is ready.
Fulfil ==
  outcome' = IF /\ \A s \in Sides : pump'[s] = "done"
                /\ \A q \in DOMAIN Settled : Settled[q] # "ready"
             THEN Handle ELSE outcome

Ready ==
  /\ Receive("ready") /\ Taken.error = None
  /\ pending' = Settled /\ UNCHANGED pump /\ Fulfil
  /\ UNCHANGED <<seq, failure, chunks, cause, aborted, toWorker, worker>>

NotReady ==
  /\ Receive("ready") /\ Taken.error # None
  /\ Abandon(Taken.error) /\ pump' = Rejected

Answered(s) ==
  /\ Receive(s) /\ pump[s] \in {"sending", "ending"}
  /\ IF Taken.error # None THEN Catch(s, Taken.error, Settled) /\ UNCHANGED outcome
     ELSE /\ pump' = [pump EXCEPT ![s] = IF @ = "sending" THEN "loop" ELSE "done"]
          /\ pending' = Settled /\ Fulfil
          /\ UNCHANGED <<toWorker, seq, cause>>
  /\ UNCHANGED <<failure, chunks, aborted, worker>>

Threw(s) ==
  /\ Receive(s) /\ pump[s] = "failing"
  /\ Abandon(cause[s]) /\ pump' = [Rejected EXCEPT ![s] = "threw"]

\* A reply nobody waits for any more.
Stray ==
  /\ MainIsIdle /\ toClient # <<>> /\ Taken.seq # 0 /\ Taken.seq \notin DOMAIN pending
  /\ toClient' = Tail(toClient)
  /\ UNCHANGED <<client, toWorker, worker>>

\* The worker's error event, which has no number: WorkerClient.abort rejects every
\* request, and so compareInWorker, which terminates only what it has opened.
Died ==
  /\ MainIsIdle /\ toClient # <<>> /\ Taken.seq = 0
  /\ toClient' = Tail(toClient)
  /\ IF outcome # Pending \/ "open" \in {pending[q] : q \in DOMAIN pending}
     THEN failure' = Crashed ELSE failure' = Terminated
  /\ pending' = Nobody /\ pump' = Rejected
  /\ outcome' = IF outcome = Pending THEN Crashed ELSE outcome
  /\ UNCHANGED <<seq, chunks, cause, aborted, toWorker, worker>>

Main ==
  \/ \E s \in Sides : Loop(s) \/ Answered(s) \/ Threw(s)
  \/ Opened \/ Ready \/ NotReady \/ Stray \/ Died

-----------------------------------------------------------------------------
(***************************************************************************)
(* The worker.                                                             *)
(***************************************************************************)
Reply(q, error) == toClient' = Append(toClient, [seq |-> q, error |-> error])

EngineRuns == engine \in Sides /\ ~readerWaits[engine]
WriterRuns(s) == writer[s] # 0 /\ ~writerWaits[s]
ReadyRuns == asked # 0 /\ engine \in {"done", "failed"}

WorkerIsIdle == ~EngineRuns /\ ~ReadyRuns /\ \A s \in Sides : ~WriterRuns(s)

Take(t) ==
  /\ alive /\ WorkerIsIdle /\ toWorker # <<>> /\ Head(toWorker).t = t
  /\ toWorker' = Tail(toWorker)

\* The comparison starts; nothing awaits it until it is asked for.
TakeOpen ==
  /\ Take("open")
  /\ engine' = "loading" /\ Reply(Head(toWorker).seq, None)
  /\ UNCHANGED <<client, alive, pushed, broken, consumed, asked>>

Loaded ==
  /\ alive /\ engine = "loading"
  /\ \/ engine' = "source" /\ UNCHANGED broken
     \/ engine' = "failed" /\ broken' = <<"load">>
  /\ UNCHANGED <<client, toWorker, toClient, alive, pushed, consumed, asked>>

TakeReady ==
  /\ Take("ready")
  /\ asked' = Head(toWorker).seq
  /\ UNCHANGED <<client, toClient, alive, pushed, engine, broken, consumed>>

AnswerReady ==
  /\ alive /\ ReadyRuns
  /\ Reply(asked, broken) /\ asked' = 0
  /\ UNCHANGED <<client, toWorker, alive, pushed, engine, broken, consumed>>

\* Mutants: there is always room; nobody is woken.
NeverFull(s, size) == FALSE
ReaderSleeps(s) == readerWaits

Full(s, size) == buffered[s] + size >= HighWater
WakeReader(s) == [readerWaits EXCEPT ![s] = FALSE]
WakeWriter(s) == [writerWaits EXCEPT ![s] = FALSE]

\* PushSource.write, up to where it first awaits.
TakeChunk ==
  /\ Take("chunk")
  /\ LET m == Head(toWorker)
         s == m.side
         full == Full(s, m.chunk.size)
     IN  IF ended[s]
         THEN Reply(m.seq, WriteAfterEnd) /\ UNCHANGED pushed
         ELSE /\ queue' = [queue EXCEPT ![s] = Append(@, m.chunk)]
              /\ buffered' = [buffered EXCEPT ![s] = @ + m.chunk.size]
              /\ readerWaits' = WakeReader(s)
              /\ writerWaits' = [writerWaits EXCEPT ![s] = full]
              /\ IF full THEN writer' = [writer EXCEPT ![s] = m.seq] /\ UNCHANGED toClient
                 ELSE Reply(m.seq, None) /\ UNCHANGED writer
              /\ UNCHANGED <<ended, failed>>
  /\ UNCHANGED <<client, alive, comparison>>

\* The rest of a write that was woken: it waits again while there is no room.
WriterStep(s) ==
  /\ alive /\ WriterRuns(s)
  /\ IF buffered[s] >= HighWater /\ failed[s] = None
     THEN /\ writerWaits' = [writerWaits EXCEPT ![s] = TRUE]
          /\ UNCHANGED <<toClient, writer>>
     ELSE /\ Reply(writer[s], failed[s])
          /\ writer' = [writer EXCEPT ![s] = 0] /\ UNCHANGED writerWaits
  /\ UNCHANGED <<client, toWorker, alive, queue, buffered, ended, failed, readerWaits, comparison>>

TakeEnd ==
  /\ Take("end")
  /\ LET m == Head(toWorker)
     IN  /\ ended' = [ended EXCEPT ![m.side] = TRUE]
         /\ readerWaits' = WakeReader(m.side)
         /\ Reply(m.seq, None)
  /\ UNCHANGED <<client, alive, queue, buffered, failed, writer, writerWaits, comparison>>

\* A mutant: a failure is acknowledged only once what it woke has run.
FailAnsweredLate(s, q) ==
  writer' = [writer EXCEPT ![s] = q] /\ UNCHANGED toClient

\* PushSource.fail awaits nothing: the pump hears of it before the comparison does.
FailAnswered(s, q) == Reply(q, None) /\ UNCHANGED writer

TakeFail ==
  /\ Take("fail")
  /\ LET m == Head(toWorker)
     IN  /\ failed' = [failed EXCEPT ![m.side] = m.error]
         /\ ended' = [ended EXCEPT ![m.side] = TRUE]
         /\ readerWaits' = WakeReader(m.side)
         /\ writerWaits' = WakeWriter(m.side)
         /\ FailAnswered(m.side, m.seq)
  /\ UNCHANGED <<client, alive, queue, buffered, comparison>>

\* The comparison's await of PushSource.read, and what it does with the answer.
Break(error) == engine' = "failed" /\ broken' = error

\* A mutant: what failed looks ended.
FailureUnseen(s) == FALSE

HasFailed(s) == failed[s] # None

ReadFailure(s) ==
  /\ HasFailed(s)
  /\ Break(failed[s])
  /\ UNCHANGED <<pushed, consumed>>

ReadChunk(s) ==
  /\ ~HasFailed(s) /\ queue[s] # <<>>
  /\ queue' = [queue EXCEPT ![s] = Tail(@)]
  /\ buffered' = [buffered EXCEPT ![s] = @ - Head(queue[s]).size]
  /\ writerWaits' = IF buffered'[s] < HighWater THEN WakeWriter(s) ELSE writerWaits
  /\ consumed' = [consumed EXCEPT ![s] = Append(@, Head(queue[s]).n)]
  /\ UNCHANGED <<engine, broken>> \/ Break(<<"parse", s>>)
  /\ UNCHANGED <<ended, failed, readerWaits, writer>>

ReadEnd(s) ==
  /\ ~HasFailed(s) /\ queue[s] = <<>> /\ ended[s]
  /\ \/ engine' = (IF s = "source" THEN "target" ELSE "done") /\ UNCHANGED broken
     \/ Break(<<"parse", s>>)
     \/ s = "target" /\ Break(<<"diff">>)
  /\ UNCHANGED <<pushed, consumed>>

ReadNothing(s) ==
  /\ ~HasFailed(s) /\ queue[s] = <<>> /\ ~ended[s]
  /\ readerWaits' = [readerWaits EXCEPT ![s] = TRUE]
  /\ UNCHANGED <<queue, buffered, ended, failed, writer, writerWaits, engine, broken, consumed>>

EngineStep ==
  /\ alive /\ EngineRuns
  /\ \/ ReadFailure(engine) \/ ReadChunk(engine) \/ ReadEnd(engine) \/ ReadNothing(engine)
  /\ UNCHANGED <<client, toWorker, toClient, alive, asked>>

Worker ==
  \/ TakeOpen \/ TakeReady \/ TakeChunk \/ TakeEnd \/ TakeFail
  \/ Loaded \/ AnswerReady \/ EngineStep
  \/ \E s \in Sides : WriterStep(s)

\* The worker's thread dies of an error no handler caught.  Its event is no message,
\* and may overtake those on their way.
Crash ==
  /\ alive /\ outcome = Pending
  /\ alive' = FALSE
  /\ LET event == <<[seq |-> 0, error |-> Crashed]>>
     IN  toClient' \in {event \o toClient, toClient \o event}
  /\ UNCHANGED <<client, toWorker, pushed, comparison>>

Next == Main \/ Worker \/ Abort \/ Crash \/ \E s \in Sides : Input(s)

\* Both threads run, the module loads or fails to, and an input that is read from
\* answers.  Nobody has to abort, and nothing has to crash.
Spec ==
  /\ Init /\ [][Next]_vars
  /\ WF_vars(Main) /\ WF_vars(Worker)
  /\ \A s \in Sides : WF_vars(Input(s))

-----------------------------------------------------------------------------
\* `buffered` is the size of what is queued, and a promise is awaited only by who
\* will look again.
BuffersSound ==
  \A s \in Sides :
    /\ buffered[s] = SumFunction([i \in DOMAIN queue[s] |-> queue[s][i].size])
    /\ readerWaits[s] => engine = s /\ queue[s] = <<>> /\ ~ended[s]
    /\ writerWaits[s] => writer[s] # 0 /\ buffered[s] >= HighWater
    /\ consumed[s] # <<>> => engine \notin {"unopened", "loading"}

\* What the worker holds of a file, and what is on its way, stays below the
\* watermark and one chunk, however far the engine is from reading that side
\* (push.ts:19, "`write` returns a promise that does not resolve until the buffered
\* amount drops below the watermark, and a pump loop that awaits it is bounded").
Bounded ==
  /\ BuffersSound
  /\ \A s \in Sides :
       LET sent == {i \in DOMAIN toWorker : toWorker[i].t = "chunk" /\ toWorker[i].side = s}
           onTheWay == SumFunction([i \in sent |-> toWorker[i].chunk.size])
       IN  \E largest \in Sizes : buffered[s] + onTheWay < HighWater + largest

\* A comparison that completes has parsed every chunk each input yielded, in
\* order, up to its end: a download that failed, or was aborted, is never
\* compared as a shorter file (push.ts:74).
WholeFiles ==
  /\ \A s \in Sides : \A i \in DOMAIN consumed[s] : consumed[s][i] = i
  /\ engine = "done" \/ outcome = Handle =>
       \A s \in Sides : Len(consumed[s]) = chunks[s] /\ cause[s] = None

\* The caller learns a root cause as it was, and no consequence of one: the error a
\* pump caught, not the copy of it that comes back from the engine, nor what a
\* request met because the worker was being ended; and a failed comparison gives its
\* own reason (workerClient.ts:290, "so its parse fails with the reason").  Of two
\* inputs that fail independently it may be either's.
CauseReported ==
  outcome \notin {Pending, Handle} =>
    \/ \E s \in Sides : outcome = cause[s] /\ cause[s] \in {Aborted, Unread(s)}
    \/ outcome = broken /\ \A s \in Sides : broken # Copied(cause[s])
    \/ outcome = Crashed /\ ~alive

\* compareInWorker always answers, and by then or later both pumps have returned:
\* no write, read or request waits for ever on the other thread.
Settles ==
  <>(outcome # Pending /\ \A s \in Sides : pump[s] \in {"unstarted", "done", "threw"})

=============================================================================
