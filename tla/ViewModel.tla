----------------------------- MODULE ViewModel -----------------------------
(***************************************************************************)
(* The headless view model over a comparison in a worker: DiffViewModel of *)
(* js/packages/view/src/viewModel.ts, the row source between (source.ts),  *)
(* and the one index the worker keeps (js/packages/core/src/worker.ts).    *)
(*                                                                         *)
(* A report is known by its filter: changes only, or every row.  Requests  *)
(* and replies are messages of one worker, which come in order.  A caller  *)
(* makes a source for each filter it picks, as the React binding does, or  *)
(* keeps the two it made and swaps them: a source asks for its index once, *)
(* and remembers the answer.                                               *)
(***************************************************************************)
EXTENDS SequencesExt

CONSTANTS
  PagesOf,       \* PagesOf[changesOnly]: how many pages the report has
  CompactPages,  \* COMPACT_PAGES
  ValuePages,    \* VALUE_PAGES
  MaxAsked       \* bound: requests and replies under way

VARIABLES
  keeps,    \* whether the caller swaps two sources it keeps
  pending,  \* pending[changesOnly]: what a source that is kept has of its index
  source,   \* the filter of the source the view shows
  status, rowCount, \* in pages
  top,      \* the page scrolled to
  cache,    \* cache["compact"], cache["values"]: pages, the least lately stored first
  inFlight, \* the keys <<kind, page>> asked for
  asked,    \* requests the worker has not dealt with
  replies,  \* answers the page has not dealt with
  index     \* the worker's indexChangesOnly, built when it is first read

vars == <<keeps, pending, source, status, rowCount, top, cache, inFlight, asked, replies, index>>

Filters == BOOLEAN  \* changesOnly
Kinds == {"compact", "values"}
\* No request yet, one under way, an answer, a failure.
Pendings == {"null", "asked", "answered", "refused"}
Limit == [compact |-> CompactPages, values |-> ValuePages]

Init ==
  /\ keeps \in BOOLEAN
  /\ pending = [changesOnly \in Filters |-> "null"]
  /\ source \in Filters
  /\ status = "idle" /\ rowCount = 0 /\ top = 0
  /\ cache = [kind \in Kinds |-> <<>>]
  /\ inFlight = {} /\ asked = <<>> /\ replies = <<>> /\ index = FALSE

-----------------------------------------------------------------------------
Ready(changesOnly) == [t |-> "index", filter |-> changesOnly, page |-> 0]

\* What a kept source remembers of its one request.
Remembers(changesOnly, answer) ==
  pending' = IF keeps THEN [pending EXCEPT ![changesOnly] = answer] ELSE pending

Start ==
  /\ status = "idle"
  /\ status' = "loading"
  /\ asked' = Append(asked, Ready(source))
  /\ Remembers(source, "asked")
  /\ UNCHANGED <<keeps, source, rowCount, top, cache, inFlight, replies, index>>

\* Every cache is dropped and the index asked for, of the worker or of what the
\* source remembers; what is under way is not called back.
SetSource(changesOnly) ==
  /\ source' = changesOnly /\ top' = 0
  /\ cache' = [kind \in Kinds |-> <<>>]
  /\ inFlight' = {}
  /\ \/ /\ pending[changesOnly] = "null"
        /\ Len(asked) + Len(replies) < MaxAsked
        /\ status' = "loading" /\ rowCount' = 0
        /\ asked' = Append(asked, Ready(changesOnly))
        /\ Remembers(changesOnly, "asked")
     \/ /\ pending[changesOnly] = "asked"
        /\ status' = "loading" /\ rowCount' = 0
        /\ UNCHANGED <<asked, pending>>
     \/ /\ pending[changesOnly] = "answered"
        /\ status' = "ready" /\ rowCount' = PagesOf[changesOnly]
        /\ UNCHANGED <<asked, pending>>
     \/ /\ pending[changesOnly] = "refused"
        /\ status' = "error" /\ rowCount' = 0
        /\ UNCHANGED <<asked, pending>>
  /\ UNCHANGED <<keeps, replies, index>>

Scroll ==
  /\ top' \in 0 .. rowCount - 1
  /\ UNCHANGED <<keeps, pending, source, status, rowCount, cache, inFlight, asked, replies, index>>

Held(kind, page) == \E i \in DOMAIN cache[kind] : cache[kind][i].page = page

\* snapshot: what the window lacks is asked for, at most once each.
Want(kind) ==
  /\ top < rowCount
  /\ ~Held(kind, top) /\ <<kind, top>> \notin inFlight
  /\ Len(asked) + Len(replies) < MaxAsked
  /\ inFlight' = inFlight \cup {<<kind, top>>}
  /\ asked' = Append(asked, [t |-> kind, filter |-> source, page |-> top])
  /\ UNCHANGED <<keeps, pending, source, status, rowCount, top, cache, replies, index>>

-----------------------------------------------------------------------------
\* The worker deals with one message, or fails to: rows are read from the index
\* it has, whichever source asks.
Serve ==
  /\ asked # <<>>
  /\ \E ok \in BOOLEAN :
       /\ index' = IF ok /\ Head(asked).t = "index" THEN Head(asked).filter ELSE index
       /\ replies' = Append(replies, [t |-> Head(asked).t, page |-> Head(asked).page,
                                      filter |-> IF Head(asked).t = "index"
                                                 THEN Head(asked).filter ELSE index,
                                      ok |-> ok])
  /\ asked' = Tail(asked)
  /\ UNCHANGED <<keeps, pending, source, status, rowCount, top, cache, inFlight>>

\* touch: the page is stored last, and the oldest ones over the limit go.
Touched(pages, stored, limit) ==
  LET kept == Append(SelectSeq(pages, LAMBDA p : p.page # stored.page), stored)
  IN  SubSeq(kept, 1 + (IF Len(kept) > limit THEN Len(kept) - limit ELSE 0), Len(kept))

TakeReady ==
  /\ replies # <<>> /\ Head(replies).t = "index" /\ Head(replies).ok
  /\ rowCount' = PagesOf[Head(replies).filter]
  /\ status' = "ready"
  /\ Remembers(Head(replies).filter, "answered")
  /\ replies' = Tail(replies)
  /\ UNCHANGED <<keeps, source, top, cache, inFlight, asked, index>>

\* A page is installed whichever source it was asked of.
TakePage ==
  /\ replies # <<>> /\ Head(replies).t \in Kinds /\ Head(replies).ok
  /\ LET reply == Head(replies)
     IN  /\ inFlight' = inFlight \ {<<reply.t, reply.page>>}
         /\ cache' = [cache EXCEPT ![reply.t] =
                        Touched(@, [page |-> reply.page, filter |-> reply.filter], Limit[reply.t])]
  /\ replies' = Tail(replies)
  /\ UNCHANGED <<keeps, pending, source, status, rowCount, top, asked, index>>

TakeError ==
  /\ replies # <<>> /\ ~Head(replies).ok
  /\ inFlight' = inFlight \ {<<Head(replies).t, Head(replies).page>>}
  /\ status' = "error"
  /\ IF Head(replies).t = "index" THEN Remembers(Head(replies).filter, "refused")
     ELSE UNCHANGED pending
  /\ replies' = Tail(replies)
  /\ UNCHANGED <<keeps, source, rowCount, top, cache, asked, index>>

Next ==
  \/ Start
  \/ \E changesOnly \in Filters : SetSource(changesOnly)
  \/ Scroll
  \/ \E kind \in Kinds : Want(kind)
  \/ Serve
  \/ TakeReady \/ TakePage \/ TakeError

Spec == Init /\ [][Next]_vars

-----------------------------------------------------------------------------
\* "Every cache is dropped because index positions mean something different in
\* the filtered report" (viewModel.ts:214): once the view is ready and nothing is
\* under way, the row count and every page it keeps are those of the report it
\* shows.
OneReport ==
  status = "ready" /\ asked = <<>> /\ replies = <<>> =>
    /\ rowCount = PagesOf[source]
    /\ \A kind \in Kinds : \A i \in DOMAIN cache[kind] : cache[kind][i].filter = source

=============================================================================
