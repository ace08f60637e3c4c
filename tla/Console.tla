------------------------------- MODULE Console -------------------------------
(***************************************************************************)
(* One page of the web console (frontend/src/App.vue): the board that shows a   *)
(* workflow, the calls that start, decide and recover it, and the event stream    *)
(* that follows it (api/v1/workflows.py), across outages and reloads.             *)
(*                                                                         *)
(* The checkpoints of a thread are numbered: a snapshot is the number of the       *)
(* checkpoint it was made of. They grow by the invocations of this console and       *)
(* of anybody else's, which Workflow describes.                                    *)
(*                                                                         *)
(* Browser and proxy are external. An EventSource that loses its connection opens   *)
(* it again; one that is answered with an error status stays closed for ever, which  *)
(* is what the proxy sends while the backend is away.                               *)
(***************************************************************************)
EXTENDS Naturals, Sequences

CONSTANTS
    Threads,       \* thread ids
    NoThread,      \* nothing in localStorage; no thread yet
    Slots,         \* calls that can be in flight at a time
    MaxVersion,    \* bound: checkpoints of a thread
    MaxFaults      \* bound: outages and lost connections

ASSUME ConsoleAssumption ==
    /\ NoThread \notin Threads /\ Slots # {}
    /\ MaxVersion \in Nat \ {0} /\ MaxFaults \in Nat

VARIABLES
    version,    \* thread -> its latest checkpoint, 0 before it is started
    up,         \* whether the backend can be reached
    call,       \* slot -> a call in flight and its answer
    busy,       \* busy.value
    shown,      \* workflow.value, and whether a call or the stream put it there
    last,       \* localStorage 'whale-mas:last-thread'
    stream,     \* eventSource, the generator that feeds it, and what is on the way
    overlap,    \* whether this page sent a start or a decision with another call in flight
    faults      \* outages and lost connections so far

vars == <<version, up, call, busy, shown, last, stream, overlap, faults>>

Board(thread, v, by) == [thread |-> thread, version |-> v, by |-> by]

Empty == Board(NoThread, 0, "nobody")

NoCall == [kind |-> "none", state |-> "none", thread |-> NoThread, version |-> 0]

\* The page has just been loaded: onMounted asks for the list of cases first.
Mounted ==
    [s \in Slots |-> IF s = CHOOSE x \in Slots : TRUE
                     THEN [NoCall EXCEPT !.kind = "list", !.state = "sent"] ELSE NoCall]

Stream(state, thread) == [state |-> state, thread |-> thread, previous |-> 0, wire |-> << >>]

Closed == Stream("closed", NoThread)

Init ==
    /\ version = [t \in Threads |-> 0]
    /\ up = TRUE
    /\ call = Mounted
    /\ busy = FALSE
    /\ shown = Empty
    /\ last = NoThread
    /\ stream = Closed
    /\ overlap = FALSE
    /\ faults = 0

-----------------------------------------------------------------------------
(* The user *)

Send(kind, thread) ==
    \E s \in Slots :
        /\ call[s] = NoCall
        /\ call' = [call EXCEPT ![s] = [kind |-> kind, state |-> "sent", thread |-> thread,
                                        version |-> 0]]

InFlight == \E s \in Slots : call[s] # NoCall

\* start, and the Enter key of the field beside it: addCase, which asks nobody
\* whether the page is busy.
Start ==
    /\ shown = Empty /\ ~busy
    /\ Send("start", NoThread)
    /\ busy' = TRUE
    /\ overlap' = (overlap \/ InFlight)
    /\ UNCHANGED <<version, up, shown, last, stream, faults>>

AddCase ==
    /\ shown = Empty
    /\ Send("create", NoThread)
    /\ busy' = TRUE
    /\ UNCHANGED <<version, up, shown, last, stream, overlap, faults>>

Decide ==
    /\ shown # Empty /\ ~busy
    /\ Send("decide", shown.thread)
    /\ busy' = TRUE
    /\ overlap' = (overlap \/ InFlight)
    /\ UNCHANGED <<version, up, shown, last, stream, faults>>

\* A faulty reset that leaves the event source to itself.
StreamLeft == stream

StreamAfterReset == Closed

ResetBoard ==
    /\ shown # Empty
    /\ shown' = Empty /\ stream' = StreamAfterReset /\ last' = NoThread
    /\ UNCHANGED <<version, up, call, busy, overlap, faults>>

\* The page is left and loaded again.
Reload ==
    /\ call' = Mounted
    /\ shown' = Empty /\ stream' = Closed /\ busy' = FALSE /\ overlap' = FALSE
    /\ UNCHANGED <<version, up, last, faults>>

-----------------------------------------------------------------------------
(* The calls *)

\* The backend answers with a snapshot, or the call fails: refused, or no backend.
Serve(s) ==
    /\ call[s].state = "sent"
    /\ \/ /\ up /\ call[s].kind = "start"
          /\ \E t \in Threads :
               /\ version[t] = 0
               /\ version' = [version EXCEPT ![t] = 1]
               /\ call' = [call EXCEPT ![s].state = "answered", ![s].thread = t, ![s].version = 1]
       \/ /\ up /\ call[s].kind \in {"decide", "recover"}
          /\ call' = [call EXCEPT ![s].state = "answered", ![s].version = version[call[s].thread]]
          /\ UNCHANGED version
       \/ /\ up /\ call[s].kind \in {"list", "create"}
          /\ call' = [call EXCEPT ![s].state = "answered"]
          /\ UNCHANGED version
       \/ /\ call' = [call EXCEPT ![s].state = "failed"]
          /\ UNCHANGED version
    /\ UNCHANGED <<up, busy, shown, last, stream, overlap, faults>>

\* A faulty recovery that does not follow the thread it has found.
FollowedIfStarted(s) ==
    IF call[s].kind = "start" THEN Stream("connecting", call[s].thread) ELSE stream

\* connectEvents closes the event source there was.
Followed(s) ==
    IF call[s].kind \in {"start", "recover"} THEN Stream("connecting", call[s].thread) ELSE stream

Answered(s) ==
    /\ call[s].state = "answered"
    /\ shown' = IF call[s].kind \in {"list", "create"} THEN shown
                ELSE Board(call[s].thread, call[s].version, "call")
    /\ stream' = Followed(s)
    /\ last' = IF call[s].kind = "start" THEN call[s].thread ELSE last

\* The thread is forgotten whatever the reason was.
Failed(s) ==
    /\ call[s].state = "failed"
    /\ last' = IF call[s].kind = "recover" THEN NoThread ELSE last
    /\ UNCHANGED <<shown, stream>>

\* The list, answered or not, is followed by the recovery of the thread that is the
\* last one by then.
Recovery(s) ==
    IF call[s].kind = "list" /\ last # NoThread
      THEN [NoCall EXCEPT !.kind = "recover", !.state = "sent", !.thread = last]
      ELSE NoCall

Return(s) ==
    /\ Answered(s) \/ Failed(s)
    /\ call' = [call EXCEPT ![s] = Recovery(s)]
    /\ busy' = (busy /\ call[s].kind \in {"list", "recover"})
    /\ UNCHANGED <<version, up, overlap, faults>>

-----------------------------------------------------------------------------
(* The event stream *)

\* A faulty server that remembers what it last sent to this console.
Remembered == stream.previous

PreviousAtConnect == 0

Connect ==
    /\ stream.state = "connecting" /\ up
    /\ stream' = [stream EXCEPT !.state = "open", !.previous = PreviousAtConnect]
    /\ UNCHANGED <<version, up, call, busy, shown, last, overlap, faults>>

\* The proxy answers 502.
Refused ==
    /\ stream.state = "connecting" /\ ~up
    /\ stream' = [stream EXCEPT !.state = "dead"]
    /\ UNCHANGED <<version, up, call, busy, shown, last, overlap, faults>>

\* One round of event_stream: a snapshot is sent if it is not the previous one.
Tick ==
    /\ stream.state = "open" /\ up
    /\ version[stream.thread] # stream.previous
    /\ stream' = [stream EXCEPT !.previous = version[stream.thread],
                                !.wire = Append(@, version[stream.thread])]
    /\ UNCHANGED <<version, up, call, busy, shown, last, overlap, faults>>

Receive ==
    /\ stream.state = "open" /\ stream.wire # << >>
    /\ shown' = Board(stream.thread, Head(stream.wire), "stream")
    /\ stream' = [stream EXCEPT !.wire = Tail(@)]
    /\ UNCHANGED <<version, up, call, busy, last, overlap, faults>>

-----------------------------------------------------------------------------
\* An invocation, whoever asked for it, saves a checkpoint.
Advance ==
    /\ up
    /\ \E t \in Threads :
         /\ version[t] \in 1 .. MaxVersion - 1
         /\ version' = [version EXCEPT ![t] = @ + 1]
    /\ UNCHANGED <<up, call, busy, shown, last, stream, overlap, faults>>

\* A faulty onerror that takes the page offline.
Offline == [stream EXCEPT !.state = "offline"]

Disconnected ==
    IF stream.state = "open" THEN [stream EXCEPT !.state = "connecting", !.wire = << >>]
    ELSE stream

\* The connection of the stream is lost, or the whole backend goes away with the
\* answers that are on the way.
LoseConnection ==
    /\ faults < MaxFaults
    /\ stream' = Disconnected
    /\ up' \in {up, FALSE}
    /\ call' = IF up' THEN call
               ELSE [s \in Slots |-> IF call[s] = NoCall THEN NoCall
                                    ELSE [call[s] EXCEPT !.state = "failed"]]
    /\ faults' = faults + 1
    /\ UNCHANGED <<version, busy, shown, last, overlap>>

ComeBack ==
    /\ ~up
    /\ up' = TRUE
    /\ UNCHANGED <<version, call, busy, shown, last, stream, overlap, faults>>

Next ==
    \/ Start \/ AddCase \/ Decide \/ ResetBoard \/ Reload
    \/ \E s \in Slots : Serve(s) \/ Return(s)
    \/ Connect \/ Refused \/ Tick \/ Receive
    \/ Advance \/ LoseConnection \/ ComeBack

\* Calls are answered or fail, the stream goes on, the backend comes back. The user
\* does as he likes, and nobody has to move a workflow on.
Fairness ==
    /\ \A s \in Slots : WF_vars(Serve(s)) /\ WF_vars(Return(s))
    /\ WF_vars(Connect) /\ WF_vars(Tick) /\ WF_vars(Receive) /\ WF_vars(ComeBack)

Spec == Init /\ [][Next]_vars /\ Fairness

-----------------------------------------------------------------------------
(* Each variable holds what the page and the backend can put there.          *)
TypeOK ==
    LET Thread == Threads \cup {NoThread}
        Version == 0 .. MaxVersion
    IN  /\ version \in [Threads -> Version]
        /\ call \in [Slots -> [kind : {"none", "list", "start", "create", "decide", "recover"},
                               state : {"none", "sent", "answered", "failed"},
                               thread : Thread, version : Version]]
        /\ shown \in [thread : Thread, version : Version, by : {"nobody", "call", "stream"}]
        /\ last \in Thread
        /\ stream \in [state : {"closed", "connecting", "open", "dead"}, thread : Thread,
                       previous : Version, wire : Seq(Version)]
        /\ {up, busy, overlap} \subseteq BOOLEAN /\ faults \in 0 .. MaxFaults

(* A board that was cleared has no stream left behind that would bring the old   *)
(* workflow back while another one is being started (a late answer still can).     *)
ClearedIsUnfollowed == shown = Empty => stream.state = "closed"

(* Board, stream and localStorage speak of the same thread, so that a reload      *)
(* brings back what was on the screen, except after two races: a start or a        *)
(* decision that overlapped another call, and an answer that came after the board    *)
(* was cleared, which shows a workflow nothing follows.                            *)
OneThread ==
    shown # Empty /\ ~overlap =>
        \/ stream.thread = shown.thread /\ last = shown.thread
        \/ stream = Closed /\ last = NoThread /\ shown.by = "call"

(* The board ends up with the latest checkpoint of its thread whatever was lost   *)
(* on the way, unless the proxy has refused its stream or the answer of a call was   *)
(* shown last: after a race of OneThread nothing follows the thread any more, and     *)
(* the stream does not repeat a snapshot that an older answer has covered.           *)
CatchesUp ==
    <>[](\/ shown = Empty
         \/ shown.version = version[shown.thread]
         \/ stream.state = "dead"
         \/ shown.by = "call")
=============================================================================
