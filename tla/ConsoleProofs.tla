---------------------------- MODULE ConsoleProofs ----------------------------
(***************************************************************************)
(* Proofs about Console, for any number of threads, calls in flight,           *)
(* checkpoints and outages.                                                   *)
(***************************************************************************)
EXTENDS Console, SequenceTheorems, TLAPS

(* What is followed, shown or asked for is a thread there is.                 *)
ThreadInv ==
    /\ stream.state # "closed" => stream.thread \in Threads
    /\ shown # Empty => shown.thread \in Threads
    /\ \A s \in Slots :
         /\ call[s].kind = "none" => call[s] = NoCall
         /\ call[s].kind \in {"decide", "recover"} => call[s].thread \in Threads
         /\ call[s].kind = "start" /\ call[s].state = "answered" => call[s].thread \in Threads

BoardInv == shown = Empty => stream = Closed

StateInv == TypeOK /\ ThreadInv /\ BoardInv

(* The calls whose answer concerns the workflow shown or the one remembered.   *)
Following == {"list", "start", "decide", "recover"}

OneFollowing ==
    \A s, q \in Slots :
        call[s].kind \in Following /\ call[q].kind \in Following => s = q

(* What such a call will find when its answer comes.                          *)
CallsFit ==
    \A s \in Slots :
        /\ call[s].kind \in {"list", "start", "recover"} => shown = Empty
        /\ call[s].kind = "recover" => call[s].thread = last
        /\ call[s].kind = "decide" /\ shown # Empty => shown.thread = call[s].thread

NothingRemembered ==
    shown = Empty => last = NoThread \/ \E s \in Slots : call[s].kind \in {"list", "recover"}

Agreement ==
    shown # Empty =>
        \/ stream.thread = shown.thread /\ last = shown.thread
        \/ stream = Closed /\ last = NoThread /\ shown.by = "call"

PageInv == ~overlap => OneFollowing /\ CallsFit /\ NothingRemembered /\ Agreement

-----------------------------------------------------------------------------
LEMMA BoardNotEmpty ==
    /\ \A t, v : Board(t, v, "call") # Empty /\ Board(t, v, "stream") # Empty
    /\ \A t, v, by : Board(t, v, by).thread = t /\ Board(t, v, by).by = by
BY DEF Board, Empty

LEMMA MountedCalls ==
    \A s \in Slots :
        /\ Mounted[s].kind \in {"none", "list"} /\ Mounted[s].state \in {"none", "sent"}
        /\ Mounted[s].thread = NoThread /\ Mounted[s].version = 0
        /\ Mounted[s].kind = "none" => Mounted[s] = NoCall
        /\ Mounted[s].kind = "list" => s = CHOOSE x \in Slots : TRUE
        /\ s = (CHOOSE x \in Slots : TRUE) => Mounted[s].kind = "list"
BY DEF Mounted, NoCall

Call ==
    [kind : {"none", "list", "start", "create", "decide", "recover"},
     state : {"none", "sent", "answered", "failed"},
     thread : Threads \cup {NoThread}, version : 0 .. MaxVersion]

Shown ==
    [thread : Threads \cup {NoThread}, version : 0 .. MaxVersion, by : {"nobody", "call", "stream"}]

EventSource ==
    [state : {"closed", "connecting", "open", "dead"}, thread : Threads \cup {NoThread},
     previous : 0 .. MaxVersion, wire : Seq(0 .. MaxVersion)]

LEMMA Types ==
    TypeOK <=> /\ version \in [Threads -> 0 .. MaxVersion] /\ call \in [Slots -> Call]
               /\ shown \in Shown /\ last \in Threads \cup {NoThread} /\ stream \in EventSource
               /\ {up, busy, overlap} \subseteq BOOLEAN /\ faults \in 0 .. MaxFaults
BY DEF TypeOK, Call, Shown, EventSource

LEMMA HeadTail ==
    ASSUME NEW S, NEW q \in Seq(S), q # << >>
    PROVE  Head(q) \in S /\ Tail(q) \in Seq(S)
OBVIOUS

LEMMA MountedType == Mounted \in [Slots -> Call]
<1> DEFINE listing == [NoCall EXCEPT !.kind = "list", !.state = "sent"]
<1>1. 0 \in 0 .. MaxVersion
  BY ConsoleAssumption
<1>2. NoCall \in Call /\ listing \in Call
  BY <1>1 DEF NoCall, Call
<1> QED
  BY <1>2, Zenon DEF Mounted

LEMMA ClosedType ==
    /\ Closed \in EventSource
    /\ Empty \in Shown
<1>1. 0 \in 0 .. MaxVersion /\ << >> \in Seq(0 .. MaxVersion)
  BY ConsoleAssumption
<1> QED
  BY <1>1 DEF Closed, Stream, Empty, Board, Shown, EventSource

LEMMA StateInit == Init => StateInv
<1> SUFFICES ASSUME Init PROVE StateInv
  OBVIOUS
<1>1. TypeOK
  <2>1. version \in [Threads -> 0 .. MaxVersion] /\ faults \in 0 .. MaxFaults
    BY ConsoleAssumption DEF Init
  <2>2. call \in [Slots -> Call]
    BY MountedType DEF Init
  <2> QED
    BY <2>1, <2>2, ClosedType DEF Init, TypeOK, Call, Shown, EventSource
<1>2. ThreadInv
  BY MountedCalls DEF Init, ThreadInv, Closed, Stream
<1>3. BoardInv
  BY DEF Init, BoardInv
<1> QED
  BY <1>1, <1>2, <1>3 DEF StateInv

LEMMA UserStep ==
    ASSUME StateInv, Start \/ AddCase \/ Decide \/ ResetBoard \/ Reload
    PROVE  StateInv'
<1> USE DEF StateInv
<1>1. CASE Start \/ AddCase \/ Decide
  <2>1. PICK kind \in {"start", "create", "decide"}, thread \in Threads \cup {NoThread} :
          Send(kind, thread) /\ (kind = "decide" => thread \in Threads)
    BY <1>1 DEF Start, AddCase, Decide, ThreadInv
  <2>2. PICK s \in Slots : call' = [call EXCEPT ![s] = [kind |-> kind, state |-> "sent",
                                                      thread |-> thread, version |-> 0]]
    BY <2>1 DEF Send
  <2>3. UNCHANGED <<version, up, shown, last, stream, faults>> /\ {busy', overlap'} \subseteq BOOLEAN
    BY <1>1 DEF Start, AddCase, Decide, TypeOK, InFlight
  <2>4. TypeOK'
    BY <2>2, <2>3, ConsoleAssumption DEF TypeOK
  <2>5. ThreadInv'
    BY <2>1, <2>2, <2>3 DEF TypeOK, ThreadInv
  <2> QED
    BY <2>3, <2>4, <2>5 DEF BoardInv
<1>2. CASE ResetBoard
  BY <1>2, ConsoleAssumption
     DEF ResetBoard, StreamAfterReset, Closed, Stream, Empty, Board, TypeOK, ThreadInv, BoardInv
<1>3. CASE Reload
  <2>1. TypeOK'
    BY <1>3, MountedType, ClosedType DEF Reload, TypeOK, Call, Shown, EventSource
  <2>2. ThreadInv' /\ BoardInv'
    BY <1>3, MountedCalls DEF Reload, Closed, Stream, ThreadInv, BoardInv
  <2> QED
    BY <2>1, <2>2
<1> QED
  BY <1>1, <1>2, <1>3

(* What Serve makes of a call.                                               *)
LEMMA ServedCall ==
    ASSUME StateInv, NEW s \in Slots, Serve(s)
    PROVE  /\ call' \in [Slots -> Call]
           /\ \A q \in Slots \ {s} : call'[q] = call[q]
           /\ call'[s].kind = call[s].kind /\ call[s].kind # "none"
           /\ call[s].kind # "start" => call'[s].thread = call[s].thread
           /\ call[s].kind = "start" /\ call'[s].state = "answered" => call'[s].thread \in Threads
<1>1. call \in [Slots -> Call] /\ version \in [Threads -> 0 .. MaxVersion]
  BY DEF StateInv, TypeOK, Call
<1>2. 1 \in 0 .. MaxVersion
  BY ConsoleAssumption
<1>7. call[s].kind # "none"
  <2>1. call[s].state = "sent" /\ NoCall.state = "none"
    BY DEF Serve, NoCall
  <2>2. call[s].kind = "none" => call[s] = NoCall
    BY Zenon DEF StateInv, ThreadInv
  <2> QED
    BY <2>1, <2>2
<1>3. CASE call[s].kind = "start" /\ \E t \in Threads :
             call' = [call EXCEPT ![s].state = "answered", ![s].thread = t, ![s].version = 1]
  <2>1. PICK t \in Threads :
          call' = [call EXCEPT ![s].state = "answered", ![s].thread = t, ![s].version = 1]
    BY <1>3
  <2>2. call' \in [Slots -> Call]
    <3> DEFINE answered == [call EXCEPT ![s].state = "answered"]
               named == [answered EXCEPT ![s].thread = t]
    <3>1. answered \in [Slots -> Call]
      BY <1>1 DEF Call
    <3>2. named \in [Slots -> Call]
      <4> HIDE DEF answered
      <4> QED
        BY <3>1 DEF Call
    <3>3. [named EXCEPT ![s].version = 1] \in [Slots -> Call]
      <4> HIDE DEF answered, named
      <4> QED
        BY <3>2, <1>2 DEF Call
    <3> QED
      BY <2>1, <3>3, Zenon
  <2>3. call'[s].kind = call[s].kind /\ call'[s].thread = t
    BY <1>1, <2>1 DEF Call
  <2>4. \A q \in Slots \ {s} : call'[q] = call[q]
    BY <1>1, <2>1
  <2> QED
    BY <1>3, <2>2, <2>3, <2>4
<1>4. CASE /\ call[s].kind \in {"decide", "recover"}
           /\ call' = [call EXCEPT ![s].state = "answered", ![s].version = version[call[s].thread]]
  <2>1. version[call[s].thread] \in 0 .. MaxVersion
    <3>1. call[s].thread \in Threads
      BY <1>4, Zenon DEF StateInv, ThreadInv
    <3> QED
      BY <1>1, <3>1, Zenon
  <2> QED
    BY <1>1, <1>4, <2>1 DEF Call
<1>5. CASE call[s].kind \in {"list", "create"} /\ call' = [call EXCEPT ![s].state = "answered"]
  BY <1>1, <1>5 DEF Call
<1>6. CASE call' = [call EXCEPT ![s].state = "failed"]
  BY <1>1, <1>6, <1>7 DEF Call
<1> QED
  BY <1>3, <1>4, <1>5, <1>6 DEF Serve

LEMMA ServeStep ==
    ASSUME StateInv, NEW s \in Slots, Serve(s)
    PROVE  StateInv'
<1> USE DEF StateInv
<1>1. UNCHANGED <<up, busy, shown, last, stream, overlap, faults>>
  BY DEF Serve
<1>2. version' \in [Threads -> 0 .. MaxVersion]
  <2>1. 1 \in 0 .. MaxVersion
    BY ConsoleAssumption
  <2> QED
    BY <2>1 DEF Serve, TypeOK
<1>3. TypeOK'
  BY <1>1, <1>2, ServedCall DEF TypeOK, Call, Shown, EventSource
<1>4. ThreadInv'
  <2>1. \A q \in Slots \ {s} : call'[q] = call[q]
    BY ServedCall
  <2>2. /\ call'[s].kind # "none"
        /\ call'[s].kind \in {"decide", "recover"} => call'[s].thread \in Threads
        /\ call'[s].kind = "start" /\ call'[s].state = "answered" => call'[s].thread \in Threads
    BY ServedCall DEF ThreadInv
  <2> QED
    BY <1>1, <2>1, <2>2 DEF ThreadInv
<1> QED
  BY <1>1, <1>3, <1>4 DEF BoardInv

(* What follows an answer: nothing, or the recovery after the list.          *)
LEMMA RecoveryCall ==
    ASSUME StateInv, NEW s \in Slots, Return(s)
    PROVE  /\ Recovery(s) \in Call
           /\ Recovery(s).kind = "none" => Recovery(s) = NoCall
           /\ Recovery(s).kind \in {"none", "recover"}
           /\ Recovery(s).kind = "recover" =>
                /\ call[s].kind = "list" /\ last # NoThread /\ Recovery(s).thread = last
           /\ call' \in [Slots -> Call] /\ call'[s] = Recovery(s)
           /\ \A q \in Slots \ {s} : call'[q] = call[q]
<1>1. call \in [Slots -> Call] /\ last \in Threads \cup {NoThread}
  BY DEF StateInv, TypeOK, Call
<1>2. 0 \in 0 .. MaxVersion
  BY ConsoleAssumption
<1>3. NoCall \in Call /\ NoCall.kind = "none"
  BY <1>2 DEF NoCall, Call
<1> DEFINE recover == [NoCall EXCEPT !.kind = "recover", !.state = "sent", !.thread = last]
<1>4. recover \in Call /\ recover.kind = "recover" /\ recover.thread = last
  BY <1>1, <1>2 DEF NoCall, Call
<1>5. \/ Recovery(s) = NoCall
      \/ Recovery(s) = recover /\ call[s].kind = "list" /\ last # NoThread
  BY DEF Recovery
<1>6. Recovery(s) \in Call
  BY <1>3, <1>4, <1>5
<1>7. call' = [call EXCEPT ![s] = Recovery(s)]
  BY DEF Return
<1>8. call' \in [Slots -> Call] /\ call'[s] = Recovery(s) /\ \A q \in Slots \ {s} : call'[q] = call[q]
  BY <1>1, <1>6, <1>7
<1> HIDE DEF recover
<1> QED
  BY <1>3, <1>4, <1>5, <1>6, <1>8

LEMMA ReturnStep ==
    ASSUME StateInv, NEW s \in Slots, Return(s)
    PROVE  StateInv'
<1> USE DEF StateInv
<1>1. UNCHANGED <<version, up, overlap, faults>> /\ busy' \in BOOLEAN
  BY DEF Return, TypeOK
<1>2. call[s] \in Call /\ last \in Threads \cup {NoThread}
  BY DEF TypeOK, Call, Shown, EventSource
<1>3. CASE Failed(s)
  <2>1. UNCHANGED <<shown, stream>> /\ last' \in Threads \cup {NoThread}
    BY <1>2, <1>3 DEF Failed
  <2>2. TypeOK'
    BY <1>1, <2>1, RecoveryCall DEF TypeOK, Call, Shown, EventSource
  <2>3. ThreadInv'
    BY <1>2, <2>1, RecoveryCall DEF ThreadInv
  <2> QED
    BY <2>1, <2>2, <2>3 DEF BoardInv
<1>4. CASE Answered(s) /\ call[s].kind \in {"list", "create"}
  <2>1. UNCHANGED <<shown, stream, last>>
    BY <1>4 DEF Answered, Followed
  <2>2. TypeOK'
    BY <1>1, <2>1, RecoveryCall DEF TypeOK, Call, Shown, EventSource
  <2>3. ThreadInv'
    BY <1>2, <2>1, RecoveryCall DEF ThreadInv
  <2> QED
    BY <2>1, <2>2, <2>3 DEF BoardInv
<1>5. CASE Answered(s) /\ call[s].kind \in {"start", "decide", "recover"}
  <2>1. call[s].thread \in Threads /\ call[s].version \in 0 .. MaxVersion
    BY <1>2, <1>5 DEF ThreadInv, Answered, Call
  <2>2. shown' = Board(call[s].thread, call[s].version, "call")
    BY <1>5 DEF Answered
  <2>3. stream' \in {stream, Stream("connecting", call[s].thread)} /\ last' \in Threads \cup {NoThread}
    BY <1>2, <1>5, <2>1 DEF Answered, Followed
  <2>4. 0 \in 0 .. MaxVersion /\ << >> \in Seq(0 .. MaxVersion)
    BY ConsoleAssumption
  <2>5. shown' \in Shown
    BY <2>1, <2>2 DEF Board, Shown
  <2>6. stream' \in EventSource
    <3>1. CASE stream' = stream
      BY <3>1, Types
    <3>2. CASE stream' = Stream("connecting", call[s].thread)
      BY <2>1, <2>4, <3>2 DEF Stream, EventSource
    <3> QED
      BY <2>3, <3>1, <3>2
  <2>7. TypeOK'
    BY <1>1, <2>3, <2>5, <2>6, RecoveryCall DEF TypeOK, Call, Shown, EventSource
  <2>8. shown' # Empty /\ shown'.thread \in Threads
    BY <2>1, <2>2, BoardNotEmpty
  <2>9. stream'.state # "closed" => stream'.thread \in Threads
    BY <2>1, <2>3 DEF Stream, ThreadInv
  <2>10. ThreadInv'
    BY <1>2, <2>8, <2>9, RecoveryCall DEF ThreadInv
  <2> QED
    BY <2>7, <2>8, <2>10 DEF BoardInv
<1>6. CASE Answered(s) /\ call[s].kind = "none"
  BY <1>6 DEF Answered, ThreadInv, NoCall
<1> QED
  BY <1>2, <1>3, <1>4, <1>5, <1>6 DEF Return, Call

LEMMA StreamStep ==
    ASSUME StateInv, Connect \/ Refused \/ Tick \/ Receive
    PROVE  StateInv'
<1> USE DEF StateInv
<1>1. stream.state \in {"connecting", "open"} /\ stream.thread \in Threads
  BY DEF Connect, Refused, Tick, Receive, ThreadInv
<1>2. shown # Empty
  BY <1>1 DEF BoardInv, Closed, Stream
<1>3. UNCHANGED <<version, up, call, busy, last, overlap, faults>>
  BY DEF Connect, Refused, Tick, Receive
<1>4. /\ stream'.state \in {"open", "dead"} /\ stream'.thread = stream.thread
      /\ stream' \in EventSource
  <2>1. 0 \in 0 .. MaxVersion /\ version[stream.thread] \in 0 .. MaxVersion
    BY <1>1, ConsoleAssumption DEF TypeOK
  <2>2. stream \in EventSource /\ stream.wire \in Seq(0 .. MaxVersion)
    BY Types DEF EventSource
  <2>3. CASE Connect \/ Refused
    BY <2>1, <2>2, <2>3 DEF Connect, Refused, PreviousAtConnect, EventSource
  <2>4. CASE Tick
    <3>1. Append(stream.wire, version[stream.thread]) \in Seq(0 .. MaxVersion)
      BY <2>1, <2>2
    <3> QED
      BY <2>1, <2>2, <2>4, <3>1 DEF Tick, EventSource
  <2>5. CASE Receive
    <3>1. Tail(stream.wire) \in Seq(0 .. MaxVersion)
      BY <2>2, <2>5, HeadTail DEF Receive
    <3> QED
      BY <2>2, <2>5, <3>1 DEF Receive, EventSource
  <2> QED
    BY <2>3, <2>4, <2>5
<1>5. /\ shown' # Empty /\ shown'.thread \in Threads
      /\ shown' \in Shown
  <2>1. CASE Receive
    <3>1. Head(stream.wire) \in 0 .. MaxVersion
      BY <2>1, Types, HeadTail DEF Receive, EventSource
    <3>2. shown' = Board(stream.thread, Head(stream.wire), "stream")
      BY <2>1 DEF Receive
    <3> QED
      BY <1>1, <3>1, <3>2 DEF Board, Empty, Shown
  <2>2. CASE Connect \/ Refused \/ Tick
    BY <1>2, <2>2, Types DEF Connect, Refused, Tick, ThreadInv
  <2> QED
    BY <2>1, <2>2
<1>6. TypeOK'
  BY <1>3, <1>4, <1>5 DEF TypeOK, Shown, EventSource, Call
<1>7. ThreadInv'
  BY <1>1, <1>3, <1>4, <1>5 DEF ThreadInv
<1> QED
  BY <1>5, <1>6, <1>7 DEF BoardInv

LEMMA LostStream ==
    ASSUME StateInv, LoseConnection
    PROVE  /\ stream'.thread = stream.thread /\ (stream.state = "closed" => stream' = stream)
           /\ stream' \in EventSource
<1>1. << >> \in Seq(0 .. MaxVersion) /\ stream \in EventSource
  BY Types DEF StateInv
<1> QED
  BY <1>1 DEF LoseConnection, Disconnected, EventSource

LEMMA LostCalls ==
    ASSUME StateInv, LoseConnection
    PROVE  /\ call' \in [Slots -> Call]
           /\ \A s \in Slots :
                /\ call'[s].kind = call[s].kind /\ call'[s].thread = call[s].thread
                /\ call'[s] = call[s] \/ (call[s].kind # "none" /\ call'[s].state = "failed")
<1>1. call \in [Slots -> Call]
  BY Types DEF StateInv
<1>2. CASE call' = call
  BY <1>1, <1>2
<1>3. CASE call' = [s \in Slots |-> IF call[s] = NoCall THEN NoCall
                                   ELSE [call[s] EXCEPT !.state = "failed"]]
  <2>1. \A s \in Slots : call[s].kind = "none" => call[s] = NoCall
    BY Zenon DEF StateInv, ThreadInv
  <2> DEFINE failed(c) == [c EXCEPT !.state = "failed"]
  <2>2. \A c \in Call :
          /\ failed(c) \in Call /\ failed(c).kind = c.kind
          /\ failed(c).thread = c.thread /\ failed(c).state = "failed"
    BY DEF Call
  <2>3. call' = [s \in Slots |-> IF call[s] = NoCall THEN NoCall ELSE failed(call[s])]
    BY <1>3
  <2>4. NoCall.kind = "none"
    BY DEF NoCall
  <2> HIDE DEF failed
  <2>5. \A s \in Slots : call'[s] = call[s] \/ (call[s] # NoCall /\ call'[s] = failed(call[s]))
    BY <2>3
  <2>6. call' \in [Slots -> Call]
    BY <1>1, <2>2, <2>3
  <2> QED
    BY <1>1, <2>1, <2>2, <2>4, <2>5, <2>6
<1> QED
  BY <1>2, <1>3 DEF LoseConnection

LEMMA BackendStep ==
    ASSUME StateInv, Advance \/ LoseConnection \/ ComeBack
    PROVE  StateInv'
<1> USE DEF StateInv
<1>1. UNCHANGED <<shown, last, busy, overlap>>
  BY DEF Advance, LoseConnection, ComeBack
<1>2. CASE Advance \/ ComeBack
  <2>1. UNCHANGED <<call, stream, faults>> /\ up' \in BOOLEAN
    BY <1>2 DEF Advance, ComeBack, TypeOK
  <2>2. version' \in [Threads -> 0 .. MaxVersion]
    <3>1. version \in [Threads -> 0 .. MaxVersion] /\ \A v \in 1 .. MaxVersion - 1 : v + 1 \in 0 .. MaxVersion
      BY ConsoleAssumption DEF TypeOK
    <3> QED
      BY <1>2, <3>1 DEF Advance, ComeBack
  <2> QED
    <3>1. TypeOK'
      BY <1>1, <2>1, <2>2 DEF TypeOK
    <3> QED
      BY <1>1, <2>1, <3>1 DEF ThreadInv, BoardInv
<1>3. CASE LoseConnection
  <2>1. version' = version /\ faults' \in 0 .. MaxFaults /\ up' \in BOOLEAN
    <3>1. faults \in 0 .. MaxFaults /\ MaxFaults \in Nat /\ up \in BOOLEAN
      BY ConsoleAssumption, Types
    <3>2. faults < MaxFaults /\ faults' = faults + 1 /\ version' = version /\ up' \in {up, FALSE}
      BY <1>3 DEF LoseConnection
    <3>3. up' \in BOOLEAN
      BY <3>1, <3>2, Zenon
    <3>4. faults' \in 0 .. MaxFaults
      BY <3>1, <3>2
    <3> QED
      BY <3>2, <3>3, <3>4, Zenon
  <2>4. TypeOK'
    BY <1>1, <1>3, <2>1, LostCalls, LostStream, Types DEF TypeOK, Call, Shown, EventSource
  <2>5. ThreadInv'
    BY <1>1, <1>3, LostCalls, LostStream DEF ThreadInv
  <2>6. BoardInv'
    BY <1>1, <1>3, LostStream DEF BoardInv, Closed, Stream
  <2> QED
    BY <2>4, <2>5, <2>6
<1> QED
  BY <1>2, <1>3

LEMMA StateStep == StateInv /\ [Next]_vars => StateInv'
<1> SUFFICES ASSUME StateInv, [Next]_vars PROVE StateInv'
  OBVIOUS
<1>1. CASE UNCHANGED vars
  BY <1>1 DEF vars, StateInv, TypeOK, ThreadInv, BoardInv
<1> QED
  BY <1>1, UserStep, ServeStep, ReturnStep, StreamStep, BackendStep DEF Next

(* For any number of threads, calls and outages, each variable holds what the  *)
(* page and the backend can put there.                                        *)
THEOREM TypeCorrect == Spec => []TypeOK
<1>1. StateInv => TypeOK
  BY DEF StateInv
<1> QED
  BY <1>1, StateInit, StateStep, PTL DEF Spec

(* resetBoard closes the stream it leaves, and nothing opens another one         *)
(* without filling the board: no event fills a board that was cleared.            *)
THEOREM BoardStaysClear == Spec => []ClearedIsUnfollowed
<1>1. StateInv => ClearedIsUnfollowed
  BY DEF StateInv, BoardInv, ClearedIsUnfollowed, Closed, Stream
<1> QED
  BY <1>1, StateInit, StateStep, PTL DEF Spec

-----------------------------------------------------------------------------
(* Board, stream and what is remembered: every step preserves PageInv         *)

LEMMA PageInit == Init => PageInv
<1> SUFFICES ASSUME Init PROVE OneFollowing /\ CallsFit /\ NothingRemembered /\ Agreement
  BY DEF PageInv
<1> QED
  BY MountedCalls DEF Init, OneFollowing, Following, CallsFit, NothingRemembered, Agreement

LEMMA SentCall ==
    ASSUME StateInv, NEW kind, NEW thread, Send(kind, thread)
    PROVE  \E s \in Slots : /\ call[s] = NoCall
                           /\ call'[s].kind = kind /\ call'[s].thread = thread
                           /\ \A q \in Slots \ {s} : call'[q] = call[q]
<1> DEFINE sent == [kind |-> kind, state |-> "sent", thread |-> thread, version |-> 0]
<1>1. call \in [Slots -> Call]
  BY Types DEF StateInv
<1>2. PICK s \in Slots : call[s] = NoCall /\ call' = [call EXCEPT ![s] = sent]
  BY DEF Send
<1>3. sent.kind = kind /\ sent.thread = thread
  OBVIOUS
<1> HIDE DEF sent
<1>4. call'[s] = sent /\ \A q \in Slots \ {s} : call'[q] = call[q]
  BY <1>1, <1>2
<1> QED
  BY <1>2, <1>3, <1>4

LEMMA PageUser ==
    ASSUME StateInv, PageInv, Start \/ AddCase \/ Decide \/ ResetBoard \/ Reload
    PROVE  PageInv'
<1> SUFFICES ASSUME ~overlap' PROVE (OneFollowing /\ CallsFit /\ NothingRemembered /\ Agreement)'
  BY DEF PageInv
<1> USE DEF OneFollowing, Following, CallsFit, NothingRemembered, Agreement
<1>1. call \in [Slots -> Call] /\ NoCall.kind = "none"
  BY Types DEF StateInv, NoCall
<1>2. CASE Start \/ Decide
  <2>1. ~overlap /\ \A q \in Slots : call[q].kind = "none"
    BY <1>1, <1>2 DEF Start, Decide, InFlight
  <2>2. UNCHANGED <<shown, last, stream>>
    BY <1>2 DEF Start, Decide
  <2>3. PICK s \in Slots :
          /\ \/ call'[s].kind = "start" /\ shown = Empty
             \/ call'[s].kind = "decide" /\ call'[s].thread = shown.thread /\ shown # Empty
          /\ \A q \in Slots \ {s} : call'[q] = call[q]
    <3>1. CASE Start
      <4>1. Send("start", NoThread) /\ shown = Empty
        BY <3>1 DEF Start
      <4> QED
        BY <4>1, SentCall
    <3>2. CASE Decide
      <4>1. Send("decide", shown.thread) /\ shown # Empty
        BY <3>2 DEF Decide
      <4> QED
        BY <4>1, SentCall
    <3> QED
      BY <1>2, <3>1, <3>2
  <2> QED
    BY <2>1, <2>2, <2>3 DEF PageInv
<1>3. CASE AddCase
  <2>1. PICK s \in Slots : /\ call[s] = NoCall /\ call'[s].kind = "create"
                          /\ \A q \in Slots \ {s} : call'[q] = call[q]
    BY <1>3, SentCall DEF AddCase
  <2>2. UNCHANGED <<shown, last, stream>> /\ ~overlap
    BY <1>3 DEF AddCase
  <2>3. OneFollowing /\ CallsFit /\ NothingRemembered /\ Agreement
    BY <2>2 DEF PageInv
  <2> QED
    BY <1>1, <2>1, <2>2, <2>3
<1>4. CASE ResetBoard
  <2>1. ~overlap /\ shown # Empty /\ UNCHANGED call /\ shown' = Empty /\ last' = NoThread
    BY <1>4 DEF ResetBoard
  <2> QED
    BY <2>1 DEF PageInv
<1>5. CASE Reload
  <2>1. call' = Mounted /\ shown' = Empty
    BY <1>5 DEF Reload
  <2>2. (CHOOSE x \in Slots : TRUE) \in Slots
    BY ConsoleAssumption
  <2> QED
    BY <2>1, <2>2, MountedCalls
<1> QED
  BY <1>2, <1>3, <1>4, <1>5

LEMMA PageServe ==
    ASSUME StateInv, PageInv, NEW s \in Slots, Serve(s)
    PROVE  PageInv'
<1>1. UNCHANGED <<shown, last, stream, overlap>>
  BY DEF Serve
<1>2. \A q \in Slots :
        /\ call'[q].kind = call[q].kind
        /\ call[q].kind # "start" => call'[q].thread = call[q].thread
  BY ServedCall
<1> SUFFICES ASSUME ~overlap, OneFollowing, CallsFit, NothingRemembered, Agreement
             PROVE  OneFollowing' /\ CallsFit' /\ NothingRemembered' /\ Agreement'
  BY <1>1 DEF PageInv
<1>3. OneFollowing'
  BY <1>2, Zenon DEF OneFollowing
<1>4. CallsFit'
  <2> SUFFICES ASSUME NEW q \in Slots
               PROVE  /\ call'[q].kind \in {"list", "start", "recover"} => shown = Empty
                      /\ call'[q].kind = "recover" => call'[q].thread = last
                      /\ call'[q].kind = "decide" /\ shown # Empty => shown.thread = call'[q].thread
    BY <1>1 DEF CallsFit
  <2>1. call'[q].kind = call[q].kind /\ (call[q].kind # "start" => call'[q].thread = call[q].thread)
    BY <1>2
  <2> QED
    BY <2>1 DEF CallsFit
<1>5. NothingRemembered' /\ Agreement'
  BY <1>1, <1>2 DEF NothingRemembered, Agreement
<1> QED
  BY <1>3, <1>4, <1>5

LEMMA PageReturn ==
    ASSUME StateInv, PageInv, NEW s \in Slots, Return(s)
    PROVE  PageInv'
<1> SUFFICES ASSUME ~overlap PROVE (OneFollowing /\ CallsFit /\ NothingRemembered /\ Agreement)'
  BY DEF PageInv, Return
<1>1. OneFollowing /\ CallsFit /\ NothingRemembered /\ Agreement
  BY DEF PageInv
<1> USE DEF OneFollowing, Following, CallsFit, NothingRemembered, Agreement
<1>2. \A q \in Slots \ {s} : call'[q] = call[q]
  BY RecoveryCall
<1>3. /\ call'[s].kind \in {"none", "recover"}
      /\ call'[s].kind = "recover" => call[s].kind = "list" /\ call'[s].thread = last
      /\ call[s].kind = "list" /\ last # NoThread => call'[s].kind = "recover"
  <2>1. call'[s] = Recovery(s) /\ Recovery(s).kind \in {"none", "recover"}
    BY RecoveryCall
  <2>2. Recovery(s).kind = "recover" => call[s].kind = "list" /\ Recovery(s).thread = last
    BY RecoveryCall
  <2>3. call[s].kind = "list" /\ last # NoThread => Recovery(s).kind = "recover"
    BY DEF Recovery, NoCall
  <2> QED
    BY <2>1, <2>2, <2>3
<1>4. CASE call[s].kind = "list"
  <2>1. UNCHANGED <<shown, last, stream>>
    BY <1>4 DEF Return, Answered, Followed, Failed
  <2> QED
    BY <1>1, <1>2, <1>3, <1>4, <2>1
<1>5. CASE call[s].kind \in {"create", "none"} \/ (call[s].kind \in {"start", "decide"} /\ Failed(s))
  <2>1. UNCHANGED <<shown, last, stream>>
    BY <1>5 DEF StateInv, ThreadInv, NoCall, Return, Answered, Followed, Failed
  <2> QED
    BY <1>1, <1>2, <1>3, <1>5, <2>1
<1>6. CASE call[s].kind \in {"start", "recover"} /\ Answered(s)
  <2>1. /\ shown' = Board(call[s].thread, call[s].version, "call") /\ stream'.thread = call[s].thread
        /\ last' = call[s].thread
    BY <1>1, <1>6 DEF Answered, Followed, Stream
  <2>2. \A q \in Slots : call'[q].kind \notin Following
    BY <1>1, <1>2, <1>3, <1>6
  <2> QED
    BY <2>1, <2>2, BoardNotEmpty
<1>7. CASE call[s].kind = "recover" /\ Failed(s)
  <2>1. UNCHANGED <<shown, stream>> /\ last' = NoThread
    BY <1>7 DEF Failed
  <2>2. \A q \in Slots : call'[q].kind \notin Following
    BY <1>1, <1>2, <1>3, <1>7
  <2> QED
    BY <1>1, <1>7, <2>1, <2>2
<1>8. CASE call[s].kind = "decide" /\ Answered(s)
  <2>1. /\ shown' = Board(call[s].thread, call[s].version, "call")
        /\ UNCHANGED <<stream, last>>
    BY <1>8 DEF Answered, Followed
  <2>2. \A q \in Slots : call'[q].kind \notin Following /\ call[q].kind \notin {"list", "recover"}
    BY <1>1, <1>2, <1>3, <1>8
  <2>3. shown'.thread = call[s].thread /\ shown'.by = "call" /\ shown' # Empty
    BY <2>1, BoardNotEmpty
  <2>4. CASE shown = Empty
    <3>1. last = NoThread /\ stream = Closed
      BY <1>1, <2>2, <2>4 DEF StateInv, BoardInv
    <3> QED
      BY <2>1, <2>2, <2>3, <3>1
  <2>5. CASE shown # Empty
    <3>1. shown.thread = call[s].thread
      BY <1>1, <1>8, <2>5
    <3> QED
      BY <1>1, <2>1, <2>2, <2>3, <2>5, <3>1
  <2> QED
    BY <2>4, <2>5
<1> QED
  BY <1>4, <1>5, <1>6, <1>7, <1>8, Types DEF Return, StateInv, Call

LEMMA PageStream ==
    ASSUME StateInv, PageInv, Connect \/ Refused \/ Tick \/ Receive
    PROVE  PageInv'
<1> SUFFICES ASSUME ~overlap PROVE (OneFollowing /\ CallsFit /\ NothingRemembered /\ Agreement)'
  BY DEF PageInv, Connect, Refused, Tick, Receive
<1>1. UNCHANGED <<call, last>> /\ stream # Closed
  BY DEF Connect, Refused, Tick, Receive, Closed, Stream
<1>2. shown # Empty /\ stream.thread = shown.thread /\ last = shown.thread
  BY <1>1 DEF StateInv, BoardInv, PageInv, Agreement
<1>3. stream'.thread = stream.thread
  BY Types DEF StateInv, EventSource, Connect, Refused, Tick, Receive
<1>4. shown' # Empty /\ shown'.thread = shown.thread
  BY <1>2, BoardNotEmpty DEF Connect, Refused, Tick, Receive
<1> QED
  BY <1>1, <1>2, <1>3, <1>4
     DEF PageInv, OneFollowing, Following, CallsFit, NothingRemembered, Agreement

LEMMA PageBackend ==
    ASSUME StateInv, PageInv, Advance \/ LoseConnection \/ ComeBack
    PROVE  PageInv'
<1>1. UNCHANGED <<shown, last, overlap>>
  BY DEF Advance, LoseConnection, ComeBack
<1>2. /\ \A s \in Slots : call'[s].kind = call[s].kind /\ call'[s].thread = call[s].thread
      /\ stream'.thread = stream.thread /\ (stream = Closed => stream' = Closed)
  BY LostCalls, LostStream DEF Advance, ComeBack, Closed, Stream
<1> QED
  BY <1>1, <1>2 DEF PageInv, OneFollowing, Following, CallsFit, NothingRemembered, Agreement

LEMMA PageStep == StateInv /\ PageInv /\ [Next]_vars => PageInv'
<1> SUFFICES ASSUME StateInv, PageInv, [Next]_vars PROVE PageInv'
  OBVIOUS
<1>1. CASE UNCHANGED vars
  BY <1>1 DEF vars, PageInv, OneFollowing, CallsFit, NothingRemembered, Agreement
<1> QED
  BY <1>1, PageUser, PageServe, PageReturn, PageStream, PageBackend DEF Next

(* Board, stream and localStorage speak of one thread, whatever threads,         *)
(* answers and outages there are, but for the two races OneThread names: nothing    *)
(* else can part what is shown from what is followed and remembered.               *)
THEOREM BoardsAgree == Spec => []OneThread
<1>1. PageInv => OneThread
  BY DEF PageInv, Agreement, OneThread
<1>2. StateInv /\ PageInv /\ [Next]_vars => StateInv' /\ PageInv'
  BY StateStep, PageStep
<1> QED
  BY <1>1, <1>2, StateInit, PageInit, PTL DEF Spec
=============================================================================
