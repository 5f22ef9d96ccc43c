-------------------------- MODULE StorageConnection --------------------------
(***************************************************************************)
(* The connection to the storage worker (storage_connection_io.dart): the  *)
(* calls and watches of the UI isolate, the loop of the worker, the ports  *)
(* between them, and a worker that may die at any moment.                  *)
(***************************************************************************)
EXTENDS Naturals, Sequences

CONSTANTS Call, Watch, NoId, MaxDeaths, MaxEvents

ASSUME ConnectionAssumption ==
  NoId \notin Call \cup Watch /\ MaxDeaths \in Nat /\ MaxEvents \in Nat

VARIABLES
  phase,      \* of start(): starting, open, failed
  closing,    \* _closing: none, waiting, returned
  disposed,   \* _disposed; the directory is in _activeDirectories until then
  answer,     \* of each call: unused, pending (it is in _pending), or what it got
  stream,     \* of each watch: unused, listening (it is in _streams), ended
  commands,   \* the port of the worker
  responses,  \* the port of the UI isolate
  worker,     \* starting, serving, ended (its loop is over), exited
  subscribed, \* subscriptions of the worker
  sent, served, applied,  \* calls put into the port, in order; taken out of it,
                          \* in order; those that took effect
  deaths, events  \* of the worker, left; events of watched boxes, left

uiVars     == <<phase, closing, disposed, answer, stream, sent>>
workerVars == <<worker, subscribed, served, applied, deaths, events>>
vars       == <<uiVars, workerVars, commands, responses>>

Message(kind, id) == [kind |-> kind, id |-> id]
CloseCommand == Message("close", NoId)

Commands  == [kind : {"call", "watch", "unwatch", "close"}, id : Call \cup Watch \cup {NoId}]
Responses == [kind : {"ready", "value", "error", "event", "closed", "notClosed", "died"},
              id : Call \cup Watch \cup {NoId}]

TypeOK ==
  /\ phase \in {"starting", "open", "failed"}
  /\ closing \in {"none", "waiting", "returned"}
  /\ disposed \in BOOLEAN
  /\ answer \in [Call -> {"unused", "pending", "value", "error", "refused"}]
  /\ stream \in [Watch -> {"unused", "listening", "ended"}]
  /\ commands \in Seq(Commands)
  /\ responses \in Seq(Responses)
  /\ worker \in {"starting", "serving", "ended", "exited"}
  /\ subscribed \subseteq Watch
  /\ sent \in Seq(Call) /\ served \in Seq(Call) /\ applied \subseteq Call
  /\ deaths \in 0..MaxDeaths /\ events \in 0..MaxEvents

Init ==
  /\ phase = "starting" /\ closing = "none" /\ disposed = FALSE
  /\ answer = [c \in Call |-> "unused"]
  /\ stream = [w \in Watch |-> "unused"]
  /\ commands = <<>> /\ responses = <<>>
  /\ worker = "starting"
  /\ subscribed = {}
  /\ sent = <<>> /\ served = <<>> /\ applied = {}
  /\ deaths = MaxDeaths /\ events = MaxEvents

Open   == ~disposed /\ closing = "none"
Alive  == worker \in {"starting", "serving"}

\* SendPort.send: nobody reads the port of a worker that is gone.
Send(m) == commands' = IF Alive THEN Append(commands, m) ELSE commands

-----------------------------------------------------------------------------
(* The UI isolate. *)

\* A value that cannot be sent is refused like a call that comes too late.
Refuse(c) ==
  /\ answer' = [answer EXCEPT ![c] = "refused"]
  /\ UNCHANGED <<commands, sent>>

Invoke(c) ==
  /\ phase = "open" /\ answer[c] = "unused"
  /\ \/ Refuse(c)
     \/ /\ Open
        /\ answer' = [answer EXCEPT ![c] = "pending"]
        /\ Send(Message("call", c))
        /\ sent' = Append(sent, c)
  /\ UNCHANGED <<phase, closing, disposed, stream, workerVars, responses>>

\* onListen
Listen(w) ==
  /\ phase = "open" /\ stream[w] = "unused"
  /\ stream' = [stream EXCEPT ![w] = IF Open THEN "listening" ELSE "ended"]
  /\ IF Open THEN Send(Message("watch", w)) ELSE UNCHANGED commands
  /\ UNCHANGED <<phase, closing, disposed, answer, sent, workerVars, responses>>

\* onCancel
CancelListening(w) ==
  /\ stream[w] = "listening"
  /\ stream' = [stream EXCEPT ![w] = "ended"]
  /\ IF Open THEN Send(Message("unwatch", w)) ELSE UNCHANGED commands
  /\ UNCHANGED <<phase, closing, disposed, answer, sent, workerVars, responses>>

Dispose ==
  /\ disposed' = TRUE
  /\ responses' = <<>>
  /\ stream' = [w \in Watch |-> IF stream[w] = "listening" THEN "ended" ELSE stream[w]]

\* Mutant: the calls in flight are forgotten.
FailedNone == answer

\* Every pending call gets the error.
Failed == [c \in Call |-> IF answer[c] = "pending" THEN "error" ELSE answer[c]]

\* Mutant: close() does not wait for the worker.
CloseAtOnce ==
  /\ phase = "open" /\ closing = "none"
  /\ closing' = "returned"
  /\ answer' = Failed
  /\ Dispose
  /\ UNCHANGED <<phase, sent, workerVars, commands>>

\* close(); a second one gets the future of the first.
Close ==
  /\ phase = "open" /\ closing = "none"
  /\ IF disposed
     THEN closing' = "returned" /\ UNCHANGED commands
     ELSE closing' = "waiting" /\ Send(CloseCommand)
  /\ UNCHANGED <<phase, disposed, answer, stream, sent, workerVars, responses>>

\* _pending.remove(id), which may find nothing.
Settled(m) ==
  IF m.id \in Call /\ answer[m.id] = "pending" THEN [answer EXCEPT ![m.id] = m.kind]
                                               ELSE answer

Receive ==
  LET m == Head(responses)
  IN  /\ responses # <<>> /\ m.kind \in {"ready", "event", "value", "error"}
      /\ responses' = Tail(responses)
      /\ CASE m.kind = "ready" -> phase' = "open" /\ UNCHANGED answer
           [] m.kind = "event" -> UNCHANGED <<phase, answer>>
           [] m.kind \in {"value", "error"} ->
                answer' = Settled(m) /\ UNCHANGED phase
      /\ UNCHANGED <<closing, disposed, stream, sent, workerVars, commands>>

\* The answer to close, good or bad, and the finally block of _close.
ReceiveClosed ==
  /\ responses # <<>> /\ Head(responses).kind \in {"closed", "notClosed"}
  /\ closing' = "returned"
  /\ Dispose
  /\ UNCHANGED <<phase, answer, sent, workerVars, commands>>

\* Mutant: start() is told of its worker only.
StartedAnyway == phase

\* start() fails if it waits still.
StartEnded == IF phase = "starting" THEN "failed" ELSE phase

\* The worker stopped or failed: onExit, or onError and then onExit, of which
\* the second is not heard any more.
ReceiveDied ==
  /\ responses # <<>> /\ Head(responses).kind = "died"
  /\ phase' = StartEnded
  /\ closing' = IF closing = "waiting" THEN "returned" ELSE closing
  /\ answer' = Failed
  /\ Dispose
  /\ UNCHANGED <<sent, workerVars, commands>>

-----------------------------------------------------------------------------
(* The worker. *)

\* What the UI isolate has disposed of hears nothing any more.
Reply(m) == responses' = IF disposed THEN <<>> ELSE Append(responses, m)

\* The boxes are open.
Ready ==
  /\ worker = "starting"
  /\ worker' = "serving"
  /\ Reply(Message("ready", NoId))
  /\ UNCHANGED <<uiVars, subscribed, served, applied, deaths, events, commands>>

Take(kind) ==
  /\ worker = "serving" /\ commands # <<>> /\ Head(commands).kind = kind
  /\ commands' = Tail(commands)

\* Mutant: commands are not awaited, their answers come in any order.
ServeUnawaited ==
  \E i \in DOMAIN commands :
    LET c == commands[i].id
    IN  /\ worker = "serving" /\ commands[i].kind = "call"
        /\ commands' = SubSeq(commands, 1, i - 1) \o SubSeq(commands, i + 1, Len(commands))
        /\ served' = Append(served, c)
        /\ applied' = applied \cup {c} /\ Reply(Message("value", c))
        /\ UNCHANGED <<uiVars, worker, subscribed, deaths, events>>

\* A command is executed, or throws, and is answered.
Serve ==
  LET c == Head(commands).id
  IN  /\ Take("call")
      /\ served' = Append(served, c)
      /\ \/ applied' = applied \cup {c} /\ Reply(Message("value", c))
         \/ UNCHANGED applied /\ Reply(Message("error", c))
      /\ UNCHANGED <<uiVars, worker, subscribed, deaths, events>>

ServeWatch ==
  /\ Take("watch")
  /\ subscribed' = subscribed \cup {Head(commands).id}
  /\ UNCHANGED <<uiVars, worker, served, applied, deaths, events, responses>>

\* Cancelling may throw, which is answered as if it had been a call.
ServeUnwatch ==
  /\ Take("unwatch")
  /\ subscribed' = subscribed \ {Head(commands).id}
  /\ UNCHANGED responses \/ Reply(Message("error", Head(commands).id))
  /\ UNCHANGED <<uiVars, worker, served, applied, deaths, events>>

\* The boxes are closed and the loop ends; if that fails it goes on.
ServeClose ==
  /\ Take("close")
  /\ subscribed' = {}
  /\ \/ worker' = "ended" /\ Reply(Message("closed", NoId))
     \/ UNCHANGED worker /\ Reply(Message("notClosed", NoId))
  /\ UNCHANGED <<uiVars, served, applied, deaths, events>>

\* A watched box changes.
Emit(w) ==
  /\ Alive /\ w \in subscribed /\ events > 0
  /\ events' = events - 1
  /\ Reply(Message("event", w))
  /\ UNCHANGED <<uiVars, worker, subscribed, served, applied, deaths, commands>>

\* The worker dies, perhaps having executed what it was at.
Die ==
  /\ Alive /\ deaths > 0
  /\ deaths' = deaths - 1
  /\ worker' = "exited"
  /\ \/ UNCHANGED applied
     \/ /\ worker = "serving" /\ commands # <<>> /\ Head(commands).kind = "call"
        /\ applied' = applied \cup {Head(commands).id}
  /\ commands' = <<>>
  /\ Reply(Message("died", NoId))
  /\ UNCHANGED <<uiVars, subscribed, served, events>>

\* Its loop is over, or dispose() killed it.
Exit ==
  /\ worker = "ended" \/ (Alive /\ disposed)
  /\ worker' = "exited"
  /\ commands' = <<>>
  /\ Reply(Message("died", NoId))
  /\ UNCHANGED <<uiVars, subscribed, served, applied, deaths, events>>

-----------------------------------------------------------------------------
UI == Receive \/ ReceiveClosed \/ ReceiveDied

Worker == Ready \/ Serve \/ ServeWatch \/ ServeUnwatch \/ ServeClose

Next ==
  \/ UI \/ Worker \/ Die \/ Exit \/ Close
  \/ \E c \in Call : Invoke(c)
  \/ \E w \in Watch : Listen(w) \/ CancelListening(w) \/ Emit(w)

Spec == Init /\ [][Next]_vars

\* The worker works while it lives, and the UI isolate reads its port.
FairSpec == Spec /\ WF_vars(UI) /\ WF_vars(Worker) /\ WF_vars(Exit)

-----------------------------------------------------------------------------
(* Properties. *)

\* "FIFO commands preserve read/write ordering": commands take effect in the
\* order of the calls, and a call that is answered with a value has taken effect.
FirstComeFirstServed ==
  /\ Len(served) <= Len(sent) /\ \A i \in DOMAIN served : served[i] = sent[i]
  /\ \A c \in Call : answer[c] = "value" => c \in applied

\* "Closing drains accepted commands": when the connection is disposed of,
\* however that comes, no caller is left waiting and no listener listening.
NobodyLeftBehind ==
  disposed => /\ \A c \in Call : answer[c] # "pending"
              /\ \A w \in Watch : stream[w] # "listening"
              /\ closing # "waiting"

\* From then on the directory may be opened again, although the old worker may
\* live a little longer: it does not write any more.
DisposedMeansQuiet == [][disposed => applied' = applied]_vars

\* "Fails pending calls instead of hanging the UI": every call is answered,
\* start() ends, and so does close().
EveryCallAnswered ==
  /\ \A c \in Call : answer[c] = "pending" ~> answer[c] # "pending"
  /\ <>(phase # "starting")
  /\ closing = "waiting" ~> closing = "returned"
=============================================================================
