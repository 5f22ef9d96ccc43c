---------------------------- MODULE RealtimeBloc ----------------------------
(***************************************************************************)
(* The bloc that owns one live connection (WebSocket or SSE) per tab and   *)
(* its log of frames, with the listener that tells it which tabs closed.   *)
(*                                                                         *)
(* Taps, timers, frames and the end of a socket's closing are turns of the *)
(* event loop; a handler runs on within its turn until it has to wait for  *)
(* a socket to close, and only there do turns interleave with it.  Whoever *)
(* waits keeps the epoch of its tab and gives up when it has moved on.     *)
(***************************************************************************)
EXTENDS Naturals, FiniteSets, SequencesExt

CONSTANTS Tabs,         \* ids of request tabs
          Cap,          \* frames a log keeps (500 in the code)
          MaxConns,     \* bound: connections opened
          MaxFrames,    \* bound: frames a server sends on a connection
          MaxEvents,    \* bound: things the user does
          Reopening,    \* may a closed tab be reopened, under its old id?
          LateBatches   \* may other turns come between a flush and its event?

ASSUME RealtimeAssumption ==
  /\ IsFiniteSet(Tabs)
  /\ Cap \in Nat \ {0} /\ MaxConns \in Nat
  /\ MaxFrames \in Nat /\ MaxEvents \in Nat
  /\ Reopening \in BOOLEAN /\ LateBatches \in BOOLEAN

Conns  == 1..MaxConns
NoConn == 0

\* The n-th frame of a connection; an error that has no connection has n = 0.
Frame == [conn : Conns \cup {NoConn}, n : Nat,
          dir : {"open", "incoming", "outgoing", "end"}]

VARIABLES open,      \* the tabs TabsBloc shows
          lastAlive, \* the listener's _lastAlive
          told,      \* tabs reported closed, and not reopened since
          reopened,  \* tabs reopened after they were reported closed
          epochs,    \* _epochs; 0 stands for no entry
          conns,     \* _connections, and the subscriptions in _subs
          pending,   \* _pending; the flush timer runs iff there is something
          batches,   \* _FramesBatchReceived events not yet delivered
          sessions,  \* state.sessions
          waiting,   \* by socket being closed, what its closer does next
          opened,    \* connections opened so far
          ended,     \* connections the server has ended
          released,  \* connections whose close() has completed
          got,       \* frames each connection has delivered
          phase,     \* of the bloc: open, closing, closed
          events     \* used up so far

tabsVars == <<open, lastAlive, told, reopened>>
wireVars == <<ended, got>>
vars == <<open, lastAlive, told, reopened, epochs, conns, pending, batches,
          sessions, waiting, opened, ended, released, got, phase, events>>

\* No tab is loaded when the listener is built; it knows those there are once
\* some other tab has been closed.
Init ==
  /\ open \in SUBSET Tabs /\ lastAlive \in {{}, open}
  /\ told = {} /\ reopened = {}
  /\ epochs  = [t \in Tabs |-> 0]
  /\ conns   = [t \in Tabs |-> NoConn]
  /\ pending = [t \in Tabs |-> <<>>]
  /\ batches = [t \in Tabs |-> <<>>]
  /\ sessions = <<>> /\ waiting = <<>>
  /\ opened = 0 /\ ended = {} /\ released = {}
  /\ got = [c \in Conns |-> 0]
  /\ phase = "open" /\ events = 0

-----------------------------------------------------------------------------
(* Sessions and logs. *)

NoSession == [connected |-> FALSE, frames |-> <<>>]

SessionFor(t) == IF t \in DOMAIN sessions THEN sessions[t] ELSE NoSession

\* Nothing is emitted any more once the bloc is closed.
Emit(next) == sessions' = IF phase = "closed" THEN sessions ELSE next

\* A map with the value of one key set.
Put(map, key, value) ==
  [k \in DOMAIN map \cup {key} |-> IF k = key THEN value ELSE map[k]]

WithSession(t, session) == Put(sessions, t, session)

Without(ts) == [t \in DOMAIN sessions \ ts |-> sessions[t]]

\* Mutant: the cap keeps the oldest frames.
CappedOldest(frames) ==
  IF Len(frames) <= Cap THEN frames ELSE SubSeq(frames, 1, Cap)

\* _capped keeps the newest frames.
Capped(frames) ==
  IF Len(frames) <= Cap THEN frames
  ELSE SubSeq(frames, Len(frames) - Cap + 1, Len(frames))

\* Mutant: a batch is taken whatever happened since it was flushed.
AlwaysCurrent(t, epoch) == TRUE

\* Has no teardown happened since the epoch was read?
Current(t, epoch) == epochs[t] = epoch

Bumped(t) == [epochs EXCEPT ![t] = @ + 1]

ConnectError == [conn |-> NoConn, n |-> 0, dir |-> "end"]

-----------------------------------------------------------------------------
(* What a handler does after its await, kept with the socket it closes. *)

Connecting(t)        == [kind |-> "connect", tab |-> t, epoch |-> epochs[t] + 1]
Disconnecting(t)     == [kind |-> "disconnect", tab |-> t,
                         epoch |-> epochs[t] + 1, kept |-> pending[t]]
Closing(all, t, rest) == [kind |-> "tabs", all |-> all, tab |-> t, rest |-> rest]
Quitting(rest)       == [kind |-> "quit", rest |-> rest]

Others(c) == [d \in DOMAIN waiting \ {c} |-> waiting[d]]

\* _teardown of a tab that has a connection: the epoch moves on, frames and
\* subscription go, and the task waits for the socket.
Park(t, task) ==
  /\ conns[t] # NoConn
  /\ epochs'  = Bumped(t)
  /\ conns'   = [conns EXCEPT ![t] = NoConn]
  /\ pending' = [pending EXCEPT ![t] = <<>>]
  /\ waiting' = Put(waiting, conns[t], task)

\* The rest of _onConnect: a new connection, its subscription and a fresh
\* session; the connection announces itself in a microtask of the same turn,
\* behind the frames that are pending.
Establish(t, before) ==
  /\ opened < MaxConns
  /\ opened' = opened + 1
  /\ conns' = [conns EXCEPT ![t] = opened + 1]
  /\ got' = [got EXCEPT ![opened + 1] = 1]
  /\ pending' = [pending EXCEPT ![t] =
       Append(before, [conn |-> opened + 1, n |-> 1, dir |-> "open"])]
  /\ Emit(WithSession(t, [connected |-> TRUE, frames |-> <<>>]))

\* The connector throws: an error entry at the end of the log there was.
Refuse(t, before) ==
  /\ Emit(WithSession(t, [connected |-> FALSE,
       frames |-> Capped(Append(SessionFor(t).frames, ConnectError))]))
  /\ pending' = [pending EXCEPT ![t] = before]
  /\ UNCHANGED <<conns, opened, got>>

\* The rest of _onDisconnect: the frames kept go to the end of the log.
Reset(t, kept) ==
  Emit(WithSession(t, [connected |-> FALSE,
    frames |-> Capped(SessionFor(t).frames \o kept)]))

\* Mutant: tabs without a connection are not torn down, so that a connect
\* that waits is not cancelled.
CloseRestConnected(all, rest, es, others) ==
  LET stop == SelectInSeq(rest, LAMBDA t : conns[t] # NoConn)
  IN  IF stop = 0
      THEN /\ epochs' = es
           /\ waiting' = others
           /\ Emit(Without(all))
           /\ UNCHANGED <<conns, pending>>
      ELSE LET t == rest[stop]
           IN  /\ epochs' = [es EXCEPT ![t] = @ + 1]
               /\ conns' = [conns EXCEPT ![t] = NoConn]
               /\ pending' = [pending EXCEPT ![t] = <<>>]
               /\ waiting' = Put(others, conns[t],
                    Closing(all, t, SubSeq(rest, stop + 1, Len(rest))))
               /\ UNCHANGED sessions

\* The loop of _onTabsClosed over the tabs left of those that closed: it runs
\* on to the first that has a connection, the epochs of those it has passed
\* removed, or to its end, where the sessions of all of them go.
CloseRest(all, rest, es, others) ==
  LET stop   == SelectInSeq(rest, LAMBDA t : conns[t] # NoConn)
      passed == ToSet(IF stop = 0 THEN rest ELSE SubSeq(rest, 1, stop - 1))
      left   == [t \in Tabs |-> IF t \in passed THEN 0 ELSE es[t]]
  IN  IF stop = 0
      THEN /\ epochs' = left
           /\ waiting' = others
           /\ Emit(Without(all))
           /\ UNCHANGED <<conns, pending>>
      ELSE LET t == rest[stop]
           IN  /\ epochs' = [left EXCEPT ![t] = @ + 1]
               /\ conns' = [conns EXCEPT ![t] = NoConn]
               /\ pending' = [pending EXCEPT ![t] = <<>>]
               /\ waiting' = Put(others, conns[t],
                    Closing(all, t, SubSeq(rest, stop + 1, Len(rest))))
               /\ UNCHANGED sessions

\* The loop of close() over the connections there were; the bloc is closed
\* when it ends.
QuitRest(rest, others) ==
  IF rest = <<>>
  THEN phase' = "closed" /\ waiting' = others
  ELSE /\ phase' = "closing"
       /\ waiting' = Put(others, Head(rest), Quitting(Tail(rest)))

-----------------------------------------------------------------------------
(* What the user does. *)

Acts == phase = "open" /\ events < MaxEvents /\ events' = events + 1

\* The button shows CONNECT.
Connect(t) ==
  /\ Acts /\ t \in open /\ ~SessionFor(t).connected
  /\ \/ /\ Park(t, Connecting(t))
        /\ UNCHANGED <<sessions, opened, got>>
     \/ /\ conns[t] = NoConn
        /\ epochs' = Bumped(t)
        /\ Establish(t, <<>>) \/ Refuse(t, <<>>)
        /\ UNCHANGED waiting
  /\ UNCHANGED <<tabsVars, batches, ended, released, phase>>

\* The button shows DISCONNECT: the frames not flushed yet are kept for the
\* log, which gets them once the socket has closed.
Disconnect(t) ==
  /\ Acts /\ t \in open /\ SessionFor(t).connected
  /\ \/ Park(t, Disconnecting(t)) /\ UNCHANGED sessions
     \/ /\ conns[t] = NoConn
        /\ epochs' = Bumped(t)
        /\ Reset(t, pending[t])
        /\ pending' = [pending EXCEPT ![t] = <<>>]
        /\ UNCHANGED <<conns, waiting>>
  /\ UNCHANGED <<tabsVars, batches, opened, wireVars, released, phase>>

\* The connection logs what it sends; without one the event does nothing.
SendRealtimeMessage(t) ==
  /\ Acts /\ t \in open /\ SessionFor(t).connected
  /\ conns[t] # NoConn
  /\ LET c == conns[t]
     IN  /\ got' = [got EXCEPT ![c] = @ + 1]
         /\ pending' = [pending EXCEPT ![t] =
              Append(@, [conn |-> c, n |-> got[c] + 1, dir |-> "outgoing"])]
  /\ UNCHANGED <<tabsVars, epochs, conns, batches, sessions, waiting, opened,
                 ended, released, phase>>

\* A tab shows up: the session is loaded, a tab is added, or one is reopened
\* that the bloc was not told of.
OpenTab(t) ==
  /\ phase = "open" /\ t \notin open \cup told
  /\ open' = open \cup {t}
  /\ UNCHANGED <<lastAlive, told, reopened, epochs, conns, pending, batches, sessions,
                 waiting, opened, wireVars, released, phase, events>>

\* A tab that was reported closed comes back under its id.
ReopenTab(t) ==
  /\ Acts /\ Reopening /\ t \in told
  /\ open' = open \cup {t}
  /\ told' = told \ {t}
  /\ reopened' = reopened \cup {t}
  /\ UNCHANGED <<lastAlive, epochs, conns, pending, batches, sessions,
                 waiting, opened, wireVars, released, phase>>

\* Tabs disappear from the state of TabsBloc.  The listener compares what is
\* left with what it saw the last time a tab disappeared, and dispatches
\* RealtimeTabsClosed, in whatever order its set has them.
CloseTabs(ts) ==
  /\ Acts /\ ts \subseteq open /\ ts # {}
  /\ open' = open \ ts
  /\ lastAlive' = open'
  /\ LET noticed == lastAlive \ open'
     IN  /\ told' = told \cup noticed
         /\ \E rest \in SetToSeqs(noticed) :
              IF rest = <<>>
              THEN UNCHANGED <<epochs, conns, pending, sessions, waiting>>
              ELSE CloseRest(noticed, rest, epochs, waiting)
  /\ UNCHANGED <<reopened, batches, opened, wireVars, released, phase>>

\* The bloc is closed with the widget tree: timers and subscriptions go, and
\* the sockets are closed one after the other.
CloseBloc ==
  /\ Acts
  /\ pending' = [t \in Tabs |-> <<>>]
  /\ conns' = [t \in Tabs |-> NoConn]
  /\ \E rest \in SetToSeqs({conns[t] : t \in Tabs} \ {NoConn}) :
       QuitRest(rest, waiting)
  /\ UNCHANGED <<tabsVars, epochs, batches, sessions, opened, wireVars, released>>

-----------------------------------------------------------------------------
(* What the sockets and the timer do. *)

Deliver(t, dir) ==
  LET c == conns[t]
  IN  /\ c \in Conns \ ended
      /\ got' = [got EXCEPT ![c] = @ + 1]
      /\ pending' = [pending EXCEPT
           ![t] = Append(@, [conn |-> c, n |-> got[c] + 1, dir |-> dir])]
      /\ UNCHANGED <<tabsVars, epochs, conns, batches, sessions, waiting,
                     opened, released, phase, events>>

ServerFrame(t) ==
  /\ conns[t] # NoConn /\ got[conns[t]] <= MaxFrames
  /\ Deliver(t, "incoming")
  /\ UNCHANGED ended

\* The stream is done, with a close or an error frame as its last.
ServerEnds(t) ==
  /\ Deliver(t, "end")
  /\ ended' = ended \cup {conns[t]}

\* The timer of _bufferFrame: the frames leave as one event, with the epoch.
FlushTimer(t) ==
  /\ pending[t] # <<>> /\ phase # "closed"
  /\ batches' = [batches EXCEPT
       ![t] = Append(@, [frames |-> pending[t], epoch |-> epochs[t]])]
  /\ pending' = [pending EXCEPT ![t] = <<>>]
  /\ UNCHANGED <<tabsVars, epochs, conns, sessions, waiting, opened, wireVars,
                 released, phase, events>>

\* _onFramesBatch, then _appendFrames: the last frame says whether the tab is
\* connected.
FramesBatchReceived(t) ==
  /\ batches[t] # <<>>
  /\ batches' = [batches EXCEPT ![t] = Tail(@)]
  /\ LET batch == Head(batches[t])
     IN  \/ /\ Current(t, batch.epoch)
            /\ Emit(WithSession(t, [connected |-> Last(batch.frames).dir # "end",
                 frames |-> Capped(SessionFor(t).frames \o batch.frames)]))
         \/ ~Current(t, batch.epoch) /\ UNCHANGED sessions
  /\ UNCHANGED <<tabsVars, epochs, conns, pending, waiting, opened, wireVars,
                 released, phase, events>>

-----------------------------------------------------------------------------
(* A socket has closed, and the handler that closed it goes on. *)

Closed(c) == released' = released \cup {c} /\ UNCHANGED <<tabsVars, batches, ended, events>>

IsTask(c, kind) == c \in DOMAIN waiting /\ waiting[c].kind = kind

\* Mutant: a handler goes on after its await whatever happened meanwhile.
GoesOnAnyway(c) == phase # "closed"

\* Has no other handler torn the tab down, and is the bloc still there?
GoesOn(c) == phase # "closed" /\ Current(waiting[c].tab, waiting[c].epoch)

ResumeConnect(c) ==
  /\ IsTask(c, "connect") /\ GoesOn(c)
  /\ LET t == waiting[c].tab
     IN  Establish(t, pending[t]) \/ Refuse(t, pending[t])
  /\ waiting' = Others(c)
  /\ Closed(c) /\ UNCHANGED <<epochs, phase>>

ResumeDisconnect(c) ==
  /\ IsTask(c, "disconnect") /\ GoesOn(c)
  /\ Reset(waiting[c].tab, waiting[c].kept)
  /\ waiting' = Others(c)
  /\ Closed(c) /\ UNCHANGED <<epochs, conns, pending, opened, got, phase>>

\* A later teardown owns the tab.
GiveUp(c) ==
  /\ IsTask(c, "connect") \/ IsTask(c, "disconnect")
  /\ ~GoesOn(c)
  /\ waiting' = Others(c)
  /\ Closed(c)
  /\ UNCHANGED <<epochs, conns, pending, sessions, opened, got, phase>>

\* The epoch of the tab torn down is removed, and the loop goes on.
ResumeTabsClosed(c) ==
  /\ IsTask(c, "tabs")
  /\ LET task == waiting[c]
     IN  CloseRest(task.all, task.rest, [epochs EXCEPT ![task.tab] = 0], Others(c))
  /\ Closed(c) /\ UNCHANGED <<opened, got, phase>>

ResumeQuit(c) ==
  /\ IsTask(c, "quit")
  /\ QuitRest(waiting[c].rest, Others(c))
  /\ Closed(c) /\ UNCHANGED <<epochs, conns, pending, sessions, opened, got>>

SocketClosed(c) ==
  \/ ResumeConnect(c) \/ ResumeDisconnect(c) \/ GiveUp(c)
  \/ ResumeTabsClosed(c) \/ ResumeQuit(c)

-----------------------------------------------------------------------------

User ==
  \/ \E t \in Tabs : \/ Connect(t) \/ Disconnect(t) \/ SendRealtimeMessage(t)
                     \/ OpenTab(t) \/ ReopenTab(t)
  \/ \E ts \in SUBSET Tabs : CloseTabs(ts)
  \/ CloseBloc

Wire == \/ \E t \in Tabs : ServerFrame(t) \/ ServerEnds(t) \/ FlushTimer(t)
        \/ \E c \in Conns : SocketClosed(c)

\* Dart delivers an event in the turn that adds it: no other turn comes first
\* unless LateBatches says so.
Prompt == LateBatches \/ \A t \in Tabs : batches[t] = <<>>

Next ==
  \/ \E t \in Tabs : FramesBatchReceived(t)
  \/ Prompt /\ (User \/ Wire)

Spec == Init /\ [][Next]_vars

\* Timers fire, events are delivered and sockets finish closing.
FairSpec ==
  /\ Spec
  /\ \A t \in Tabs : WF_vars(FlushTimer(t)) /\ WF_vars(FramesBatchReceived(t))
  /\ \A c \in Conns : WF_vars(SocketClosed(c))

-----------------------------------------------------------------------------
(* Properties. *)

Task ==
  [kind : {"connect"}, tab : Tabs, epoch : Nat]
  \cup [kind : {"disconnect"}, tab : Tabs, epoch : Nat, kept : Seq(Frame)]
  \cup [kind : {"tabs"}, all : SUBSET Tabs, tab : Tabs, rest : Seq(Tabs)]
  \cup [kind : {"quit"}, rest : Seq(Conns)]

\* Every variable holds a value of its type; no log outgrows its cap.
TypeOK ==
  /\ open \subseteq Tabs /\ lastAlive \subseteq Tabs
  /\ told \subseteq Tabs /\ reopened \subseteq Tabs
  /\ epochs \in [Tabs -> Nat]
  /\ conns \in [Tabs -> Conns \cup {NoConn}]
  /\ pending \in [Tabs -> Seq(Frame)]
  /\ batches \in [Tabs -> Seq([frames : Seq(Frame), epoch : Nat])]
  /\ DOMAIN sessions \subseteq Tabs
  /\ \A t \in DOMAIN sessions :
       /\ sessions[t] \in [connected : BOOLEAN, frames : Seq(Frame)]
       /\ Len(sessions[t].frames) <= Cap
  /\ DOMAIN waiting \subseteq Conns
  /\ \A c \in DOMAIN waiting : waiting[c] \in Task
  /\ opened \in 0..MaxConns
  /\ ended \subseteq Conns /\ released \subseteq Conns
  /\ got \in [Conns -> Nat]
  /\ phase \in {"open", "closing", "closed"} /\ events \in Nat

Stored    == {conns[t] : t \in Tabs} \ {NoConn}
InClosing == DOMAIN waiting \cup
             UNION {ToSet(waiting[c].rest) :
                      c \in {d \in DOMAIN waiting : IsTask(d, "quit")}}

\* No socket leaks, however connects, disconnects and closings overtake each
\* other: a connection once opened is the one its tab has, or is being closed,
\* or has been ("stops a slow first CONNECT from overwriting a second
\* CONNECT's live connection").
AllAccountedFor == 1..opened \subseteq Stored \cup InClosing \cup released

\* The same as long as no tab that was reported closed has been reopened.
NoLeak == reopened = {} => AllAccountedFor

\* The frames of each batch of tab t that is still to be taken.
Waited(t) ==
  [i \in DOMAIN batches[t] |-> IF Current(t, batches[t][i].epoch)
                              THEN batches[t][i].frames ELSE <<>>]

\* All that has arrived and is to appear in the log of tab t.
Arrived(t) == SessionFor(t).frames \o FlattenSeq(Waited(t)) \o pending[t]

\* The log of a connected tab shows the newest frames of this connection, in
\* order and without a gap, once the frames buffered for it are added; none of
\* an earlier connection is among them.
NothingLost ==
  \A t \in Tabs \ reopened : conns[t] # NoConn /\ phase # "closed" =>
    LET frames == Capped(Arrived(t))
        count  == got[conns[t]]
    IN  /\ Len(frames) = IF count <= Cap THEN count ELSE Cap
        /\ \A i \in DOMAIN frames :
             /\ frames[i].conn = conns[t]
             /\ frames[i].n = count - Len(frames) + i

\* While a connection lives, its tab is shown connected, so that it can be
\* disconnected: no handler that was overtaken writes over the session.
LiveIsShown ==
  \A t \in open \ reopened :
    phase = "open" /\ conns[t] \in Conns \ ended => SessionFor(t).connected

\* A tab reported closed leaves nothing behind: until the loop over the closed
\* tabs has ended it still may, and then neither connection, session nor epoch
\* is left, and none comes back while the
\* tab is not reopened.
ReportedTabsForgotten ==
  \A t \in told \ reopened :
    \/ \E c \in DOMAIN waiting : IsTask(c, "tabs") /\ t \in waiting[c].all
    \/ phase # "open"
    \/ conns[t] = NoConn /\ t \notin DOMAIN sessions /\ epochs[t] = 0

\* Shown connected, without a connection.
Ghost(t) == SessionFor(t).connected /\ conns[t] = NoConn

\* A tab is not shown connected for ever when its connection is gone: the
\* handler that closes it, or the one that overtook it, says so in the end.
GhostsVanish ==
  \A t \in Tabs :
    Ghost(t) ~> (~Ghost(t) \/ phase # "open" \/ t \in reopened)

\* Closing a tab tears down its connection ("dispatches RealtimeTabsClosed
\* with EVERY closed id").
ClosedTabsTornDown ==
  \A t \in Tabs \ open :
    \/ conns[t] = NoConn
    \/ \E c \in DOMAIN waiting : IsTask(c, "tabs") /\ t \in ToSet(waiting[c].rest)

\* Disconnecting keeps the frames that arrived before it: the log of a tab
\* that was disconnected ends with the last frame of its connection.
DisconnectKeepsFrames ==
  \A t \in open :
    LET frames == SessionFor(t).frames
    IN  /\ phase = "open" /\ conns[t] = NoConn /\ ~SessionFor(t).connected
        /\ \A c \in DOMAIN waiting : ~IsTask(c, "tabs") /\ waiting[c].tab # t
        /\ frames # <<>> /\ Last(frames).conn # NoConn
        => Last(frames).n = got[Last(frames).conn]

\* A connection that the server has ended is not shown as connected once its
\* frames are in the log (its close frame makes the session disconnected).
EndedNotShown ==
  \A t \in open :
    /\ conns[t] \in ended /\ pending[t] = <<>> /\ batches[t] = <<>>
    => ~SessionFor(t).connected

\* Closing the bloc closes every connection.
QuitClosesSockets == phase = "closed" => 1..opened \subseteq InClosing \cup released
=============================================================================
