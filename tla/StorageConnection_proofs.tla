----------------------- MODULE StorageConnection_proofs -----------------------
(***************************************************************************)
(* Proofs about StorageConnection, for any calls and watches and any       *)
(* number of deaths: type correctness, the order of commands, that nobody  *)
(* is left behind, and that a connection that was disposed of is quiet.    *)
(***************************************************************************)
EXTENDS StorageConnection, SequenceTheorems, TLAPS

Ends == {"closed", "notClosed"}

\* Who is named by a message.
Shapes ==
  /\ \A i \in DOMAIN commands :
       /\ commands[i].kind = "call" => commands[i].id \in Call
       /\ commands[i].kind \in {"watch", "unwatch"} => commands[i].id \in Watch
  /\ \A j \in DOMAIN responses :
       responses[j].kind = "value" => responses[j].id \in applied

\* Nothing is sent after close, and its answer finds nothing left to do.
CloseComesLast ==
  /\ \A i \in DOMAIN commands :
       commands[i].kind = "close" => i = Len(commands) /\ closing # "none"
  /\ \A j \in DOMAIN responses :
       responses[j].kind \in Ends => closing # "none" /\ commands = <<>>

\* What a worker that is gone leaves.
Gone ==
  /\ ~Alive => commands = <<>>
  /\ worker = "ended" => closing # "none"
  /\ \A j \in DOMAIN responses : responses[j].kind = "died" => worker = "exited"
  /\ worker = "exited" /\ ~disposed => \E j \in DOMAIN responses : responses[j].kind = "died"

\* f[i] calls have been sent up to the i-th command that waits.
Counts(f) ==
  /\ f[0] = Len(served) /\ f[Len(commands)] = Len(sent)
  /\ \A i, j \in 0..Len(commands) : i <= j => f[i] <= f[j]
  /\ \A i \in DOMAIN commands :
       /\ commands[i].kind = "call" => f[i] = f[i - 1] + 1 /\ sent[f[i]] = commands[i].id
       /\ commands[i].kind # "call" => f[i] = f[i - 1]

\* The calls that wait are those that were sent and not served, in order.
Ordered ==
  /\ Len(served) <= Len(sent)
  /\ \A i \in DOMAIN served : served[i] = sent[i]
  /\ Alive => \E f \in [0..Len(commands) -> Nat] : Counts(f)

Asked(c) == \E i \in DOMAIN commands : commands[i] = Message("call", c)

Replied(c) ==
  \E j \in DOMAIN responses :
    /\ responses[j].kind \in {"value", "error"} /\ responses[j].id = c
    /\ \A k \in DOMAIN responses : k < j => responses[k].kind \notin Ends

Dying ==
  /\ \E j \in DOMAIN responses : responses[j].kind = "died"
  /\ \A j \in DOMAIN responses : responses[j].kind \notin Ends

\* A call that waits is still to be served, or its answer is on the way, or the
\* death of the worker is.
Awaited ==
  /\ \A c \in Call : answer[c] = "pending" => Asked(c) \/ Replied(c) \/ Dying
  /\ \A c \in Call : answer[c] = "value" => c \in applied

Quiet ==
  disposed => commands = <<>> /\ responses = <<>>

IInv ==
  TypeOK /\ Shapes /\ CloseComesLast /\ Gone /\ Ordered /\ Awaited /\ Quiet /\ NobodyLeftBehind

-----------------------------------------------------------------------------
(* Sequences. *)

\* What appending leaves where.
LEMMA Appended ==
  ASSUME NEW S, NEW s \in Seq(S), NEW m \in S
  PROVE  /\ Append(s, m) \in Seq(S)
         /\ Len(s) \in Nat /\ Len(Append(s, m)) = Len(s) + 1
         /\ DOMAIN s = 1..Len(s) /\ DOMAIN Append(s, m) = 1..(Len(s) + 1)
         /\ \A i \in 1..Len(s) : Append(s, m)[i] = s[i]
         /\ Append(s, m)[Len(s) + 1] = m
  BY AppendProperties, LenProperties

\* What taking the first element leaves where.
LEMMA Dequeued ==
  ASSUME NEW S, NEW s \in Seq(S), s # <<>>
  PROVE  /\ Head(s) \in S /\ Head(s) = s[1]
         /\ Tail(s) \in Seq(S)
         /\ Len(s) \in Nat \ {0} /\ Len(Tail(s)) = Len(s) - 1
         /\ DOMAIN s = 1..Len(s) /\ DOMAIN Tail(s) = 1..(Len(s) - 1)
         /\ \A i \in 1..(Len(s) - 1) : Tail(s)[i] = s[i + 1]
PROOF
<1>1. Len(s) \in Nat \ {0} BY EmptySeq, LenProperties
<1>2. Head(s) \in S /\ Tail(s) \in Seq(S) /\ Len(Tail(s)) = Len(s) - 1
  BY HeadTailProperties
<1>3. Head(s) = s[1] OBVIOUS
<1>4. \A i \in 1..(Len(s) - 1) : Tail(s)[i] = s[i + 1] BY <1>1, HeadTailProperties
<1>5. QED BY <1>1, <1>2, <1>3, <1>4, LenProperties


-----------------------------------------------------------------------------
(* Type correctness. *)

\* Whatever is sent is a message.
LEMMA MessagesTyped ==
  /\ \A c \in Call : Message("call", c) \in Commands
  /\ \A w \in Watch : Message("watch", w) \in Commands /\ Message("unwatch", w) \in Commands
  /\ CloseCommand \in Commands
  /\ \A kind \in {"ready", "value", "error", "event", "closed", "notClosed", "died"} :
       \A id \in Call \cup Watch \cup {NoId} : Message(kind, id) \in Responses
  BY DEF Message, Commands, Responses, CloseCommand

\* Sending, answering and taking keep the ports typed.
LEMMA SendTyped ==
  ASSUME TypeOK, NEW m \in Commands, Send(m)
  PROVE  commands' \in Seq(Commands)
  BY AppendProperties DEF TypeOK, Send

\* A reply of the worker is a response.
LEMMA ReplyTyped ==
  ASSUME TypeOK, NEW m \in Responses, Reply(m)
  PROVE  responses' \in Seq(Responses)
PROOF
<1>1. Append(responses, m) \in Seq(Responses) BY AppendProperties DEF TypeOK
<1>2. <<>> \in Seq(Responses) BY EmptySeq
<1>3. QED BY <1>1, <1>2 DEF Reply

\* A command the worker takes is one of those that were sent.
LEMMA TakeTyped ==
  ASSUME TypeOK, Shapes, NEW kind, Take(kind)
  PROVE  /\ commands' \in Seq(Commands)
         /\ Head(commands) \in Commands
         /\ kind = "call" => Head(commands).id \in Call
         /\ kind \in {"watch", "unwatch"} => Head(commands).id \in Watch
PROOF
<1>1. commands # <<>> /\ Head(commands).kind = kind /\ commands' = Tail(commands)
  BY DEF Take
<1>2. commands \in Seq(Commands) BY DEF TypeOK
<1>3. /\ Head(commands) = commands[1] /\ 1 \in DOMAIN commands
      /\ Head(commands) \in Commands /\ Tail(commands) \in Seq(Commands)
  BY <1>1, <1>2, Dequeued
<1>4. QED BY <1>1, <1>3 DEF Shapes

\* So does every step, and everything else with it.
LEMMA TypeKept ==
  ASSUME TypeOK, Shapes, Next
  PROVE  TypeOK'
PROOF
<1> USE DEF TypeOK, uiVars, workerVars
<1>1. CASE UI
  <2>1. CASE Receive
    <3>1. Head(responses) \in Responses /\ responses' \in Seq(Responses)
      BY <2>1, Dequeued DEF Receive
    <3>2. phase' \in {"starting", "open", "failed"} BY <2>1 DEF Receive
    <3>3. answer' \in [Call -> {"unused", "pending", "value", "error", "refused"}]
      BY <2>1 DEF Receive, Settled
    <3>4. QED BY <2>1, <3>1, <3>2, <3>3 DEF Receive
  <2>2. CASE ReceiveClosed
    <3>1. responses' \in Seq(Responses) BY <2>2, EmptySeq DEF ReceiveClosed, Dispose
    <3>2. QED BY <2>2, <3>1 DEF ReceiveClosed, Dispose
  <2>3. CASE ReceiveDied
    <3>1. responses' \in Seq(Responses) BY <2>3, EmptySeq DEF ReceiveDied, Dispose
    <3>2. answer' \in [Call -> {"unused", "pending", "value", "error", "refused"}]
      BY <2>3 DEF ReceiveDied, Failed
    <3>3. QED BY <2>3, <3>1, <3>2 DEF ReceiveDied, Dispose, StartEnded
  <2>4. QED BY <1>1, <2>1, <2>2, <2>3 DEF UI
<1>2. CASE Ready
  <2>1. responses' \in Seq(Responses) BY <1>2, ReplyTyped, MessagesTyped DEF Ready
  <2>2. QED BY <1>2, <2>1 DEF Ready
<1>3. CASE Serve
  <2>1. /\ commands' \in Seq(Commands) /\ Head(commands).id \in Call
    BY <1>3, TakeTyped DEF Serve
  <2>2. responses' \in Seq(Responses)
    <3>1. PICK kind \in {"value", "error"} : Reply(Message(kind, Head(commands).id))
      BY <1>3 DEF Serve
    <3>2. QED BY <2>1, <3>1, ReplyTyped, MessagesTyped
  <2>3. served' \in Seq(Call)
    BY <1>3, <2>1, AppendProperties DEF Serve
  <2>4. applied' \subseteq Call BY <1>3, <2>1 DEF Serve
  <2>5. QED BY <1>3, <2>1, <2>2, <2>3, <2>4 DEF Serve, Take
<1>4. CASE ServeWatch
  <2>1. commands' \in Seq(Commands) /\ Head(commands).id \in Watch
    BY <1>4, TakeTyped DEF ServeWatch
  <2>2. QED BY <1>4, <2>1 DEF ServeWatch
<1>5. CASE ServeUnwatch
  <2>1. commands' \in Seq(Commands) /\ Head(commands).id \in Watch
    BY <1>5, TakeTyped DEF ServeUnwatch
  <2>2. responses' \in Seq(Responses)
    BY <1>5, <2>1, ReplyTyped, MessagesTyped DEF ServeUnwatch
  <2>3. QED BY <1>5, <2>1, <2>2 DEF ServeUnwatch
<1>6. CASE ServeClose
  <2>1. commands' \in Seq(Commands) BY <1>6, TakeTyped DEF ServeClose
  <2>2. responses' \in Seq(Responses)
    BY <1>6, ReplyTyped, MessagesTyped DEF ServeClose
  <2>3. QED BY <1>6, <2>1, <2>2 DEF ServeClose
<1>7. CASE Die
  <2>1. commands' \in Seq(Commands) BY <1>7, EmptySeq DEF Die
  <2>2. responses' \in Seq(Responses) BY <1>7, ReplyTyped, MessagesTyped DEF Die
  <2>3. applied' \subseteq Call
    <3>1. CASE UNCHANGED applied BY <3>1
    <3>2. CASE /\ commands # <<>> /\ Head(commands).kind = "call"
               /\ applied' = applied \cup {Head(commands).id}
      <4>1. Head(commands) = commands[1] /\ 1 \in DOMAIN commands BY <3>2, Dequeued
      <4>2. QED BY <3>2, <4>1 DEF Shapes
    <3>3. QED BY <1>7, <3>1, <3>2 DEF Die
  <2>4. deaths' \in 0..MaxDeaths BY <1>7, ConnectionAssumption DEF Die
  <2>5. QED BY <1>7, <2>1, <2>2, <2>3, <2>4 DEF Die
<1>8. CASE Exit
  <2>1. commands' \in Seq(Commands) BY <1>8, EmptySeq DEF Exit
  <2>2. responses' \in Seq(Responses) BY <1>8, ReplyTyped, MessagesTyped DEF Exit
  <2>3. QED BY <1>8, <2>1, <2>2 DEF Exit
<1>9. CASE Close
  <2>1. commands' \in Seq(Commands) BY <1>9, SendTyped, MessagesTyped DEF Close
  <2>2. QED BY <1>9, <2>1 DEF Close
<1>10. ASSUME NEW c \in Call, Invoke(c) PROVE TypeOK'
  <2>1. commands' \in Seq(Commands)
    BY <1>10, SendTyped, MessagesTyped DEF Invoke, Refuse
  <2>2. Append(sent, c) \in Seq(Call) /\ sent' \in {sent, Append(sent, c)}
    BY <1>10, AppendProperties DEF Invoke, Refuse
  <2>3. answer' \in [Call -> {"unused", "pending", "value", "error", "refused"}]
    BY <1>10 DEF Invoke, Refuse
  <2>4. QED BY <1>10, <2>1, <2>2, <2>3 DEF Invoke
<1>11. ASSUME NEW w \in Watch, Listen(w) PROVE TypeOK'
  <2>1. commands' \in Seq(Commands) BY <1>11, SendTyped, MessagesTyped DEF Listen
  <2>2. QED BY <1>11, <2>1 DEF Listen
<1>12. ASSUME NEW w \in Watch, CancelListening(w) PROVE TypeOK'
  <2>1. commands' \in Seq(Commands)
    BY <1>12, SendTyped, MessagesTyped DEF CancelListening
  <2>2. QED BY <1>12, <2>1 DEF CancelListening
<1>13. ASSUME NEW w \in Watch, Emit(w) PROVE TypeOK'
  <2>1. responses' \in Seq(Responses) BY <1>13, ReplyTyped, MessagesTyped DEF Emit
  <2>2. events' \in 0..MaxEvents BY <1>13, ConnectionAssumption DEF Emit
  <2>3. QED BY <1>13, <2>1, <2>2 DEF Emit
<1>14. QED
  BY <1>1, <1>2, <1>3, <1>4, <1>5, <1>6, <1>7, <1>8, <1>9, <1>10, <1>11, <1>12, <1>13
  DEF Next, Worker

-----------------------------------------------------------------------------
(* The ports.  An action sends a command, receives or sends an answer, takes *)
(* a command or ends the worker or the connection, and little else matters.  *)

Ports == Shapes /\ CloseComesLast /\ Gone /\ Ordered /\ Quiet

Sends(m) ==
  /\ Open /\ Send(m)
  /\ \/ m.kind = "call" /\ m.id \in Call /\ sent' = Append(sent, m.id)
     \/ m.kind \in {"watch", "unwatch"} /\ m.id \in Watch /\ UNCHANGED sent
  /\ UNCHANGED <<worker, closing, disposed, responses, served, applied>>

\* A command that is sent goes to the end, and is counted there.
LEMMA SendKeepsPorts ==
  ASSUME TypeOK, Ports, NEW m \in Commands, Sends(m)
  PROVE  Ports'
PROOF
<1> USE DEF Ports
<1>1. /\ closing = "none" /\ ~disposed
      /\ \A i \in DOMAIN commands : commands[i].kind # "close"
      /\ \A j \in DOMAIN responses : responses[j].kind \notin Ends
  BY DEF Sends, Open, CloseComesLast
<1>2. UNCHANGED <<worker, closing, disposed, responses, served, applied>> /\ m.kind # "close"
  BY DEF Sends
<1>3. Quiet' BY <1>1, <1>2 DEF Quiet
<1>4. sent \in Seq(Call) /\ served \in Seq(Call) /\ commands \in Seq(Commands)
  BY DEF TypeOK
<1>5. /\ Len(served)' <= Len(sent)'
      /\ \A i \in DOMAIN served' : served'[i] = sent'[i]
  <2>1. CASE sent' = Append(sent, m.id) /\ m.id \in Call
    <3>1. /\ Len(sent) \in Nat /\ Len(sent') = Len(sent) + 1
          /\ \A i \in 1..Len(sent) : sent'[i] = sent[i]
      BY <1>4, <2>1, Appended
    <3>2. Len(served) \in Nat /\ DOMAIN served = 1..Len(served) BY <1>4, LenProperties
    <3>3. QED BY <1>2, <3>1, <3>2 DEF Ordered
  <2>2. CASE UNCHANGED sent BY <1>2, <2>2 DEF Ordered
  <2>3. QED BY <2>1, <2>2 DEF Sends
<1>6. CASE ~Alive
  <2>1. commands' = commands /\ ~Alive' BY <1>2, <1>6 DEF Sends, Send, Alive
  <2>2. Shapes' BY <1>2, <2>1 DEF Shapes
  <2>3. CloseComesLast' BY <1>2, <2>1 DEF CloseComesLast
  <2>4. Gone' BY <1>2, <2>1 DEF Gone, Alive
  <2>5. QED BY <1>3, <1>5, <2>1, <2>2, <2>3, <2>4 DEF Ordered
<1>7. CASE Alive
  <2>1. commands' = Append(commands, m) /\ Alive' BY <1>2, <1>7 DEF Sends, Send, Alive
  <2>2. /\ Len(commands) \in Nat /\ Len(commands') = Len(commands) + 1
        /\ DOMAIN commands = 1..Len(commands) /\ DOMAIN commands' = 1..(Len(commands) + 1)
        /\ \A i \in 1..Len(commands) : commands'[i] = commands[i]
        /\ commands'[Len(commands) + 1] = m
    BY <1>4, <2>1, Appended
  <2>3. Shapes' BY <1>2, <2>2 DEF Shapes, Sends
  <2>4. CloseComesLast' BY <1>1, <1>2, <2>2 DEF CloseComesLast
  <2>5. Gone' BY <1>2, <2>1 DEF Gone, Alive
  <2>6. \E f \in [0..Len(commands') -> Nat] : Counts(f)'
    <3>1. PICK f \in [0..Len(commands) -> Nat] : Counts(f) BY <1>7 DEF Ordered
    <3> DEFINE n == Len(commands)
               last == IF m.kind = "call" THEN f[n] + 1 ELSE f[n]
               g == [i \in 0..(n + 1) |-> IF i <= n THEN f[i] ELSE last]
    <3>2. f[n] \in Nat /\ f[n] = Len(sent) BY <2>2, <3>1 DEF Counts
    <3>3. g \in [0..Len(commands') -> Nat] BY <2>2, <3>2
    <3>4. \A i \in 0..n : g[i] = f[i] BY <2>2
    <3>5. g[n + 1] = last BY <2>2
    <3> HIDE DEF g
    <3>6. \A i, j \in 0..(n + 1) : i <= j => g[i] <= g[j]
      <4>1. \A i \in 0..n : f[i] \in Nat /\ f[i] <= f[n] BY <2>2, <3>1 DEF Counts
      <4>2. \A i, j \in 0..n : i <= j => g[i] <= g[j] BY <3>1, <3>4 DEF Counts
      <4>3. f[n] <= last BY <3>2
      <4>4. \A i \in 0..n : g[i] <= g[n + 1] BY <2>2, <3>2, <3>4, <3>5, <4>1, <4>3
      <4>5. last \in Nat BY <3>2
      <4>6. QED BY <2>2, <3>5, <4>2, <4>4, <4>5
    <3>7. g[0] = Len(served') BY <1>2, <2>2, <3>1, <3>4 DEF Counts
    <3>8. g[n + 1] = Len(sent')
      <4>1. CASE m.kind = "call"
        <5>1. m.id \in Call /\ sent' = Append(sent, m.id) BY <4>1 DEF Sends
        <5>2. QED BY <1>4, <3>2, <3>5, <4>1, <5>1, Appended
      <4>2. CASE m.kind # "call" BY <3>2, <3>5, <4>2 DEF Sends
      <4>3. QED BY <4>1, <4>2
    <3>9. ASSUME NEW i \in 1..n
          PROVE  /\ commands'[i].kind = "call" =>
                      g[i] = g[i - 1] + 1 /\ sent'[g[i]] = commands'[i].id
                 /\ commands'[i].kind # "call" => g[i] = g[i - 1]
      <4>1. commands'[i] = commands[i] /\ g[i] = f[i] /\ g[i - 1] = f[i - 1]
        BY <2>2, <3>4
      <4>2. CASE commands[i].kind # "call" BY <2>2, <3>1, <4>1, <4>2 DEF Counts
      <4>3. CASE commands[i].kind = "call"
        <5>1. f[i] = f[i - 1] + 1 /\ sent[f[i]] = commands[i].id
          BY <2>2, <3>1, <4>3 DEF Counts
        <5>2. f[i] \in 1..Len(sent)
          <6>1. f[i - 1] \in Nat /\ f[i] <= f[n] BY <2>2, <3>1 DEF Counts
          <6>2. QED BY <3>2, <5>1, <6>1
        <5>3. sent'[f[i]] = sent[f[i]]
          <6>1. CASE UNCHANGED sent BY <6>1
          <6>2. CASE m.id \in Call /\ sent' = Append(sent, m.id)
            BY <1>4, <5>2, <6>2, Appended
          <6>3. QED BY <6>1, <6>2 DEF Sends
        <5>4. QED BY <4>1, <4>3, <5>1, <5>3
      <4>4. QED BY <4>2, <4>3
    <3>10. /\ commands'[n + 1].kind = "call" =>
                g[n + 1] = g[n] + 1 /\ sent'[g[n + 1]] = commands'[n + 1].id
           /\ commands'[n + 1].kind # "call" => g[n + 1] = g[n]
      <4>1. commands'[n + 1] = m /\ g[n] = f[n] BY <2>2, <3>4
      <4>2. CASE m.kind # "call" BY <3>5, <4>1, <4>2
      <4>3. CASE m.kind = "call"
        <5>1. m.id \in Call /\ sent' = Append(sent, m.id) BY <4>3 DEF Sends
        <5>2. sent'[Len(sent) + 1] = m.id BY <1>4, <5>1, Appended
        <5>3. QED BY <3>2, <3>5, <4>1, <4>3, <5>2
      <4>4. QED BY <4>2, <4>3
    <3>11. PICK h : h = g OBVIOUS
    <3>12. Counts(h)'
      <4>1. \A i \in DOMAIN commands' : i \in 1..n \/ i = n + 1 BY <2>2
      <4>2. n + 1 - 1 = n /\ Len(commands') = n + 1 BY <2>2
      <4>3. QED BY <3>6, <3>7, <3>8, <3>9, <3>10, <3>11, <4>1, <4>2 DEF Counts
    <3>13. QED BY <3>3, <3>11, <3>12
  <2>7. QED BY <1>3, <1>5, <2>3, <2>4, <2>5, <2>6 DEF Ordered
<1>8. QED BY <1>6, <1>7

\* Close is the last command.
LEMMA CloseKeepsPorts ==
  ASSUME TypeOK, Ports, Close
  PROVE  Ports'
PROOF
<1> USE DEF Ports
<1>1. /\ closing = "none" /\ closing' # "none"
      /\ UNCHANGED <<worker, disposed, responses, sent, served, applied>>
  BY DEF Close, workerVars
<1>2. \A i \in DOMAIN commands : commands[i].kind # "close" BY <1>1 DEF CloseComesLast
<1>3. \A j \in DOMAIN responses : responses[j].kind \notin Ends
  BY <1>1 DEF CloseComesLast
<1>4. CASE UNCHANGED commands
  <2>1. Shapes' BY <1>1, <1>4 DEF Shapes
  <2>2. CloseComesLast' BY <1>1, <1>2, <1>3, <1>4 DEF CloseComesLast
  <2>3. Gone' BY <1>1, <1>4 DEF Gone, Alive
  <2>4. Ordered' BY <1>1, <1>4 DEF Ordered, Alive, Counts
  <2>5. QED BY <1>1, <1>4, <2>1, <2>2, <2>3, <2>4 DEF Quiet
<1>5. CASE commands' = Append(commands, CloseCommand) /\ Alive /\ ~disposed
  <2>1. /\ Len(commands) \in Nat /\ Len(commands') = Len(commands) + 1
        /\ DOMAIN commands = 1..Len(commands) /\ DOMAIN commands' = 1..(Len(commands) + 1)
        /\ \A i \in 1..Len(commands) : commands'[i] = commands[i]
        /\ commands'[Len(commands) + 1] = CloseCommand
    BY <1>5, Appended, MessagesTyped DEF TypeOK
  <2>2. CloseCommand.kind = "close" BY DEF CloseCommand, Message
  <2>3. Shapes' BY <1>1, <2>1, <2>2 DEF Shapes
  <2>4. CloseComesLast' BY <1>1, <1>2, <1>3, <2>1 DEF CloseComesLast
  <2>5. Gone' BY <1>1, <1>5 DEF Gone, Alive
  <2>6. Quiet' BY <1>1, <1>5 DEF Quiet
  <2>7. \E h \in [0..Len(commands') -> Nat] : Counts(h)'
    <3>1. PICK f \in [0..Len(commands) -> Nat] : Counts(f) BY <1>5 DEF Ordered
    <3> DEFINE n == Len(commands)
    <3>2. PICK h : h = [i \in 0..(n + 1) |-> IF i <= n THEN f[i] ELSE f[n]] OBVIOUS
    <3>3. h \in [0..Len(commands') -> Nat] BY <2>1, <3>1, <3>2
    <3>4. (\A i \in 0..n : h[i] = f[i]) /\ h[n + 1] = f[n] BY <2>1, <3>2
    <3>5. \A i, j \in 0..(n + 1) : i <= j => h[i] <= h[j]
      <4>1. \A i \in 0..n : f[i] \in Nat /\ f[i] <= f[n] BY <2>1, <3>1 DEF Counts
      <4>2. \A i, j \in 0..n : i <= j => h[i] <= h[j] BY <3>1, <3>4 DEF Counts
      <4>3. \A i \in 0..(n + 1) : h[i] <= h[n + 1] BY <2>1, <3>4, <4>1
      <4>4. QED BY <2>1, <4>2, <4>3
    <3>6. ASSUME NEW i \in 1..n
          PROVE  /\ commands'[i].kind = "call" =>
                      h[i] = h[i - 1] + 1 /\ sent[h[i]] = commands'[i].id
                 /\ commands'[i].kind # "call" => h[i] = h[i - 1]
      <4>1. commands'[i] = commands[i] /\ h[i] = f[i] /\ h[i - 1] = f[i - 1]
        BY <2>1, <3>4
      <4>2. i \in DOMAIN commands BY <2>1
      <4>3. QED BY <3>1, <4>1, <4>2 DEF Counts
    <3>7. commands'[n + 1].kind # "call" /\ h[n + 1] = h[n + 1 - 1]
      BY <2>1, <2>2, <3>4
    <3>8. h[0] = Len(served') /\ h[Len(commands')] = Len(sent')
      BY <1>1, <2>1, <3>1, <3>4 DEF Counts
    <3>9. \A i \in DOMAIN commands' : i \in 1..n \/ i = n + 1 BY <2>1
    <3>10. Len(commands') = n + 1 /\ sent' = sent BY <1>1, <2>1
    <3>11. Counts(h)' BY <3>5, <3>6, <3>7, <3>8, <3>9, <3>10 DEF Counts
    <3>12. QED BY <3>3, <3>11
  <2>8. QED BY <1>1, <2>3, <2>4, <2>5, <2>6, <2>7 DEF Ordered
<1>6. QED BY <1>4, <1>5 DEF Close, Send

\* Where an answer ends up.
LEMMA ReplyFacts ==
  ASSUME TypeOK, NEW m \in Responses, Reply(m)
  PROVE  \/ disposed /\ responses' = <<>>
         \/ /\ ~disposed
            /\ Len(responses) \in Nat
            /\ DOMAIN responses = 1..Len(responses)
            /\ DOMAIN responses' = 1..(Len(responses) + 1)
            /\ \A j \in 1..Len(responses) : responses'[j] = responses[j]
            /\ responses'[Len(responses) + 1] = m
  BY Appended DEF TypeOK, Reply

\* The worker is ready, or a watched box has changed.
LEMMA ReplyKeepsPorts ==
  ASSUME TypeOK, Ports, NEW m \in Responses, Reply(m), m.kind \in {"ready", "event"},
         Alive, Alive', worker # "ended", worker # "exited", worker' # "exited",
         UNCHANGED <<closing, disposed, commands, sent, served, applied>>
  PROVE  Ports'
PROOF
<1> USE DEF Ports
<1>1. \A j \in DOMAIN responses' :
        (j \in DOMAIN responses /\ responses'[j] = responses[j]) \/ responses'[j] = m
  BY ReplyFacts
<1>2. Shapes' BY <1>1 DEF Shapes
<1>3. CloseComesLast' BY <1>1 DEF CloseComesLast, Ends
<1>4. Gone' BY <1>1 DEF Gone, Alive
<1>5. Ordered' BY DEF Ordered, Counts
<1>6. Quiet' BY DEF Quiet, Reply
<1>7. QED BY <1>2, <1>3, <1>4, <1>5, <1>6

\* A command is taken, which is not close, and perhaps answered.
Takes(c) ==
  /\ Take(c.kind) /\ c = Head(commands) /\ c.kind # "close"
  /\ served' = IF c.kind = "call" THEN Append(served, c.id) ELSE served
  /\ applied \subseteq applied'
  /\ \/ UNCHANGED responses
     \/ \E kind \in {"value", "error"} :
          Reply(Message(kind, c.id)) /\ (kind = "value" => c.id \in applied')
  /\ c.kind = "call" => \E kind \in {"value", "error"} : Reply(Message(kind, c.id))
  /\ UNCHANGED <<worker, closing, disposed, sent>>

\* The counts of the commands that are left move up by one place.
LEMMA TakeKeepsPorts ==
  ASSUME TypeOK, Ports, NEW c \in Commands, Takes(c)
  PROVE  Ports'
PROOF
<1> USE DEF Ports
<1>1. /\ commands # <<>> /\ commands' = Tail(commands) /\ c = Head(commands)
      /\ worker = "serving" /\ Alive /\ Alive' /\ c.kind # "close"
      /\ UNCHANGED <<worker, closing, disposed, sent>>
  BY DEF Takes, Take, Alive
<1>2. /\ c = commands[1] /\ Len(commands) \in Nat \ {0}
      /\ Len(commands') = Len(commands) - 1
      /\ DOMAIN commands = 1..Len(commands) /\ DOMAIN commands' = 1..(Len(commands) - 1)
      /\ \A i \in 1..(Len(commands) - 1) : commands'[i] = commands[i + 1]
  BY <1>1, Dequeued DEF TypeOK
<1>3. ~disposed BY <1>1 DEF Quiet
<1>4. \A j \in DOMAIN responses : responses[j].kind \notin Ends
  BY <1>1 DEF CloseComesLast
<1>5. \A j \in DOMAIN responses' :
        \/ j \in DOMAIN responses /\ responses'[j] = responses[j]
        \/ /\ responses'[j].kind \in {"value", "error"}
           /\ responses'[j].kind = "value" => responses'[j].id \in applied'
  <2>1. CASE UNCHANGED responses BY <2>1
  <2>2. ASSUME NEW kind \in {"value", "error"}, Reply(Message(kind, c.id)),
               kind = "value" => c.id \in applied'
        PROVE  \A j \in DOMAIN responses' :
                 \/ j \in DOMAIN responses /\ responses'[j] = responses[j]
                 \/ /\ responses'[j].kind \in {"value", "error"}
                    /\ responses'[j].kind = "value" => responses'[j].id \in applied'
    <3>1. Message(kind, c.id) \in Responses BY <2>2 DEF Message, Responses, Commands
    <3>2. QED BY <2>2, <3>1, ReplyFacts DEF Message
  <2>3. QED BY <2>1, <2>2 DEF Takes
<1>6. Shapes'
  <2>1. \A i \in 1..(Len(commands) - 1) : i + 1 \in 1..Len(commands) BY <1>2
  <2>2. applied \subseteq applied' BY DEF Takes
  <2>3. QED BY <1>2, <1>5, <2>1, <2>2 DEF Shapes
<1>7. CloseComesLast' BY <1>1, <1>2, <1>4, <1>5 DEF CloseComesLast, Ends
<1>8. Gone' BY <1>1, <1>5 DEF Gone
<1>9. Quiet' BY <1>1, <1>3 DEF Quiet
<1>10. PICK f \in [0..Len(commands) -> Nat] : Counts(f) BY <1>1 DEF Ordered
<1>11. PICK h : h = [i \in 0..(Len(commands) - 1) |-> f[i + 1]] OBVIOUS
<1>12. h \in [0..Len(commands') -> Nat] BY <1>2, <1>10, <1>11
<1>13. \A i \in 0..(Len(commands) - 1) : h[i] = f[i + 1] BY <1>2, <1>11
<1>14. /\ Len(served') <= Len(sent')
       /\ \A i \in DOMAIN served' : served'[i] = sent'[i]
       /\ Len(served') = f[1]
  <2>1. f[0] = Len(served) /\ f[1] <= Len(sent) BY <1>2, <1>10 DEF Counts
  <2>2. CASE c.kind # "call"
    <3>1. served' = served BY <2>2 DEF Takes
    <3>2. f[1] = f[0] BY <1>2, <1>10, <2>2 DEF Counts
    <3>3. QED BY <1>1, <2>1, <3>1, <3>2 DEF Ordered
  <2>3. CASE c.kind = "call"
    <3>1. served' = Append(served, c.id) BY <2>3 DEF Takes
    <3>2. f[1] = f[0] + 1 /\ sent[f[1]] = c.id BY <1>2, <1>10, <2>3 DEF Counts
    <3>3. c.id \in Call /\ served \in Seq(Call)
      <4>1. 1 \in DOMAIN commands BY <1>2
      <4>2. QED BY <1>2, <2>3, <4>1 DEF Shapes, TypeOK
    <3>4. /\ Len(served) \in Nat /\ Len(served') = Len(served) + 1
          /\ DOMAIN served = 1..Len(served) /\ DOMAIN served' = 1..(Len(served) + 1)
          /\ \A i \in 1..Len(served) : served'[i] = served[i]
          /\ served'[Len(served) + 1] = c.id
      BY <3>1, <3>3, Appended
    <3>5. QED BY <1>1, <2>1, <3>2, <3>4 DEF Ordered
  <2>4. QED BY <2>2, <2>3
<1>15. Counts(h)'
  <2>1. h[0] = Len(served') /\ h[Len(commands')] = Len(sent')
    BY <1>1, <1>2, <1>10, <1>13, <1>14 DEF Counts
  <2>2. ASSUME NEW i \in 0..Len(commands'), NEW j \in 0..Len(commands'), i <= j
        PROVE  h[i] <= h[j]
    <3>1. i + 1 \in 0..Len(commands) /\ j + 1 \in 0..Len(commands) /\ i + 1 <= j + 1
      BY <1>2, <2>2
    <3>2. QED BY <1>2, <1>10, <1>13, <3>1 DEF Counts
  <2>3. ASSUME NEW i \in DOMAIN commands'
        PROVE  /\ commands'[i].kind = "call" =>
                    h[i] = h[i - 1] + 1 /\ sent'[h[i]] = commands'[i].id
               /\ commands'[i].kind # "call" => h[i] = h[i - 1]
    <3>1. /\ i \in Nat \ {0} /\ i + 1 \in DOMAIN commands /\ i + 1 - 1 = i
          /\ commands'[i] = commands[i + 1]
          /\ h[i] = f[i + 1] /\ h[i - 1] = f[i]
      BY <1>2, <1>13
    <3>2. QED BY <1>1, <1>10, <3>1 DEF Counts
  <2>4. QED BY <2>1, <2>2, <2>3 DEF Counts
<1>16. Ordered' BY <1>12, <1>14, <1>15 DEF Ordered
<1>17. QED BY <1>6, <1>7, <1>8, <1>9, <1>16

\* Close is taken: it was the last command.
LEMMA ServeCloseKeepsPorts ==
  ASSUME TypeOK, Ports, ServeClose
  PROVE  Ports' /\ \A i \in DOMAIN commands : commands[i].kind = "close"
PROOF
<1> USE DEF Ports
<1>1. /\ commands # <<>> /\ commands' = Tail(commands) /\ Head(commands).kind = "close"
      /\ worker = "serving" /\ Alive /\ worker' \in {"serving", "ended"}
      /\ UNCHANGED <<closing, disposed, sent, served, applied>>
  BY DEF ServeClose, Take, Alive, uiVars
<1>2. /\ Head(commands) = commands[1] /\ Len(commands) \in Nat \ {0}
      /\ Len(commands') = Len(commands) - 1
      /\ DOMAIN commands = 1..Len(commands)
      /\ commands' \in Seq(Commands)
  BY <1>1, Dequeued DEF TypeOK
<1>3. Len(commands) = 1 /\ closing # "none" BY <1>1, <1>2 DEF CloseComesLast
<1>4. commands' = <<>> BY <1>2, <1>3, EmptySeq
<1>5. ~disposed BY <1>1 DEF Quiet
<1>6. PICK kind \in Ends : /\ Reply(Message(kind, NoId))
                           /\ worker' = IF kind = "closed" THEN "ended" ELSE worker
  BY <1>1 DEF ServeClose, Ends
<1>7. \A j \in DOMAIN responses' :
        (j \in DOMAIN responses /\ responses'[j] = responses[j]) \/ responses'[j].kind \in Ends
  <2>1. Message(kind, NoId) \in Responses BY MessagesTyped DEF Ends
  <2>2. QED BY <1>6, <2>1, ReplyFacts DEF Message
<1>8. Shapes'
  <2>1. DOMAIN commands' = {} BY <1>4
  <2>2. QED BY <1>1, <1>7, <2>1 DEF Shapes, Ends
<1>9. CloseComesLast'
  <2>1. DOMAIN commands' = {} BY <1>4
  <2>2. QED BY <1>1, <1>3, <1>4, <2>1 DEF CloseComesLast
<1>10. Gone' BY <1>1, <1>3, <1>4, <1>7 DEF Gone, Ends
<1>11. Quiet' BY <1>1, <1>5 DEF Quiet
<1>12. Ordered'
  <2>1. PICK f \in [0..Len(commands) -> Nat] : Counts(f) BY <1>1 DEF Ordered
  <2>2. Len(served) = Len(sent) BY <1>1, <1>2, <1>3, <2>1 DEF Counts
  <2>3. PICK h : h = [i \in 0..0 |-> Len(sent)] OBVIOUS
  <2>4. Len(sent) \in Nat /\ Len(commands') = 0 BY <1>4, LenProperties, EmptySeq DEF TypeOK
  <2>5. h \in [0..Len(commands') -> Nat] BY <2>3, <2>4
  <2>6. h[0] = Len(sent) /\ DOMAIN commands' = {} /\ 0..Len(commands') = {0}
    BY <1>4, <2>3, <2>4
  <2>7. \A i, j \in 0..Len(commands') : i <= j => h[i] <= h[j] BY <2>4, <2>6
  <2>8. h[0] = Len(served') /\ h[Len(commands')] = Len(sent') BY <1>1, <2>2, <2>4, <2>6
  <2>9. Counts(h)' BY <2>6, <2>7, <2>8 DEF Counts
  <2>10. Len(served') <= Len(sent') /\ \A i \in DOMAIN served' : served'[i] = sent'[i]
    BY <1>1 DEF Ordered
  <2>11. QED BY <2>5, <2>9, <2>10 DEF Ordered
<1>13. \A i \in DOMAIN commands : commands[i].kind = "close" BY <1>1, <1>2, <1>3
<1>14. QED BY <1>8, <1>9, <1>10, <1>11, <1>12, <1>13

\* The worker dies, or ends.
Leaves ==
  /\ worker' = "exited" /\ commands' = <<>>
  /\ Reply(Message("died", NoId))
  /\ applied \subseteq applied'
  /\ UNCHANGED <<closing, disposed, sent, served>>

\* What is left in the port of a worker that is gone is lost.
LEMMA LeaveKeepsPorts ==
  ASSUME TypeOK, Ports, Leaves
  PROVE  Ports'
PROOF
<1> USE DEF Ports
<1>1. ~Alive' /\ DOMAIN commands' = {} BY DEF Leaves, Alive
<1>2. Message("died", NoId) \in Responses BY MessagesTyped
<1>3. \A j \in DOMAIN responses' :
        \/ j \in DOMAIN responses /\ responses'[j] = responses[j]
        \/ responses'[j].kind = "died"
  BY <1>2, ReplyFacts DEF Message, Leaves
<1>4. Shapes' BY <1>1, <1>3 DEF Shapes, Leaves
<1>5. CloseComesLast' BY <1>1, <1>3 DEF CloseComesLast, Leaves, Ends
<1>6. ~disposed => \E j \in DOMAIN responses' : responses'[j].kind = "died"
  <2>1. SUFFICES ASSUME ~disposed PROVE \E j \in DOMAIN responses' : responses'[j].kind = "died"
    OBVIOUS
  <2>2. /\ Len(responses) \in Nat /\ DOMAIN responses' = 1..(Len(responses) + 1)
        /\ responses'[Len(responses) + 1] = Message("died", NoId)
    BY <1>2, <2>1, ReplyFacts DEF Leaves
  <2>3. Len(responses) + 1 \in DOMAIN responses' BY <2>2
  <2>4. QED BY <2>2, <2>3 DEF Message
<1>7. Gone' BY <1>3, <1>6 DEF Gone, Leaves
<1>8. Ordered' BY <1>1 DEF Ordered, Leaves
<1>9. Quiet' BY DEF Quiet, Leaves, Reply
<1>10. QED BY <1>4, <1>5, <1>7, <1>8, <1>9

\* An answer is received that ends nothing.
Receives ==
  /\ responses # <<>> /\ responses' = Tail(responses)
  /\ Head(responses).kind \notin Ends \cup {"died"}
  /\ UNCHANGED <<worker, closing, disposed, commands, sent, served, applied>>

\* What receiving an answer leaves where.
LEMMA ReceiveFacts ==
  ASSUME TypeOK, responses # <<>>
  PROVE  /\ Head(responses) = responses[1] /\ 1 \in DOMAIN responses
         /\ Head(responses) \in Responses
         /\ \A j \in DOMAIN Tail(responses) :
              j + 1 \in DOMAIN responses /\ Tail(responses)[j] = responses[j + 1]
         /\ \A j \in DOMAIN responses :
              j = 1 \/ (j - 1 \in DOMAIN Tail(responses) /\ Tail(responses)[j - 1] = responses[j])
  BY Dequeued DEF TypeOK

\* Receiving an answer changes nothing for the worker.
LEMMA ReceiveKeepsPorts ==
  ASSUME TypeOK, Ports, Receives
  PROVE  Ports'
PROOF
<1> USE DEF Ports
<1>1. /\ Head(responses) = responses[1]
      /\ \A j \in DOMAIN responses' :
           j + 1 \in DOMAIN responses /\ responses'[j] = responses[j + 1]
      /\ \A j \in DOMAIN responses :
           j = 1 \/ (j - 1 \in DOMAIN responses' /\ responses'[j - 1] = responses[j])
  BY ReceiveFacts DEF Receives
<1>2. Shapes' BY <1>1 DEF Shapes, Receives
<1>3. CloseComesLast' BY <1>1 DEF CloseComesLast, Receives
<1>4. Gone' BY <1>1 DEF Gone, Receives, Alive
<1>5. Ordered' BY DEF Ordered, Counts, Receives, Alive
<1>6. Quiet' BY DEF Quiet, Receives
<1>7. QED BY <1>2, <1>3, <1>4, <1>5, <1>6

\* The connection is disposed of, when close is answered or the worker is gone.
LEMMA DisposeKeepsPorts ==
  ASSUME TypeOK, Ports, ReceiveClosed \/ ReceiveDied
  PROVE  Ports' /\ commands = <<>>
PROOF
<1> USE DEF Ports
<1>1. /\ responses' = <<>> /\ disposed'
      /\ UNCHANGED <<worker, commands, sent, served, applied>>
      /\ closing # "none" => closing' # "none"
      /\ responses # <<>>
      /\ Head(responses).kind \in Ends \/ Head(responses).kind = "died"
  BY DEF ReceiveClosed, ReceiveDied, Dispose, workerVars, Ends
<1>2. Head(responses) = responses[1] /\ 1 \in DOMAIN responses BY <1>1, ReceiveFacts
<1>3. commands = <<>>
  BY <1>1, <1>2 DEF CloseComesLast, Gone, Alive
<1>4. DOMAIN responses' = {} /\ DOMAIN commands' = {} BY <1>1, <1>3
<1>5. Shapes' BY <1>4 DEF Shapes
<1>6. CloseComesLast' BY <1>4 DEF CloseComesLast
<1>7. Gone' BY <1>1, <1>3, <1>4 DEF Gone
<1>8. Ordered' BY <1>1 DEF Ordered, Counts, Alive
<1>9. Quiet' BY <1>1, <1>3 DEF Quiet
<1>10. QED BY <1>3, <1>5, <1>6, <1>7, <1>8, <1>9

-----------------------------------------------------------------------------
(* Every call gets its answer. *)

Served == Awaited /\ NobodyLeftBehind

\* An answer of the worker takes nothing away from those who wait.
LEMMA ReplyKeepsWaiting ==
  ASSUME TypeOK, Ports, Served, NEW m \in Responses, Reply(m),
         m.kind \in Ends => Alive,
         UNCHANGED <<answer, stream, closing, disposed>>, applied \subseteq applied',
         \A c \in Call : Asked(c) /\ ~disposed => Asked(c)' \/ Replied(c)' \/ Dying'
  PROVE  Served'
PROOF
<1> USE DEF Ports, Served
<1>1. NobodyLeftBehind' BY DEF NobodyLeftBehind
<1>2. \A c \in Call : answer'[c] = "value" => c \in applied' BY DEF Awaited
<1>3. ASSUME NEW c \in Call, answer[c] = "pending"
      PROVE  Asked(c)' \/ Replied(c)' \/ Dying'
  <2>1. ~disposed BY <1>3 DEF NobodyLeftBehind
  <2>2. /\ Len(responses) \in Nat
        /\ DOMAIN responses = 1..Len(responses)
        /\ DOMAIN responses' = 1..(Len(responses) + 1)
        /\ \A j \in 1..Len(responses) : responses'[j] = responses[j]
        /\ responses'[Len(responses) + 1] = m
    BY <2>1, ReplyFacts
  <2>3. CASE Replied(c)
    <3>1. PICK j \in DOMAIN responses :
            /\ responses[j].kind \in {"value", "error"} /\ responses[j].id = c
            /\ \A k \in DOMAIN responses : k < j => responses[k].kind \notin Ends
      BY <2>3 DEF Replied
    <3>2. /\ j \in DOMAIN responses' /\ responses'[j] = responses[j]
          /\ \A k \in DOMAIN responses' : k < j => responses'[k].kind \notin Ends
      BY <2>2, <3>1
    <3>3. QED BY <3>1, <3>2 DEF Replied
  <2>4. CASE Dying
    <3>1. PICK j \in DOMAIN responses : responses[j].kind = "died" BY <2>4 DEF Dying
    <3>2. j \in DOMAIN responses' /\ responses'[j].kind = "died" BY <2>2, <3>1
    <3>3. m.kind \notin Ends BY <3>1 DEF Gone, Alive
    <3>4. \A k \in DOMAIN responses' : responses'[k].kind \notin Ends
      BY <2>2, <2>4, <3>3 DEF Dying
    <3>5. QED BY <3>2, <3>4 DEF Dying
  <2>5. QED BY <1>3, <2>1, <2>3, <2>4 DEF Awaited
<1>4. Awaited' BY <1>2, <1>3 DEF Awaited
<1>5. QED BY <1>1, <1>4

\* The call whose command is taken is answered.
LEMMA TakeKeepsWaiting ==
  ASSUME TypeOK, Ports, Served, NEW c \in Commands, Takes(c), UNCHANGED <<answer, stream>>
  PROVE  Served'
PROOF
<1> USE DEF Ports, Served
<1>1. /\ commands # <<>> /\ commands' = Tail(commands) /\ c = Head(commands)
      /\ UNCHANGED <<closing, disposed>> /\ applied \subseteq applied'
  BY DEF Takes, Take
<1>2. /\ c = commands[1] /\ Len(commands) \in Nat \ {0}
      /\ DOMAIN commands = 1..Len(commands) /\ DOMAIN commands' = 1..(Len(commands) - 1)
      /\ \A i \in 1..(Len(commands) - 1) : commands'[i] = commands[i + 1]
  BY <1>1, Dequeued DEF TypeOK
<1>3. ~disposed BY <1>1 DEF Quiet
<1>4. \A j \in DOMAIN responses : responses[j].kind \notin Ends
  BY <1>1 DEF CloseComesLast
<1>5. ASSUME NEW d \in Call, Asked(d) PROVE Asked(d)' \/ c = Message("call", d)
  <2>1. PICK i \in DOMAIN commands : commands[i] = Message("call", d) BY <1>5 DEF Asked
  <2>2. CASE i = 1 BY <1>2, <2>1, <2>2
  <2>3. CASE i # 1
    <3>1. i - 1 \in DOMAIN commands' /\ commands'[i - 1] = commands[i] BY <1>2, <2>3
    <3>2. QED BY <2>1, <3>1 DEF Asked
  <2>4. QED BY <2>2, <2>3
<1>6. ASSUME NEW d \in Call, c = Message("call", d) PROVE Replied(d)'
  <2>1. PICK kind \in {"value", "error"} : Reply(Message(kind, d))
    BY <1>6 DEF Takes, Message
  <2>2. Message(kind, d) \in Responses BY MessagesTyped
  <2>3. /\ Len(responses) \in Nat
        /\ DOMAIN responses = 1..Len(responses)
        /\ DOMAIN responses' = 1..(Len(responses) + 1)
        /\ \A j \in 1..Len(responses) : responses'[j] = responses[j]
        /\ responses'[Len(responses) + 1] = Message(kind, d)
    BY <1>3, <2>1, <2>2, ReplyFacts
  <2>4. Len(responses) + 1 \in DOMAIN responses' BY <2>3
  <2>5. \A k \in DOMAIN responses' :
          k < Len(responses) + 1 => responses'[k].kind \notin Ends
    BY <1>4, <2>3
  <2>6. QED BY <2>3, <2>4, <2>5 DEF Replied, Message
<1>7. CASE UNCHANGED responses
  <2>1. NobodyLeftBehind' BY <1>1 DEF NobodyLeftBehind
  <2>2. \A d \in Call : Replied(d) => Replied(d)' BY <1>7 DEF Replied
  <2>3. Dying => Dying' BY <1>7 DEF Dying
  <2>4. Awaited' BY <1>1, <1>5, <1>6, <2>2, <2>3 DEF Awaited
  <2>5. QED BY <2>1, <2>4
<1>8. ASSUME NEW kind \in {"value", "error"}, Reply(Message(kind, c.id))
      PROVE  Served'
  <2>1. Message(kind, c.id) \in Responses BY DEF Message, Responses, Commands
  <2>2. Message(kind, c.id).kind \notin Ends BY DEF Message, Ends
  <2>3. QED BY <1>1, <1>5, <1>6, <1>8, <2>1, <2>2, ReplyKeepsWaiting
<1>9. QED BY <1>7, <1>8 DEF Takes

\* Calls that the worker has not served hear of its death.
LEMMA LeaveKeepsWaiting ==
  ASSUME TypeOK, Ports, Served, Leaves, UNCHANGED <<answer, stream>>
  PROVE  Served'
PROOF
<1> USE DEF Ports
<1>1. /\ Message("died", NoId) \in Responses /\ Message("died", NoId).kind = "died"
  BY MessagesTyped DEF Message
<1>2. ASSUME NEW c \in Call, Asked(c), ~disposed PROVE Dying'
  <2>1. commands # <<>> BY <1>2 DEF Asked
  <2>2. \A j \in DOMAIN responses : responses[j].kind \notin Ends
    BY <2>1 DEF CloseComesLast
  <2>3. /\ Len(responses) \in Nat
        /\ DOMAIN responses = 1..Len(responses)
        /\ DOMAIN responses' = 1..(Len(responses) + 1)
        /\ \A j \in 1..Len(responses) : responses'[j] = responses[j]
        /\ responses'[Len(responses) + 1] = Message("died", NoId)
    BY <1>1, <1>2, ReplyFacts DEF Leaves
  <2>4. Len(responses) + 1 \in DOMAIN responses' BY <2>3
  <2>5. \A j \in DOMAIN responses' : responses'[j].kind \notin Ends
    BY <1>1, <2>2, <2>3 DEF Ends
  <2>6. QED BY <1>1, <2>3, <2>4, <2>5 DEF Dying
<1>3. Message("died", NoId).kind \notin Ends BY <1>1 DEF Ends
<1>4. Reply(Message("died", NoId)) /\ UNCHANGED <<closing, disposed>> /\ applied \subseteq applied'
  BY DEF Leaves
<1>5. QED BY <1>1, <1>2, <1>3, <1>4, ReplyKeepsWaiting

\* When close is served no call waits for the worker.
LEMMA ServeCloseKeepsWaiting ==
  ASSUME TypeOK, Ports, Served, ServeClose
  PROVE  Served'
PROOF
<1>1. \A c \in Call : ~Asked(c) BY ServeCloseKeepsPorts DEF Asked, Message
<1>2. PICK kind \in Ends : Reply(Message(kind, NoId)) BY DEF ServeClose, Ends
<1>3. Message(kind, NoId) \in Responses BY MessagesTyped DEF Ends
<1>4. UNCHANGED <<answer, stream, closing, disposed, applied>> /\ Alive
  BY DEF ServeClose, Take, uiVars, Alive
<1>5. QED BY <1>1, <1>2, <1>3, <1>4, ReplyKeepsWaiting

\* A call that is made waits for the worker, or for the news of its death.
LEMMA InvokeKeepsWaiting ==
  ASSUME TypeOK, Ports, Served, NEW m \in Commands, Sends(m),
         \/ UNCHANGED stream
         \/ \E w \in Watch, s \in {"listening", "ended"} : stream' = [stream EXCEPT ![w] = s],
         \/ UNCHANGED answer
         \/ /\ m = Message("call", m.id)
            /\ m.id \in Call /\ answer' = [answer EXCEPT ![m.id] = "pending"]
  PROVE  Served'
PROOF
<1> USE DEF Ports, Served
<1>1. ~disposed /\ closing = "none" /\ UNCHANGED <<worker, closing, disposed, responses, applied>>
  BY DEF Sends, Open
<1>2. NobodyLeftBehind' BY <1>1 DEF NobodyLeftBehind
<1>3. \A j \in DOMAIN responses : responses[j].kind \notin Ends
  BY <1>1 DEF CloseComesLast
<1>4. \A c \in Call : Replied(c) => Replied(c)' BY <1>1 DEF Replied
<1>5. Dying => Dying' BY <1>1 DEF Dying
<1>6. ~Alive => Dying'
  <2>1. ~Alive => worker = "exited" BY <1>1 DEF TypeOK, Alive, Gone
  <2>2. QED BY <1>1, <1>3, <2>1 DEF Gone, Dying
<1>7. ASSUME NEW c \in Call, Alive
      PROVE  /\ Asked(c) => Asked(c)'
             /\ m = Message("call", c) => Asked(c)'
  <2>1. commands' = Append(commands, m) BY <1>7 DEF Sends, Send
  <2>2. /\ Len(commands) \in Nat
        /\ DOMAIN commands = 1..Len(commands) /\ DOMAIN commands' = 1..(Len(commands) + 1)
        /\ \A i \in 1..Len(commands) : commands'[i] = commands[i]
        /\ commands'[Len(commands) + 1] = m
    BY <2>1, Appended DEF TypeOK
  <2>3. Len(commands) + 1 \in DOMAIN commands' BY <2>2
  <2>4. QED BY <2>2, <2>3 DEF Asked
<1>8. \A c \in Call : answer'[c] = "pending" => answer[c] = "pending" \/ m = Message("call", c)
  BY DEF TypeOK
<1>9. \A c \in Call : answer'[c] = "value" => c \in applied'
  BY <1>1 DEF Awaited, TypeOK
<1>10. \A c \in Call : answer'[c] = "pending" => Asked(c)' \/ Replied(c)' \/ Dying'
  BY <1>4, <1>5, <1>6, <1>7, <1>8 DEF Awaited
<1>11. Awaited' BY <1>9, <1>10 DEF Awaited
<1>12. QED BY <1>2, <1>11

\* The first answer goes to its call; those of the others are still to come.
LEMMA ReceiveKeepsWaiting ==
  ASSUME TypeOK, Ports, Served, Receive
  PROVE  Served' /\ Receives
PROOF
<1> USE DEF Ports, Served
<1> DEFINE m == Head(responses)
<1>1. /\ responses # <<>> /\ responses' = Tail(responses)
      /\ m.kind \in {"ready", "event", "value", "error"}
      /\ UNCHANGED <<closing, disposed, stream, sent, worker, subscribed, served, applied,
                     commands>>
  BY DEF Receive, workerVars
<1>2. Receives BY <1>1 DEF Receives, Ends
<1>3. ~disposed BY <1>1 DEF Quiet
<1>4. /\ m = responses[1] /\ 1 \in DOMAIN responses
      /\ \A j \in DOMAIN responses' :
           j + 1 \in DOMAIN responses /\ responses'[j] = responses[j + 1]
      /\ \A j \in DOMAIN responses :
           j = 1 \/ (j - 1 \in DOMAIN responses' /\ responses'[j - 1] = responses[j])
      /\ DOMAIN responses \subseteq Nat /\ DOMAIN responses' \subseteq Nat
  <2>1. responses \in Seq(Responses) /\ responses' \in Seq(Responses)
    BY <1>1, Dequeued DEF TypeOK
  <2>2. QED BY <1>1, <2>1, ReceiveFacts
<1>5. NobodyLeftBehind' BY <1>1, <1>3 DEF NobodyLeftBehind
<1>6. \A c \in Call : answer'[c] \in {answer[c], m.kind}
  BY DEF Receive, Settled, TypeOK
<1>7. \A c \in Call : answer'[c] = "value" => c \in applied'
  <2>1. ASSUME NEW c \in Call, answer'[c] = "value", answer[c] # "value"
        PROVE  c \in applied
    <3>1. m.kind = "value" /\ m.id = c BY <2>1 DEF Receive, Settled, TypeOK
    <3>2. QED BY <1>4, <3>1 DEF Shapes
  <2>2. QED BY <1>1, <2>1 DEF Awaited
<1>8. ASSUME NEW c \in Call, answer'[c] = "pending"
      PROVE  Asked(c)' \/ Replied(c)' \/ Dying'
  <2>1. answer[c] = "pending" BY <1>1, <1>6, <1>8
  <2>2. ~(m.kind \in {"value", "error"} /\ m.id = c)
    BY <1>8, <2>1 DEF Receive, Settled, TypeOK
  <2>3. CASE Asked(c) BY <1>1, <2>3 DEF Asked
  <2>4. CASE Replied(c)
    <3>1. PICK j \in DOMAIN responses :
            /\ responses[j].kind \in {"value", "error"} /\ responses[j].id = c
            /\ \A k \in DOMAIN responses : k < j => responses[k].kind \notin Ends
      BY <2>4 DEF Replied
    <3>2. j - 1 \in DOMAIN responses' /\ responses'[j - 1] = responses[j]
      BY <1>4, <2>2, <3>1
    <3>3. \A k \in DOMAIN responses' : k < j - 1 => responses'[k].kind \notin Ends
      BY <1>4, <3>1
    <3>4. QED BY <3>1, <3>2, <3>3 DEF Replied
  <2>5. CASE Dying
    <3>1. PICK j \in DOMAIN responses : responses[j].kind = "died" BY <2>5 DEF Dying
    <3>2. j - 1 \in DOMAIN responses' /\ responses'[j - 1] = responses[j]
      BY <1>1, <1>4, <3>1
    <3>3. \A k \in DOMAIN responses' : responses'[k].kind \notin Ends
      BY <1>4, <2>5 DEF Dying
    <3>4. QED BY <3>1, <3>2, <3>3 DEF Dying
  <2>6. QED BY <2>1, <2>3, <2>4, <2>5 DEF Awaited
<1>9. Awaited' BY <1>7, <1>8 DEF Awaited
<1>10. QED BY <1>2, <1>5, <1>9

\* Whoever still waits is told, and if close was answered nobody does.
LEMMA DisposeKeepsWaiting ==
  ASSUME TypeOK, Ports, Served, ReceiveClosed \/ ReceiveDied
  PROVE  Served'
PROOF
<1> USE DEF Ports, Served
<1>1. /\ disposed' /\ UNCHANGED applied /\ responses # <<>>
      /\ stream' = [w \in Watch |-> IF stream[w] = "listening" THEN "ended" ELSE stream[w]]
  BY DEF ReceiveClosed, ReceiveDied, Dispose, workerVars
<1>2. Head(responses) = responses[1] /\ 1 \in DOMAIN responses
      /\ DOMAIN responses \subseteq Nat \ {0}
  <2>1. DOMAIN responses \subseteq Nat \ {0} BY LenProperties DEF TypeOK
  <2>2. QED BY <1>1, <2>1, ReceiveFacts
<1>3. \A w \in Watch : stream'[w] # "listening" BY <1>1
<1>4. closing' # "waiting" BY DEF ReceiveClosed, ReceiveDied
<1>5. ASSUME NEW c \in Call PROVE answer'[c] # "pending"
  <2>1. CASE ReceiveDied BY <2>1 DEF ReceiveDied, Failed
  <2>2. CASE ReceiveClosed
    <3>1. responses[1].kind \in Ends /\ UNCHANGED answer BY <1>2, <2>2 DEF ReceiveClosed, Ends
    <3>2. commands = <<>> BY <1>2, <3>1 DEF CloseComesLast
    <3>3. ~Asked(c) BY <3>2 DEF Asked
    <3>4. ~Dying BY <1>2, <3>1 DEF Dying
    <3>5. ~Replied(c)
      <4>1. \A j \in DOMAIN responses : j = 1 \/ 1 < j BY <1>2
      <4>2. QED BY <1>2, <3>1, <4>1 DEF Replied, Ends
    <3>6. QED BY <3>1, <3>3, <3>4, <3>5 DEF Awaited
  <2>3. QED BY <2>1, <2>2
<1>6. \A c \in Call : answer'[c] = "value" => c \in applied'
  BY <1>1 DEF Awaited, ReceiveClosed, ReceiveDied, Failed
<1>7. Awaited' BY <1>5, <1>6 DEF Awaited
<1>8. NobodyLeftBehind' BY <1>3, <1>4, <1>5 DEF NobodyLeftBehind
<1>9. QED BY <1>7, <1>8

-----------------------------------------------------------------------------
(* The invariant. *)

\* The steps of the UI isolate that leave the ports alone.
LEMMA StillPorts ==
  ASSUME Ports, UNCHANGED <<commands, responses, worker, closing, disposed, sent, served,
                            applied>>
  PROVE  Ports'
PROOF
<1> USE DEF Ports
<1>1. Shapes' BY DEF Shapes
<1>2. CloseComesLast' BY DEF CloseComesLast
<1>3. Gone' BY DEF Gone, Alive
<1>4. Ordered' BY DEF Ordered, Counts, Alive
<1>5. Quiet' BY DEF Quiet
<1>6. QED BY <1>1, <1>2, <1>3, <1>4, <1>5

\* Refusing a call, or ending a stream, leaves nobody waiting who did not.
LEMMA StillWaiting ==
  ASSUME Served, UNCHANGED <<commands, responses, closing, disposed, applied>>,
         \A c \in Call : answer'[c] \in {answer[c], "refused"},
         \A w \in Watch : stream'[w] \in {stream[w], "ended"}
  PROVE  Served'
PROOF
<1> USE DEF Served
<1>1. \A c \in Call : /\ Asked(c) => Asked(c)'
                      /\ Replied(c) => Replied(c)'
  BY DEF Asked, Replied
<1>2. Dying => Dying' BY DEF Dying
<1>3. \A c \in Call : /\ answer'[c] = "pending" => answer[c] = "pending"
                      /\ answer'[c] = "value" => answer[c] = "value"
  OBVIOUS
<1>4. Awaited' BY <1>1, <1>2, <1>3 DEF Awaited
<1>5. \A w \in Watch : stream'[w] = "listening" => stream[w] = "listening" OBVIOUS
<1>6. NobodyLeftBehind' BY <1>3, <1>5 DEF NobodyLeftBehind
<1>7. QED BY <1>4, <1>6

\* The steps of the callers.
LEMMA UserKeeps ==
  ASSUME TypeOK, Ports, Served,
         \/ Close
         \/ \E c \in Call : Invoke(c)
         \/ \E w \in Watch : Listen(w) \/ CancelListening(w)
  PROVE  Ports' /\ Served'
PROOF
<1>1. CASE Close
  <2>1. Ports' BY <1>1, CloseKeepsPorts
  <2>2. UNCHANGED <<answer, stream, disposed, responses, applied>>
    BY <1>1 DEF Close, workerVars
  <2>3. \A c \in Call : Replied(c) => Replied(c)' BY <2>2 DEF Replied
  <2>4. Dying => Dying' BY <2>2 DEF Dying
  <2>5. ASSUME NEW c \in Call, Asked(c) PROVE Asked(c)'
    <3>1. CASE UNCHANGED commands BY <2>5, <3>1 DEF Asked
    <3>2. CASE commands' = Append(commands, CloseCommand)
      <4>1. /\ DOMAIN commands = 1..Len(commands) /\ Len(commands) \in Nat
            /\ DOMAIN commands' = 1..(Len(commands) + 1)
            /\ \A i \in 1..Len(commands) : commands'[i] = commands[i]
        BY <3>2, Appended, MessagesTyped DEF TypeOK
      <4>2. QED BY <2>5, <4>1 DEF Asked
    <3>3. QED BY <1>1, <3>1, <3>2 DEF Close, Send
  <2>6. Awaited' BY <2>2, <2>3, <2>4, <2>5 DEF Awaited, Served
  <2>7. NobodyLeftBehind' BY <1>1, <2>2 DEF NobodyLeftBehind, Served, Close
  <2>8. QED BY <2>1, <2>6, <2>7 DEF Served
<1>2. ASSUME NEW c \in Call, Invoke(c) PROVE Ports' /\ Served'
  <2>1. CASE Refuse(c)
    <3>1. UNCHANGED <<commands, responses, worker, closing, disposed, sent, served, applied,
                      stream>>
      BY <1>2, <2>1 DEF Invoke, Refuse, workerVars
    <3>2. \A d \in Call : answer'[d] \in {answer[d], "refused"}
      BY <2>1 DEF Refuse, TypeOK
    <3>3. QED BY <3>1, <3>2, StillPorts, StillWaiting
  <2>2. CASE /\ Open
             /\ answer' = [answer EXCEPT ![c] = "pending"]
             /\ Send(Message("call", c))
             /\ sent' = Append(sent, c)
    <3>1. /\ Message("call", c) \in Commands
          /\ Message("call", c).kind = "call" /\ Message("call", c).id = c
      BY MessagesTyped DEF Message
    <3>2. Sends(Message("call", c)) /\ UNCHANGED stream
      BY <1>2, <2>2, <3>1 DEF Sends, Invoke, workerVars
    <3>3. QED BY <2>2, <3>1, <3>2, SendKeepsPorts, InvokeKeepsWaiting
  <2>3. QED BY <1>2, <2>1, <2>2 DEF Invoke
<1>3. ASSUME NEW w \in Watch, NEW kind \in {"watch", "unwatch"}, NEW s \in {"listening", "ended"},
             Open => Send(Message(kind, w)), ~Open => UNCHANGED commands,
             s = "listening" => Open, stream' = [stream EXCEPT ![w] = s],
             UNCHANGED <<answer, closing, disposed, sent, worker, served, applied, responses>>
      PROVE  Ports' /\ Served'
  <2>1. CASE Open
    <3>1. /\ Message(kind, w) \in Commands
          /\ Message(kind, w).kind = kind /\ Message(kind, w).id = w
      BY MessagesTyped DEF Message
    <3>2. Sends(Message(kind, w)) BY <1>3, <2>1, <3>1 DEF Sends
    <3>3. QED BY <1>3, <3>1, <3>2, SendKeepsPorts, InvokeKeepsWaiting
  <2>2. CASE ~Open
    <3>1. \A v \in Watch : stream'[v] \in {stream[v], "ended"} BY <1>3, <2>2 DEF TypeOK
    <3>2. \A c \in Call : answer'[c] \in {answer[c], "refused"} BY <1>3
    <3>3. UNCHANGED <<commands, responses, worker, closing, disposed, sent, served, applied>>
      BY <1>3, <2>2
    <3>4. QED BY <3>1, <3>2, <3>3, StillPorts, StillWaiting
  <2>3. QED BY <2>1, <2>2
<1>4. ASSUME NEW w \in Watch, Listen(w) PROVE Ports' /\ Served'
  <2>1. CASE Open BY <1>3, <1>4, <2>1 DEF Listen, workerVars
  <2>2. CASE ~Open BY <1>3, <1>4, <2>2 DEF Listen, workerVars
  <2>3. QED BY <2>1, <2>2
<1>5. ASSUME NEW w \in Watch, CancelListening(w) PROVE Ports' /\ Served'
  BY <1>3, <1>5 DEF CancelListening, workerVars
<1>6. QED BY <1>1, <1>2, <1>4, <1>5

\* The steps of the worker.
LEMMA WorkerKeeps ==
  ASSUME TypeOK, Ports, Served,
         Worker \/ Die \/ Exit \/ \E w \in Watch : Emit(w)
  PROVE  Ports' /\ Served'
PROOF
<1>1. ASSUME NEW m \in Responses, Reply(m), m.kind \in {"ready", "event"},
             Alive, Alive', worker' # "exited",
             UNCHANGED <<answer, stream, closing, disposed, commands, sent, served, applied>>
      PROVE  Ports' /\ Served'
  <2>1. worker # "ended" /\ worker # "exited" BY <1>1 DEF Alive
  <2>2. Ports' BY <1>1, <2>1, ReplyKeepsPorts
  <2>3. \A c \in Call : Asked(c) => Asked(c)' BY <1>1 DEF Asked
  <2>4. QED BY <1>1, <2>2, <2>3, ReplyKeepsWaiting
<1>2. CASE Ready
  <2>1. Message("ready", NoId) \in Responses /\ Message("ready", NoId).kind = "ready"
    BY MessagesTyped DEF Message
  <2>2. QED BY <1>1, <1>2, <2>1 DEF Ready, uiVars, Alive
<1>3. ASSUME NEW w \in Watch, Emit(w) PROVE Ports' /\ Served'
  <2>1. Message("event", w) \in Responses /\ Message("event", w).kind = "event"
    BY MessagesTyped DEF Message
  <2>2. QED BY <1>1, <1>3, <2>1 DEF Emit, uiVars, Alive
<1>4. ASSUME NEW c \in Commands, Takes(c), UNCHANGED <<answer, stream>>
      PROVE  Ports' /\ Served'
  BY <1>4, TakeKeepsPorts, TakeKeepsWaiting
<1>5. CASE Serve
  <2>1. Head(commands) \in Commands BY <1>5, Dequeued DEF TypeOK, Serve, Take
  <2>2. Takes(Head(commands))
    <3>1. Head(commands).kind = "call" BY <1>5 DEF Serve, Take
    <3>2. QED BY <1>5, <3>1 DEF Takes, Serve, uiVars
  <2>3. QED BY <1>4, <1>5, <2>1, <2>2 DEF Serve, uiVars
<1>6. CASE ServeWatch
  <2>1. Head(commands) \in Commands BY <1>6, Dequeued DEF TypeOK, ServeWatch, Take
  <2>2. Head(commands).kind = "watch" BY <1>6 DEF ServeWatch, Take
  <2>3. Takes(Head(commands)) BY <1>6, <2>2 DEF Takes, ServeWatch, uiVars
  <2>4. QED BY <1>4, <1>6, <2>1, <2>3 DEF ServeWatch, uiVars
<1>7. CASE ServeUnwatch
  <2>1. Head(commands) \in Commands BY <1>7, Dequeued DEF TypeOK, ServeUnwatch, Take
  <2>2. Head(commands).kind = "unwatch" BY <1>7 DEF ServeUnwatch, Take
  <2>3. Takes(Head(commands)) BY <1>7, <2>2 DEF Takes, ServeUnwatch, uiVars
  <2>4. QED BY <1>4, <1>7, <2>1, <2>3 DEF ServeUnwatch, uiVars
<1>8. CASE ServeClose BY <1>8, ServeCloseKeepsPorts, ServeCloseKeepsWaiting
<1>9. CASE Die \/ Exit
  <2>1. Leaves BY <1>9 DEF Die, Exit, Leaves, uiVars
  <2>2. UNCHANGED <<answer, stream>> BY <1>9 DEF Die, Exit, uiVars
  <2>3. QED BY <2>1, <2>2, LeaveKeepsPorts, LeaveKeepsWaiting
<1>10. QED BY <1>2, <1>3, <1>5, <1>6, <1>7, <1>8, <1>9 DEF Worker

\* The steps of the UI isolate's port.
LEMMA UIKeeps ==
  ASSUME TypeOK, Ports, Served, UI
  PROVE  Ports' /\ Served'
PROOF
<1>1. CASE Receive BY <1>1, ReceiveKeepsWaiting, ReceiveKeepsPorts
<1>2. CASE ReceiveClosed \/ ReceiveDied BY <1>2, DisposeKeepsPorts, DisposeKeepsWaiting
<1>3. QED BY <1>1, <1>2 DEF UI

\* The invariant holds at first, and every step keeps it.
LEMMA IInvInit == Init => IInv
PROOF
<1> SUFFICES ASSUME Init PROVE IInv OBVIOUS
<1> USE DEF Init
<1>1. TypeOK
  <2>1. /\ <<>> \in Seq(Commands) /\ <<>> \in Seq(Responses) /\ <<>> \in Seq(Call)
        /\ MaxDeaths \in 0..MaxDeaths /\ MaxEvents \in 0..MaxEvents
    BY EmptySeq, ConnectionAssumption
  <2>2. QED BY <2>1 DEF TypeOK
<1>2. DOMAIN commands = {} /\ DOMAIN responses = {} /\ DOMAIN served = {}
  OBVIOUS
<1>3. Shapes BY <1>2 DEF Shapes
<1>4. CloseComesLast BY <1>2 DEF CloseComesLast
<1>5. Gone BY <1>2 DEF Gone, Alive
<1>6. Ordered
  <2>1. Len(commands) = 0 /\ Len(sent) = 0 /\ Len(served) = 0 BY EmptySeq
  <2>2. PICK f : f = [i \in 0..0 |-> 0] OBVIOUS
  <2>3. f \in [0..Len(commands) -> Nat] BY <2>1, <2>2
  <2>4. f[0] = 0 /\ 0..Len(commands) = {0} BY <2>1, <2>2
  <2>5. Counts(f) BY <1>2, <2>1, <2>4 DEF Counts
  <2>6. QED BY <1>2, <2>1, <2>3, <2>5 DEF Ordered
<1>7. Awaited BY DEF Awaited
<1>8. Quiet /\ NobodyLeftBehind BY DEF Quiet, NobodyLeftBehind
<1>9. QED BY <1>1, <1>3, <1>4, <1>5, <1>6, <1>7, <1>8 DEF IInv

\* Every step preserves the invariant.
LEMMA IInvNext == IInv /\ [Next]_vars => IInv'
PROOF
<1> SUFFICES ASSUME IInv, [Next]_vars PROVE IInv' OBVIOUS
<1>1. TypeOK /\ Ports /\ Served BY DEF IInv, Ports, Served
<1>2. CASE Next
  <2>1. TypeOK' BY <1>1, <1>2, TypeKept DEF Ports
  <2>2. Ports' /\ Served' BY <1>1, <1>2, UserKeeps, WorkerKeeps, UIKeeps DEF Next
  <2>3. QED BY <2>1, <2>2 DEF IInv, Ports, Served
<1>3. CASE UNCHANGED vars
  <2>1. UNCHANGED <<phase, answer, stream, commands, responses, worker, closing, disposed, sent,
                    served, applied, subscribed, deaths, events>>
    BY <1>3 DEF vars, uiVars, workerVars
  <2>2. TypeOK' BY <1>1, <2>1 DEF TypeOK
  <2>3. Ports' BY <1>1, <2>1, StillPorts
  <2>4. Served' BY <1>1, <2>1, StillWaiting
  <2>5. QED BY <2>2, <2>3, <2>4 DEF IInv, Ports, Served
<1>4. QED BY <1>2, <1>3

\* Whatever calls, watches, deaths and closings there are, the types are kept.
THEOREM TypeCorrect == Spec => []TypeOK
PROOF
<1>1. IInv => TypeOK BY DEF IInv
<1>2. QED BY <1>1, IInvInit, IInvNext, PTL DEF Spec

\* Commands take effect in the order of the calls, and what was answered with
\* a value has taken effect, for any number of calls.
THEOREM OrderIsKept == Spec => []FirstComeFirstServed
PROOF
<1>1. IInv => FirstComeFirstServed BY DEF IInv, Ordered, Awaited, FirstComeFirstServed
<1>2. QED BY <1>1, IInvInit, IInvNext, PTL DEF Spec

\* However the connection comes to be disposed of, nobody waits any more.
THEOREM EverybodyIsTold == Spec => []NobodyLeftBehind
PROOF
<1>1. IInv => NobodyLeftBehind BY DEF IInv
<1>2. QED BY <1>1, IInvInit, IInvNext, PTL DEF Spec

\* A connection that was disposed of writes nothing any more, so that its
\* directory may be opened again.
THEOREM NothingIsWrittenLater == Spec => DisposedMeansQuiet
PROOF
<1>1. IInv /\ [Next]_vars => [disposed => applied' = applied]_vars
  <2> SUFFICES ASSUME IInv, Next, disposed PROVE applied' = applied OBVIOUS
  <2>1. commands = <<>> BY DEF IInv, Quiet
  <2>2. ~Serve BY <2>1 DEF Serve, Take
  <2>3. CASE Die BY <2>1, <2>3 DEF Die
  <2>4. CASE ~Die
    BY <2>2, <2>4
    DEF Next, UI, Worker, Receive, ReceiveClosed, ReceiveDied, Ready, ServeWatch,
        ServeUnwatch, ServeClose, Exit, Close, Invoke, Listen, CancelListening, Emit,
        workerVars
  <2>5. QED BY <2>3, <2>4
<1>2. QED BY <1>1, IInvInit, IInvNext, PTL DEF Spec, DisposedMeansQuiet
=============================================================================
