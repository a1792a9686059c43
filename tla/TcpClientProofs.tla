-------------------------- MODULE TcpClientProofs ---------------------------
(***************************************************************************)
(* The client with one patient user, whatever goes wrong: the object has  *)
(* no lock, and with a second user, or one who starts a read while the    *)
(* loop of the last one has not ended, none of this holds.                *)
(***************************************************************************)
EXTENDS TcpClient, SequenceTheorems, TLAPS

OneUser == Users = {Creator}

Loops == 1 .. MaxStarts
Starting == {"start", "wait", "backlog", "command", "loop"}
NetStates ==
  {"setup", "connecting", "ready", "eof", "failed", "cancelled"}
UserStates ==
  Testing \cup Starting
    \cup {"idle", "send", "defer", "receiving", "close", "closing"}
LoopStates == OnQueue \cup {"none", "ended", "receive", "signalled"}
Settings == Values \cup {NoValue}
Commands == [conn : Conns, value : Values]

NetTypes ==
  connection \in Conns /\ net \in [Conns -> NetStates] /\ ready \subseteq Conns

UserTypes ==
  /\ at \in [Users -> UserStates] /\ arg \in [Users -> Settings]
  /\ kind \in [Users -> {"sync", "async"}] /\ todo \in [Users -> Seq(Values)]
  /\ \A u \in Users : at[u] \in {"send", "defer"} => arg[u] \in Values

CommandTypes ==
  /\ backlog \in Seq(Values)
  /\ wire \in Seq(Commands) /\ link \in Seq(Commands)
  /\ cached \in Settings /\ device \in Settings /\ asked \in Settings
  /\ deferred \in Seq(Values) /\ handed \in Seq(Values)

LoopTypes ==
  loops \in [Loops -> [user : Users, kind : {"sync", "async"},
                      conn : Conns, at : LoopStates]]

TypeOK == NetTypes /\ UserTypes /\ CommandTypes /\ LoopTypes

Here == at[Creator]

(* A read is started after the last loop has ended.                       *)
LoopInv ==
  /\ Here \in Starting \cup Testing => LoopsEnded
  /\ \A i, j \in Loops :
       i # j => \E k \in {i, j} : loops[k].at \in {"none", "ended"}

(* Connections are used one after the other.                              *)
InOrder ==
  /\ \A c \in Conns : /\ c < connection => net[c] = "cancelled"
                      /\ c > connection => net[c] = "setup"
  /\ net[connection] # "cancelled"
  /\ \A c \in ready : net[c] \notin {"setup", "connecting"}

NetInv ==
  /\ InOrder
  /\ Here \in Testing \ {"testcancelled"} => connection = 1
  /\ Here = "testcancelled" => connection = 1 \/ net[connection] = "setup"

(* Nothing is deferred behind the back of the user who sends the list.    *)
BacklogInv ==
  /\ Here \in Testing => backlog = << >>
  /\ "timeout" \notin mishaps =>
       /\ net[connection] = "connecting" => Here \in {"test", "wait"}
       /\ net[connection] = "ready" /\ backlog # << >>
            => Here \in {"wait", "backlog", "command"}
       /\ Here = "defer" => net[connection] # "ready"

(* As long as no connection is lost, a deferred command has been given to *)
(* a connection, or is on the list, or on the copy that is being sent.    *)
Lossless == mishaps \cap {"fail", "fin"} = {}

Listed ==
  /\ \A c \in Conns : net[c] \notin {"failed", "eof"}
  /\ Here \in Testing => handed = << >>
  /\ Here = "command" =>
       net[connection] = "ready" /\ deferred = handed \o todo[Creator]
  /\ Here # "command" => deferred = handed \o backlog

ListInv == Lossless => Listed

(* A connection that serves a command, or a loop, is not closed under it. *)
Quiet ==
  /\ \A c \in Conns : net[c] \notin {"failed", "eof"}
  /\ Here \in {"send", "command"} => net[connection] = "ready"
  /\ \A i \in Loops :
       /\ loops[i].at \notin {"stopping", "closing"}
       /\ loops[i].at = "close" => net[connection] = "setup"
       /\ loops[i].at = "receive" =>
            loops[i].conn = connection \/ net[connection] = "setup"

QuietInv == mishaps = {} => Quiet

Last(s) == s[Len(s)]
Sent == IF wire = << >> THEN cached ELSE Last(wire).value
Arrived == IF link = << >> THEN device ELSE Last(link).value

(* The value asked for last is the last one on its way.                   *)
Value ==
  /\ cached = Arrived
  /\ Here \in {"send", "defer"} => asked = arg[Creator]
  /\ Here = "command" =>
       asked = IF todo[Creator] # << >> THEN Last(todo[Creator]) ELSE Sent
  /\ Here \notin {"send", "defer", "command"} =>
       asked = IF backlog # << >> THEN Last(backlog) ELSE Sent

ValueInv == mishaps = {} => Value

Inv ==
  TypeOK /\ LoopInv /\ NetInv /\ BacklogInv /\ ListInv /\ QuietInv /\ ValueInv
----------------------------------------------------------------------------
(* What a step of the user, and of a loop, moves.                         *)
LEMMA UserMoves ==
  ASSUME OneUser, TypeOK, NEW u \in Users, NEW from, NEW to \in UserStates,
         Goes(u, from, to)
  PROVE  u = Creator /\ Here = from /\ Here' = to
         /\ at' \in [Users -> UserStates]
BY DEF OneUser, TypeOK, UserTypes, Goes, Here

LEMMA LoopMoves ==
  ASSUME TypeOK, NEW i \in Loops, NEW from, NEW to \in LoopStates,
         LoopGoes(i, from, to)
  PROVE  /\ LoopTypes'
         /\ loops[i].at = from /\ loops'[i].at = to
         /\ loops'[i].conn = loops[i].conn
         /\ \A j \in Loops : j # i => loops'[j] = loops[j]
BY DEF TypeOK, LoopTypes, LoopGoes

(* A list that a step takes from, or adds to.                             *)
LEMMA Taken ==
  ASSUME NEW S, NEW s \in Seq(S), s # << >>
  PROVE  /\ Head(s) \in S /\ Tail(s) \in Seq(S)
         /\ Tail(s) = << >> => Head(s) = Last(s)
         /\ Tail(s) # << >> => Last(Tail(s)) = Last(s)
<1>1. Len(s) \in Nat \ {0}
  BY EmptySeq
<1>2. ASSUME Tail(s) = << >> PROVE Len(s) = 1
  <2>1. Len(<< >>) = 0
    BY EmptySeq
  <2>2. Len(Tail(s)) = Len(<< >>)
    BY <1>2, Zenon
  <2>3. Len(Tail(s)) = Len(s) - 1
    BY HeadTailProperties
  <2>4. Len(s) - 1 = 0
    BY <2>1, <2>2, <2>3, Zenon
  <2> QED BY <1>1, <2>4
<1>3. ASSUME Tail(s) # << >> PROVE Tail(s)[Len(Tail(s))] = s[Len(s)]
  <2>1. Len(Tail(s)) \in 1 .. Len(Tail(s)) /\ Len(Tail(s)) = Len(s) - 1
    BY <1>1, <1>3, EmptySeq, HeadTailProperties
  <2> QED BY <1>1, <2>1, HeadTailProperties
<1>4. Head(s) = s[1]
  OBVIOUS
<1> QED BY <1>2, <1>3, <1>4, HeadTailProperties DEF Last

LEMMA Added ==
  ASSUME NEW S, NEW s \in Seq(S), NEW e \in S
  PROVE  /\ Append(s, e) \in Seq(S) /\ Append(s, e) # << >>
         /\ Last(Append(s, e)) = e
BY DEF Last

LEMMA NetTypesStep ==
  ASSUME TypeOK, [Next]_vars PROVE NetTypes'
<1> USE DEF NetTypes, TypeOK, NetStates
<1>1. CASE UNCHANGED netVars
  BY <1>1 DEF netVars
<1>2. CASE Replace
  BY <1>2, BoundsAssumption DEF Replace, Conns
<1>3. ASSUME NEW u \in Users, StartConnection(u) PROVE NetTypes'
  BY <1>3 DEF StartConnection
<1>4. ASSUME NEW c \in Conns, BecomesReady(c) \/ HandleReady(c) PROVE NetTypes'
  BY <1>4 DEF BecomesReady, HandleReady
<1>5. ASSUME NEW c \in Conns, Breaks(c) PROVE NetTypes'
  BY <1>5 DEF Breaks
<1> QED
  BY <1>1, <1>2, <1>3, <1>4, <1>5
  DEF Next, UserStep, LoopStep, NetStep, vars, Set, Read, Stop, TestClose,
      TestClosing, TestCancelled, Defer, SendCommand, TimeOut, Backlog, Command,
      RemoveAll, StartLoop, SyncEnds, Close, Closing, Samples, CallbackReturns,
      CallbackStop, CallbackClosing, Again, ReceiveEnds, LoopClose, LoopClosing,
      Processed, Arrives

LEMMA UserTypesStep ==
  ASSUME TypeOK, [Next]_vars PROVE UserTypes'
<1> USE DEF UserTypes, TypeOK, UserStates, Testing, Starting, Settings
<1>1. CASE UNCHANGED userVars
  BY <1>1 DEF userVars
<1>2. ASSUME NEW u \in Users,
             \/ TestClose(u) \/ TestClosing(u) \/ TestCancelled(u) \/ Defer(u)
             \/ SendCommand(u) \/ Close(u) \/ Closing(u) \/ Stop(u)
      PROVE  UserTypes'
  BY <1>2 DEF TestClose, TestClosing, TestCancelled, Defer, SendCommand, Close,
              Closing, Stop, Goes
<1>3. ASSUME NEW u \in Users,
             \/ StartConnection(u) \/ TimeOut(u) \/ RemoveAll(u)
             \/ StartLoop(u) \/ SyncEnds(u)
      PROVE  UserTypes'
  BY <1>3 DEF StartConnection, TimeOut, RemoveAll, StartLoop, SyncEnds, Goes
<1>4. ASSUME NEW u \in Users, NEW v \in Values, Set(u, v) PROVE UserTypes'
  BY <1>4 DEF Set, Goes
<1>5. ASSUME NEW u \in Users, NEW k \in {"sync", "async"}, Read(u, k)
      PROVE  UserTypes'
  BY <1>5 DEF Read, Goes
<1>6. ASSUME NEW u \in Users, Backlog(u) PROVE UserTypes'
  BY <1>6 DEF Backlog, Goes, CommandTypes
<1>7. ASSUME NEW u \in Users, Command(u) PROVE UserTypes'
  BY <1>7 DEF Command
<1>8. ASSUME NEW c \in Conns, HandleReady(c) PROVE UserTypes'
  BY <1>8 DEF HandleReady
<1> QED
  BY <1>1, <1>2, <1>3, <1>4, <1>5, <1>6, <1>7, <1>8
  DEF Next, UserStep, LoopStep, NetStep, vars, Samples, CallbackReturns,
      CallbackStop, CallbackClosing, Again, ReceiveEnds, LoopClose, LoopClosing,
      Processed, Arrives, BecomesReady, Breaks

LEMMA CommandTypesStep ==
  ASSUME TypeOK, [Next]_vars PROVE CommandTypes'
<1> USE DEF CommandTypes, TypeOK
<1>s. ASSUME NEW v \in Values, Send(v) PROVE wire' \in Seq(Commands)
  <2>1. [conn |-> connection, value |-> v] \in Commands
    BY DEF Commands, NetTypes
  <2> QED BY <1>s, <2>1, Added DEF Send
<1>1. CASE UNCHANGED <<commandVars, listVars>>
  BY <1>1 DEF commandVars, listVars
<1>2. ASSUME NEW u \in Users, TestCancelled(u) PROVE CommandTypes'
  BY <1>2, ValuesAssumption DEF TestCancelled, Settings
<1>3. ASSUME NEW u \in Users, NEW v \in Values, Set(u, v) PROVE CommandTypes'
  BY <1>3 DEF Set, listVars, Settings
<1>4. ASSUME NEW u \in Users, Defer(u) PROVE CommandTypes'
  BY <1>4, Added DEF Defer, Goes, UserTypes
<1>5. ASSUME NEW u \in Users, SendCommand(u) PROVE CommandTypes'
  BY <1>5, <1>s DEF SendCommand, listVars, Goes, UserTypes
<1>6. ASSUME NEW u \in Users, Command(u) PROVE CommandTypes'
  <2>1. Head(todo[u]) \in Values
    BY <1>6, Taken DEF Command, UserTypes
  <2> QED BY <1>6, <1>s, <2>1, Added DEF Command
<1>7. ASSUME NEW u \in Users, RemoveAll(u) PROVE CommandTypes'
  BY <1>7 DEF RemoveAll, listVars
<1>8. CASE Processed
  <2>1. Head(wire) \in Commands /\ Tail(wire) \in Seq(Commands)
    BY <1>8, Taken DEF Processed
  <2>2. Head(wire).value \in Settings
    BY <2>1 DEF Commands, Settings
  <2>3. Append(link, Head(wire)) \in Seq(Commands)
    BY <2>1, Added
  <2> QED BY <1>8, <2>1, <2>2, <2>3 DEF Processed, listVars
<1>9. CASE Arrives
  <2>1. Head(link) \in Commands /\ Tail(link) \in Seq(Commands)
    BY <1>9, Taken DEF Arrives
  <2>2. Head(link).value \in Settings
    BY <2>1 DEF Commands, Settings
  <2> QED BY <1>9, <2>1, <2>2 DEF Arrives, listVars
<1> QED
  BY <1>1, <1>2, <1>3, <1>4, <1>5, <1>6, <1>7, <1>8, <1>9
  DEF Next, UserStep, LoopStep, NetStep, vars, Read, Stop, TestClose,
      TestClosing, StartConnection, TimeOut, Backlog,
      StartLoop, SyncEnds, Close, Closing, Samples, CallbackReturns,
      CallbackStop, CallbackClosing, Again, ReceiveEnds, LoopClose, LoopClosing,
      BecomesReady, HandleReady, Breaks

LEMMA LoopTypesStep ==
  ASSUME TypeOK, [Next]_vars PROVE LoopTypes'
<1> USE DEF LoopTypes, TypeOK, LoopStates, OnQueue
<1>1. CASE UNCHANGED loops
  BY <1>1
<1>2. ASSUME NEW u \in Users, StartLoop(u) PROVE LoopTypes'
  BY <1>2 DEF StartLoop, NetTypes, UserTypes
<1>3. ASSUME NEW i \in Loops, NEW from, NEW to \in LoopStates, LoopGoes(i, from, to)
      PROVE  LoopTypes'
  BY <1>3, LoopMoves
<1>4. ASSUME NEW i \in Loops, Again(i) PROVE LoopTypes'
  BY <1>4 DEF Again, NetTypes
<1>5. ASSUME NEW i \in Loops,
             \/ Samples(i) \/ CallbackReturns(i) \/ CallbackStop(i)
             \/ CallbackClosing(i)
             \/ ReceiveEnds(i) \/ LoopClose(i) \/ LoopClosing(i)
      PROVE  LoopTypes'
  BY <1>3, <1>5 DEF Samples, CallbackReturns, CallbackStop, CallbackClosing,
                    ReceiveEnds, LoopClose, LoopClosing
<1>6. ASSUME NEW u \in Users, SyncEnds(u) PROVE LoopTypes'
  BY <1>3, <1>6 DEF SyncEnds
<1> QED
  BY <1>1, <1>2, <1>4, <1>5, <1>6
  DEF Next, UserStep, LoopStep, NetStep, vars, Set, Read, Stop, TestClose,
      TestClosing, TestCancelled, Defer, SendCommand, StartConnection, TimeOut,
      Backlog, Command, RemoveAll, Close, Closing, Processed, Arrives,
      BecomesReady, HandleReady, Breaks

LEMMA TypeStep ==
  ASSUME TypeOK, [Next]_vars PROVE TypeOK'
BY NetTypesStep, UserTypesStep, CommandTypesStep, LoopTypesStep DEF TypeOK

----------------------------------------------------------------------------
(* One receive loop at a time: the user starts the next one only when the *)
(* last has ended, and until then stays out of the calls that start one.  *)
LEMMA LoopInvStep ==
  ASSUME OneUser, Patient, TypeOK, LoopInv, [Next]_vars PROVE LoopInv'
<1> USE DEF LoopInv
<1>1. CASE UNCHANGED <<at, loops>>
  BY <1>1 DEF LoopsEnded, Here
<1>2. ASSUME NEW u \in Users, NEW from, NEW to \in UserStates, Goes(u, from, to),
             UNCHANGED loops,
             \/ to \notin Starting \cup Testing \/ from \in Starting \cup Testing
             \/ LoopsEnded
      PROVE  LoopInv'
  <2>1. Here = from /\ Here' = to
    BY <1>2, UserMoves
  <2> QED BY <1>2, <2>1 DEF LoopsEnded
<1>3. ASSUME NEW u \in Users, NEW v \in Values, Set(u, v) PROVE LoopInv'
  BY <1>2, <1>3 DEF Set, UserStates, Starting, Testing
<1>4. ASSUME NEW u \in Users, NEW k \in {"sync", "async"}, Read(u, k)
      PROVE  LoopInv'
  BY <1>2, <1>4 DEF Read, UserStates, Starting, Testing
<1>5. ASSUME NEW u \in Users,
             \/ TestClose(u) \/ TestClosing(u) \/ TestCancelled(u) \/ Defer(u)
             \/ SendCommand(u) \/ Close(u) \/ Closing(u) \/ Stop(u)
      PROVE  LoopInv'
  BY <1>2, <1>5 DEF TestClose, TestClosing, TestCancelled, Defer, SendCommand,
                    Close, Closing, Stop, UserStates, Starting, Testing
<1>6. ASSUME NEW u \in Users,
             StartConnection(u) \/ TimeOut(u) \/ Backlog(u) \/ RemoveAll(u)
      PROVE  LoopInv'
  BY <1>2, <1>6 DEF StartConnection, TimeOut, Backlog, RemoveAll, UserStates,
                    Starting, Testing
<1>7. ASSUME NEW u \in Users, StartLoop(u) PROVE LoopInv'
  <2>1. Here = "loop" /\ Here' \in {"receiving", "idle"}
    BY <1>7, UserMoves DEF StartLoop, UserStates
  <2>2. LoopsEnded
    BY <2>1 DEF Starting
  <2>3. PICK i \in Loops : \A j \in Loops : j # i => loops'[j] = loops[j]
    BY <1>7 DEF StartLoop, TypeOK, LoopTypes
  <2>4. \A j \in Loops : j # i => loops'[j].at \in {"none", "ended"}
    BY <2>2, <2>3 DEF LoopsEnded, TypeOK, LoopTypes
  <2> QED BY <2>1, <2>4 DEF Starting, Testing
<1>8. ASSUME NEW i \in Loops, loops[i].at \notin {"none", "ended"},
             \A j \in Loops : j # i => loops'[j] = loops[j],
             Here' \in Starting \cup Testing => Here \in Starting \cup Testing
      PROVE  LoopInv'
  <2>1. ~LoopsEnded
    BY <1>8 DEF LoopsEnded, TypeOK, LoopTypes
  <2>2. Here' \notin Starting \cup Testing
    BY <1>8, <2>1
  <2>3. \A j \in Loops : j # i => loops'[j].at \in {"none", "ended"}
    BY <1>8
  <2> QED BY <2>2, <2>3
<1>9. ASSUME NEW i \in Loops, NEW from, NEW to \in LoopStates, LoopGoes(i, from, to),
             from \notin {"none", "ended"}, UNCHANGED at
      PROVE  LoopInv'
  BY <1>8, <1>9, LoopMoves DEF Here
<1>10. ASSUME NEW i \in Loops,
             \/ Samples(i) \/ CallbackReturns(i) \/ CallbackStop(i)
             \/ CallbackClosing(i)
             \/ ReceiveEnds(i) \/ LoopClose(i) \/ LoopClosing(i)
      PROVE  LoopInv'
  BY <1>9, <1>10 DEF Samples, CallbackReturns, CallbackStop, CallbackClosing,
                     ReceiveEnds, LoopClose, LoopClosing, LoopStates, OnQueue,
                     userVars
<1>11. ASSUME NEW i \in Loops, Again(i) PROVE LoopInv'
  BY <1>8, <1>11 DEF Again, TypeOK, LoopTypes, userVars, Here
<1>12. ASSUME NEW u \in Users, SyncEnds(u) PROVE LoopInv'
  <2>1. Here' = "close"
    BY <1>12, UserMoves DEF SyncEnds, UserStates
  <2>2. PICK i \in Loops : LoopGoes(i, "signalled", "ended")
    BY <1>12 DEF SyncEnds, TypeOK, LoopTypes
  <2>3. loops[i].at = "signalled" /\ \A j \in Loops : j # i => loops'[j] = loops[j]
    BY <2>2, LoopMoves DEF LoopStates
  <2> QED BY <1>8, <2>1, <2>3 DEF Starting, Testing
<1>13. ASSUME NEW c \in Conns, HandleReady(c) PROVE LoopInv'
  <2>1. Here' = Here \/ Here \in {"wait", "test"}
    BY <1>13 DEF HandleReady, Here, OneUser
  <2> QED BY <1>13, <2>1 DEF HandleReady, LoopsEnded, Starting, Testing
<1> QED
  BY <1>1, <1>3, <1>4, <1>5, <1>6, <1>7, <1>10, <1>11, <1>12, <1>13
  DEF Next, UserStep, LoopStep, NetStep, vars, userVars, Command, Processed,
      Arrives, BecomesReady, Breaks, TypeOK, LoopTypes

LEMMA LoopInit == Init => LoopInv
BY UsersAssumption DEF Init, LoopInv, LoopsEnded, Here, Loops

----------------------------------------------------------------------------
(* The connections.                                                       *)
LEMMA NetInvStep ==
  ASSUME OneUser, TypeOK, LoopInv, NetInv, [Next]_vars PROVE NetInv'
<1> USE DEF NetInv, InOrder, TypeOK, NetTypes
<1>1. ASSUME UNCHANGED netVars, Here' \in Testing => Here' = Here
      PROVE  NetInv'
  BY <1>1 DEF netVars, Testing
<1>2. ASSUME NEW u \in Users, NEW from, NEW to \in UserStates, Goes(u, from, to),
             UNCHANGED netVars, to \notin Testing
      PROVE  NetInv'
  BY <1>1, <1>2, UserMoves
<1>3. ASSUME Replace PROVE InOrder' /\ net'[connection'] = "setup"
  BY <1>3, BoundsAssumption DEF Replace, Conns, NetStates
<1>4. ASSUME Replace, Here' \in Testing => Here' = "testcancelled" PROVE NetInv'
  BY <1>3, <1>4
<1>5. ASSUME NEW u \in Users, StartConnection(u) PROVE NetInv'
  <2>1. Here = "start" /\ Here' \in {"loop", "wait"}
    BY <1>5, UserMoves DEF StartConnection, UserStates, Starting
  <2> QED BY <1>5, <2>1 DEF StartConnection, Testing
<1>6. ASSUME NEW c \in Conns, BecomesReady(c) PROVE NetInv'
  BY <1>6 DEF BecomesReady, userVars, Here
<1>7. ASSUME NEW c \in Conns, Breaks(c) PROVE NetInv'
  BY <1>7 DEF Breaks, userVars, Here
<1>8. ASSUME NEW c \in Conns, HandleReady(c) PROVE NetInv'
  <2>1. Here' = Here \/ Here' = "backlog" \/ (Here = "test" /\ Here' = "testclose")
    BY <1>8 DEF HandleReady, Here, OneUser
  <2> QED BY <1>8, <2>1 DEF HandleReady, Testing
<1>9. ASSUME NEW u \in Users, TestClose(u) PROVE NetInv'
  <2>1. Here = "testclose" /\ Here' \in {"testclosing", "testcancelled"}
    BY <1>9, UserMoves DEF TestClose, UserStates, Testing
  <2> QED BY <1>9, <2>1 DEF TestClose, Testing, netVars
<1>10. ASSUME NEW u \in Users, TestClosing(u) PROVE NetInv'
  BY <1>4, <1>10, UserMoves DEF TestClosing, UserStates, Testing
<1>11. ASSUME NEW u \in Users, TimeOut(u) PROVE NetInv'
  <2>1. Here' \in {"idle", "loop"} \/ (Here = "test" /\ Here' = "dead")
    BY <1>11, UserMoves DEF TimeOut, UserStates, Testing, Starting
  <2> QED BY <1>11, <2>1 DEF TimeOut, Testing, netVars
<1>12. ASSUME NEW u \in Users,
              \/ TestCancelled(u) \/ Defer(u) \/ SendCommand(u) \/ Close(u)
              \/ Stop(u) \/ SyncEnds(u)
       PROVE  NetInv'
  BY <1>2, <1>12 DEF TestCancelled, Defer, SendCommand, Close, Stop, SyncEnds,
                     UserStates, Testing
<1>13. ASSUME NEW u \in Users, Backlog(u) \/ RemoveAll(u) \/ StartLoop(u)
       PROVE  NetInv'
  BY <1>2, <1>13 DEF Backlog, RemoveAll, StartLoop, UserStates, Starting, Testing
<1>14. ASSUME NEW u \in Users, NEW v \in Values, Set(u, v) PROVE NetInv'
  BY <1>2, <1>14 DEF Set, UserStates, Testing
<1>15. ASSUME NEW u \in Users, NEW k \in {"sync", "async"}, Read(u, k) PROVE NetInv'
  BY <1>2, <1>15 DEF Read, UserStates, Testing, Starting
<1>16. ASSUME NEW u \in Users, Closing(u) PROVE NetInv'
  BY <1>4, <1>16, UserMoves DEF Closing, UserStates, Testing
<1>17. ASSUME NEW i \in Loops, CallbackClosing(i) \/ LoopClosing(i) PROVE NetInv'
  <2>1. ~LoopsEnded
    BY <1>17 DEF CallbackClosing, LoopClosing, LoopGoes, LoopsEnded, LoopTypes
  <2>2. Here \notin Testing /\ Here' = Here
    BY <1>17, <2>1 DEF LoopInv, CallbackClosing, LoopClosing, userVars, Here
  <2> QED BY <1>4, <1>17, <2>2 DEF CallbackClosing, LoopClosing
<1> QED
  BY <1>1, <1>5, <1>6, <1>7, <1>8, <1>9, <1>10, <1>11, <1>12, <1>13, <1>14,
     <1>15, <1>16, <1>17
  DEF Next, UserStep, LoopStep, NetStep, vars, userVars, Here, Command, Samples,
      CallbackReturns, CallbackStop, Again, ReceiveEnds, LoopClose,
      Processed, Arrives, LoopTypes

LEMMA NetInit == Init => NetInv
BY UsersAssumption, BoundsAssumption DEF Init, NetInv, InOrder, Here, Conns

----------------------------------------------------------------------------
(* The list of deferred commands.                                         *)
LEMMA BacklogInvStep ==
  ASSUME OneUser, TypeOK, LoopInv, NetInv, BacklogInv, [Next]_vars
  PROVE  BacklogInv'
<1> USE DEF BacklogInv
<1>0. connection \in Conns /\ net \in [Conns -> NetStates]
  BY DEF TypeOK, NetTypes
<1>1. ASSUME UNCHANGED <<connection, net, at, backlog>>, mishaps \subseteq mishaps'
      PROVE  BacklogInv'
  BY <1>1 DEF Here
<1>2. ASSUME NEW u \in Users, NEW from, NEW to \in UserStates, Goes(u, from, to),
             UNCHANGED <<connection, net, backlog, mishaps>>,
             to \in Testing => from \in Testing,
             from \notin {"test", "wait", "backlog", "command"},
             to = "defer" => ~Active
      PROVE  BacklogInv'
  <2>1. Here = from /\ Here' = to
    BY <1>2, UserMoves
  <2> QED BY <1>2, <2>1 DEF Active
<1>3. ASSUME Replace, UNCHANGED <<backlog, mishaps>>, Here' # "wait",
             Here' \in Testing => Here \in Testing
      PROVE  BacklogInv'
  <2>1. net'[connection'] = "setup"
    BY <1>3, BoundsAssumption DEF NetInv, InOrder, Replace, Conns, TypeOK, NetTypes
  <2> QED BY <1>3, <2>1
<1>4. ASSUME NEW u \in Users, NEW v \in Values, Set(u, v) PROVE BacklogInv'
  BY <1>2, <1>4 DEF Set, UserStates, netVars, Testing
<1>5. ASSUME NEW u \in Users, NEW k \in {"sync", "async"}, Read(u, k)
      PROVE  BacklogInv'
  BY <1>2, <1>5 DEF Read, UserStates, netVars, commandVars, Testing, Starting
<1>6. ASSUME NEW u \in Users,
             \/ TestClose(u) \/ SendCommand(u) \/ Close(u) \/ Stop(u)
             \/ SyncEnds(u) \/ StartLoop(u)
      PROVE  BacklogInv'
  BY <1>2, <1>6 DEF TestClose, SendCommand, Close, Stop, SyncEnds, StartLoop,
                    UserStates, Starting, Testing, netVars, commandVars, countVars
<1>7. ASSUME NEW u \in Users, TestClosing(u) \/ Closing(u) PROVE BacklogInv'
  <2>1. \/ Here = "testclosing" /\ Here' = "testcancelled"
        \/ Here = "closing" /\ Here' = "idle"
    BY <1>7, UserMoves DEF TestClosing, Closing, UserStates, Testing
  <2> QED BY <1>3, <1>7, <2>1 DEF TestClosing, Closing, commandVars, countVars, Testing
<1>8. ASSUME NEW u \in Users, TestCancelled(u) PROVE BacklogInv'
  <2>1. Here = "testcancelled" /\ Here' = "idle"
    BY <1>8, UserMoves DEF TestCancelled, UserStates
  <2>2. net[connection] = "setup"
    BY <1>8, <2>1 DEF TestCancelled, NetInv, InOrder
  <2> QED BY <1>8, <2>1, <2>2 DEF TestCancelled, netVars, Testing
<1>9. ASSUME NEW u \in Users, Defer(u) PROVE BacklogInv'
  <2>1. Here = "defer" /\ Here' = "idle"
    BY <1>9, UserMoves DEF Defer, UserStates
  <2> QED BY <1>9, <2>1 DEF Defer, netVars, countVars, Testing
<1>10. ASSUME NEW u \in Users, StartConnection(u) PROVE BacklogInv'
  <2>1. Here = "start" /\ Here' = (IF Active THEN "loop" ELSE "wait")
    BY <1>10, UserMoves DEF StartConnection, UserStates, Starting
  <2>2. Active => net' = net
    BY <1>10 DEF Active, StartConnection
  <2> QED BY <1>0, <1>10, <2>1, <2>2
          DEF StartConnection, Active, commandVars, countVars, Testing
<1>11. ASSUME NEW u \in Users, TimeOut(u) PROVE BacklogInv'
  <2>1. \/ Here = "wait" /\ Here' \in {"idle", "loop"}
        \/ Here = "test" /\ Here' = "dead"
    BY <1>11, UserMoves DEF TimeOut, UserStates, Starting, Testing
  <2>2. "timeout" \notin mishaps' =>
          net[connection] = "failed" /\ mishaps' = mishaps
    BY <1>11 DEF TimeOut, GoesWrong
  <2> QED BY <1>11, <2>1, <2>2 DEF TimeOut, netVars, commandVars, Testing
<1>12. ASSUME NEW u \in Users, Backlog(u) PROVE BacklogInv'
  <2>1. Here = "backlog" /\ Here' = (IF Active THEN "command" ELSE "loop")
    BY <1>12, UserMoves DEF Backlog, UserStates, Starting
  <2> QED BY <1>12, <2>1 DEF Backlog, Active, netVars, commandVars, countVars, Testing
<1>13. ASSUME NEW u \in Users, Command(u) PROVE BacklogInv'
  <2>1. Here = "command" /\ Here' = "command"
    BY <1>13 DEF Command, OneUser, Here
  <2> QED BY <1>13, <2>1 DEF Command, netVars, countVars, Testing
<1>14. ASSUME NEW u \in Users, RemoveAll(u) PROVE BacklogInv'
  <2>1. Here = "command" /\ Here' = "loop"
    BY <1>14, UserMoves DEF RemoveAll, UserStates, Starting
  <2> QED BY <1>14, <2>1 DEF RemoveAll, netVars, countVars, Testing
<1>15. ASSUME NEW i \in Loops, CallbackClosing(i) \/ LoopClosing(i)
       PROVE  BacklogInv'
  <2>1. ~LoopsEnded
    BY <1>15 DEF CallbackClosing, LoopClosing, LoopGoes, LoopsEnded, TypeOK, LoopTypes
  <2>2. Here' = Here /\ Here # "wait"
    BY <1>15, <2>1 DEF LoopInv, CallbackClosing, LoopClosing, userVars, Here, Starting
  <2> QED BY <1>3, <1>15, <2>2 DEF CallbackClosing, LoopClosing, commandVars, countVars
<1>16. ASSUME NEW i \in Loops, CallbackStop(i) PROVE BacklogInv'
  BY <1>1, <1>16 DEF CallbackStop, GoesWrong, netVars, userVars, commandVars
<1>17. ASSUME NEW c \in Conns, BecomesReady(c) PROVE BacklogInv'
  <2>1. net[connection] = "connecting" \/ net'[connection] = net[connection]
    BY <1>0, <1>17 DEF BecomesReady
  <2>2. Here' = Here /\ UNCHANGED <<backlog, mishaps, connection>>
    BY <1>17 DEF BecomesReady, userVars, commandVars, countVars, Here
  <2>3. net'[connection] # "connecting" \/ net[connection] = "connecting"
    BY <1>0, <1>17 DEF BecomesReady
  <2> QED BY <2>1, <2>2, <2>3 DEF Testing
<1>18. ASSUME NEW c \in Conns, Breaks(c) PROVE BacklogInv'
  <2>1. \/ net'[connection] = net[connection]
        \/ net'[connection] \in {"failed", "eof"}
    BY <1>0, <1>18 DEF Breaks
  <2>2. Here' = Here /\ UNCHANGED <<backlog, connection>> /\ mishaps \subseteq mishaps'
    BY <1>18 DEF Breaks, GoesWrong, userVars, commandVars, Here
  <2> QED BY <2>1, <2>2
<1>19. ASSUME NEW c \in Conns, HandleReady(c) PROVE BacklogInv'
  <2>1. \/ Here' = Here
        \/ c = connection /\ Here = "wait" /\ Here' = "backlog"
        \/ c = 1 /\ Here = "test" /\ Here' = "testclose"
    BY <1>19 DEF HandleReady, Here, OneUser
  <2>2. Here' # Here => net[connection] # "connecting"
    BY <1>19, <2>1 DEF HandleReady, NetInv, InOrder, Testing
  <2> QED BY <1>19, <2>1, <2>2 DEF HandleReady, commandVars, countVars, Testing
<1> QED
  BY <1>1, <1>4, <1>5, <1>6, <1>7, <1>8, <1>9, <1>10, <1>11, <1>12, <1>13, <1>14,
     <1>15, <1>16, <1>17, <1>18, <1>19
  DEF Next, UserStep, LoopStep, NetStep, vars, netVars, userVars, commandVars,
      countVars, Samples, CallbackReturns, Again, ReceiveEnds, LoopClose,
      Processed, Arrives, TypeOK, LoopTypes

LEMMA BacklogInit == Init => BacklogInv
BY UsersAssumption, BoundsAssumption DEF Init, BacklogInv, Here, Conns

----------------------------------------------------------------------------
(* As long as nothing goes wrong.                                         *)
LEMMA MishapsStay ==
  ASSUME [Next]_vars PROVE mishaps \subseteq mishaps'
BY DEF Next, UserStep, LoopStep, NetStep, vars, countVars, GoesWrong, Set, Read,
       Stop, TestClose, TestClosing, TestCancelled, Defer, SendCommand,
       StartConnection, TimeOut, Backlog, Command, RemoveAll, StartLoop, SyncEnds,
       Close, Closing, Samples, CallbackReturns, CallbackStop, CallbackClosing,
       Again, ReceiveEnds, LoopClose, LoopClosing, Processed, Arrives,
       BecomesReady, HandleReady, Breaks

LEMMA QuietStep ==
  ASSUME OneUser, TypeOK, LoopInv, NetInv, Quiet, mishaps' = {}, [Next]_vars
  PROVE  Quiet'
<1> USE DEF Quiet
<1>0. /\ connection \in Conns /\ net \in [Conns -> NetStates]
      /\ net[connection] \in {"setup", "connecting", "ready"}
      /\ DOMAIN loops = Loops
  BY DEF TypeOK, NetTypes, NetStates, NetInv, InOrder, LoopTypes
<1>1. CASE UNCHANGED <<connection, net, at, loops>>
  BY <1>1 DEF Here
<1>2. ASSUME NEW u \in Users, NEW from, NEW to \in UserStates, Goes(u, from, to),
             UNCHANGED <<connection, net, loops>>,
             to \in {"send", "command"} => Active
      PROVE  Quiet'
  <2>1. Here' = to
    BY <1>2, UserMoves
  <2> QED BY <1>0, <1>2, <2>1 DEF Active
<1>3. ASSUME NEW u \in Users, NEW v \in Values, Set(u, v) PROVE Quiet'
  BY <1>2, <1>3 DEF Set, UserStates, netVars
<1>4. ASSUME NEW u \in Users, NEW k \in {"sync", "async"}, Read(u, k) PROVE Quiet'
  BY <1>2, <1>4 DEF Read, UserStates, netVars, Starting
<1>5. ASSUME NEW u \in Users,
             \/ TestClose(u) \/ TestCancelled(u) \/ Defer(u) \/ SendCommand(u)
             \/ Close(u) \/ Stop(u) \/ Backlog(u) \/ RemoveAll(u)
      PROVE  Quiet'
  BY <1>2, <1>5 DEF TestClose, TestCancelled, Defer, SendCommand, Close, Stop,
                    Backlog, RemoveAll, UserStates, Testing, Starting, netVars
<1>6. ASSUME NEW u \in Users, TestClosing(u) \/ Closing(u) PROVE Quiet'
  <2>1. Here' \in {"testcancelled", "idle"}
    BY <1>6, UserMoves DEF TestClosing, Closing, UserStates, Testing
  <2>2. Replace /\ UNCHANGED loops
    BY <1>6 DEF TestClosing, Closing
  <2>3. net'[connection'] = "setup"
    BY <1>0, <2>2, BoundsAssumption DEF Replace, Conns, NetInv, InOrder
  <2>4. \A c \in Conns : net'[c] \notin {"failed", "eof"}
    BY <1>0, <2>2 DEF Replace
  <2> QED BY <2>1, <2>2, <2>3, <2>4
<1>7. ASSUME NEW u \in Users, StartConnection(u) PROVE Quiet'
  <2>1. Here = "start" /\ Here' \in {"loop", "wait"}
    BY <1>7, UserMoves DEF StartConnection, UserStates, Starting
  <2>2. \A i \in Loops : loops'[i].at \in {"none", "ended"}
    BY <1>0, <1>7, <2>1 DEF StartConnection, LoopInv, LoopsEnded, Starting
  <2>3. \A c \in Conns : net'[c] \notin {"failed", "eof"}
    BY <1>0, <1>7 DEF StartConnection
  <2> QED BY <2>1, <2>2, <2>3
<1>8. ASSUME NEW u \in Users, TimeOut(u) PROVE FALSE
  BY <1>0, <1>8 DEF TimeOut, GoesWrong
<1>9. ASSUME NEW u \in Users, StartLoop(u) PROVE Quiet'
  <2>1. Here = "loop" /\ Here' \in {"receiving", "idle"}
    BY <1>9, UserMoves DEF StartLoop, UserStates
  <2>2. \A j \in Loops : loops[j].at \in {"none", "ended"}
    BY <1>0, <2>1 DEF LoopInv, LoopsEnded, Starting
  <2>3. PICK i \in Loops :
          loops' = [loops EXCEPT ![i] =
                      [user |-> u, kind |-> kind[u], conn |-> connection,
                       at |-> IF Active THEN "receive" ELSE "ended"]]
    BY <1>0, <1>9 DEF StartLoop
  <2>4. \A j \in Loops : j # i => loops'[j].at \in {"none", "ended"}
    <3>1. \A j \in Loops : j # i => loops'[j] = loops[j]
      BY <1>0, <2>3
    <3> QED BY <2>2, <3>1
  <2>5. /\ loops'[i].at \in {"receive", "ended"}
        /\ loops'[i].conn = connection
    BY <1>0, <2>3
  <2> QED BY <1>9, <2>1, <2>4, <2>5 DEF StartLoop, netVars
<1>10. ASSUME NEW i \in Loops, NEW from, NEW to \in LoopStates,
              LoopGoes(i, from, to), UNCHANGED netVars,
              Here' = Here \/ Here' \notin {"send", "command"},
              to \notin {"stopping", "closing", "receive"},
              to = "close" => net[connection] = "setup"
       PROVE  Quiet'
  BY <1>10, LoopMoves DEF netVars
<1>11. ASSUME NEW u \in Users, SyncEnds(u) PROVE Quiet'
  <2>1. Here' = "close"
    BY <1>11, UserMoves DEF SyncEnds, UserStates
  <2> QED BY <1>0, <1>10, <1>11, <2>1 DEF SyncEnds, LoopStates
<1>12. ASSUME NEW i \in Loops, Samples(i) \/ CallbackReturns(i) PROVE Quiet'
  BY <1>10, <1>12 DEF Samples, CallbackReturns, LoopStates, OnQueue, userVars, Here
<1>13. ASSUME NEW i \in Loops, ReceiveEnds(i) PROVE Quiet'
  <2>1. loops[i].conn \in Conns
    BY DEF TypeOK, LoopTypes
  <2>2. loops[i].conn # connection /\ loops[i].at = "receive"
    BY <1>0, <1>13, <2>1 DEF ReceiveEnds, LoopGoes
  <2>3. net[connection] = "setup"
    BY <2>2
  <2> QED BY <1>10, <1>13, <2>3 DEF ReceiveEnds, LoopStates, OnQueue, userVars, Here
<1>14. ASSUME NEW i \in Loops, LoopClose(i) PROVE Quiet'
  <2>1. ~Active
    BY <1>14 DEF LoopClose, LoopGoes, Active
  <2> QED BY <1>10, <1>14, <2>1 DEF LoopClose, LoopStates, userVars, Here
<1>15. ASSUME NEW i \in Loops,
              CallbackStop(i) \/ CallbackClosing(i) \/ LoopClosing(i)
       PROVE  FALSE
  BY <1>15 DEF CallbackStop, GoesWrong, CallbackClosing, LoopClosing, LoopGoes
<1>16. ASSUME NEW i \in Loops, Again(i) PROVE Quiet'
  <2>1. \A j \in Loops : j # i => loops'[j] = loops[j]
    BY <1>0, <1>16 DEF Again
  <2>2. \/ loops'[i].at = "ended"
        \/ loops'[i].at = "receive" /\ loops'[i].conn = connection
    BY <1>0, <1>16 DEF Again, TypeOK, LoopTypes
  <2> QED BY <1>16, <2>1, <2>2 DEF Again, netVars, userVars, Here
<1>17. ASSUME NEW c \in Conns, BecomesReady(c) PROVE Quiet'
  <2>1. Here' = Here /\ UNCHANGED <<connection, loops>>
    BY <1>17 DEF BecomesReady, userVars, Here
  <2>2. \A d \in Conns : net'[d] = net[d] \/ (net[d] = "connecting" /\ net'[d] = "ready")
    BY <1>0, <1>17 DEF BecomesReady
  <2> QED BY <1>0, <2>1, <2>2
<1>18. ASSUME NEW c \in Conns, HandleReady(c) PROVE Quiet'
  <2>1. Here' = Here \/ Here' \in {"backlog", "testclose"}
    BY <1>18 DEF HandleReady, Here, OneUser
  <2> QED BY <1>18, <2>1 DEF HandleReady
<1>19. ASSUME NEW c \in Conns, Breaks(c) PROVE FALSE
  BY <1>19 DEF Breaks, GoesWrong
<1> QED
  BY <1>0, <1>1, <1>3, <1>4, <1>5, <1>6, <1>7, <1>8, <1>9, <1>11, <1>12, <1>13,
     <1>14, <1>15, <1>16, <1>17, <1>18, <1>19
  DEF Next, UserStep, LoopStep, NetStep, vars, netVars, userVars, Command,
      Processed, Arrives

----------------------------------------------------------------------------
(* The deferred commands, as long as no connection is lost.               *)
LEMMA HandedOver ==
  ASSUME NEW S, NEW r \in Seq(S), NEW s \in Seq(S), s # << >>
  PROVE  r \o s = Append(r, Head(s)) \o Tail(s)
BY SMT

LEMMA ListedStep ==
  ASSUME OneUser, TypeOK, LoopInv, NetInv, Listed, [Next]_vars,
         mishaps' \cap {"fail", "fin"} = {}
  PROVE  Listed'
<1> USE DEF Listed
<1>0. /\ connection \in Conns /\ net \in [Conns -> NetStates]
      /\ net[connection] \in {"setup", "connecting", "ready"}
      /\ DOMAIN loops = Loops
      /\ backlog \in Seq(Values) /\ deferred \in Seq(Values) /\ handed \in Seq(Values)
      /\ todo \in [Users -> Seq(Values)]
  BY DEF TypeOK, NetTypes, NetStates, NetInv, InOrder, LoopTypes, CommandTypes, UserTypes
<1>1. CASE UNCHANGED <<connection, net, at, todo, backlog, listVars>>
  BY <1>1 DEF Here, listVars
<1>2. ASSUME NEW u \in Users, NEW from, NEW to \in UserStates, Goes(u, from, to),
             UNCHANGED <<connection, net, backlog, listVars>>,
             from # "command", to # "command", to \in Testing => from \in Testing
      PROVE  Listed'
  <2>1. Here = from /\ Here' = to
    BY <1>2, UserMoves
  <2> QED BY <1>2, <2>1 DEF listVars
<1>3. ASSUME NEW u \in Users, NEW v \in Values, Set(u, v) PROVE Listed'
  BY <1>2, <1>3 DEF Set, UserStates, Testing, netVars
<1>4. ASSUME NEW u \in Users, NEW k \in {"sync", "async"}, Read(u, k) PROVE Listed'
  BY <1>2, <1>4 DEF Read, UserStates, Testing, Starting, netVars, commandVars
<1>5. ASSUME NEW u \in Users,
             \/ TestClose(u) \/ SendCommand(u) \/ Close(u) \/ Stop(u)
             \/ StartLoop(u) \/ SyncEnds(u)
      PROVE  Listed'
  BY <1>2, <1>5 DEF TestClose, SendCommand, Close, Stop, StartLoop, SyncEnds,
                    UserStates, Testing, Starting, netVars, commandVars
<1>6. ASSUME NEW u \in Users, TimeOut(u) PROVE Listed'
  BY <1>2, <1>6 DEF TimeOut, UserStates, Testing, Starting, netVars, commandVars
<1>7. ASSUME NEW u \in Users, TestClosing(u) \/ Closing(u) PROVE Listed'
  <2>1. \/ Here = "testclosing" /\ Here' = "testcancelled"
        \/ Here = "closing" /\ Here' = "idle"
    BY <1>7, UserMoves DEF TestClosing, Closing, UserStates, Testing
  <2>2. Replace /\ UNCHANGED <<backlog, deferred, handed>>
    BY <1>7 DEF TestClosing, Closing, commandVars, listVars
  <2>3. \A c \in Conns : net'[c] \notin {"failed", "eof"}
    BY <1>0, <2>2 DEF Replace
  <2> QED BY <2>1, <2>2, <2>3 DEF Testing
<1>8. ASSUME NEW u \in Users, TestCancelled(u) PROVE Listed'
  <2>1. Here = "testcancelled" /\ Here' = "idle"
    BY <1>8, UserMoves DEF TestCancelled, UserStates
  <2>2. handed = << >> /\ handed' = handed
    BY <1>8, <2>1 DEF TestCancelled, Testing
  <2>3. <<Default>> \in Seq(Values)
    BY ValuesAssumption
  <2>4. deferred' = << >> \o backlog'
    BY <1>8, <2>3 DEF TestCancelled
  <2> QED BY <1>8, <2>1, <2>2, <2>4 DEF TestCancelled, netVars, Testing
<1>9. ASSUME NEW u \in Users, Defer(u) PROVE Listed'
  <2>1. Here = "defer" /\ Here' = "idle" /\ arg[u] \in Values
    BY <1>9, UserMoves DEF Defer, UserStates, TypeOK, UserTypes, Goes
  <2>2. deferred = handed \o backlog
    BY <2>1
  <2>3. /\ deferred' = Append(deferred, arg[u]) /\ backlog' = Append(backlog, arg[u])
        /\ handed' = handed
    BY <1>9 DEF Defer
  <2>4. Append(handed \o backlog, arg[u]) = handed \o Append(backlog, arg[u])
    <3> DEFINE e == arg[u]
    <3>1. e \in Values
      BY <2>1
    <3> HIDE DEF e
    <3>2. handed \in Seq(Values) /\ backlog \in Seq(Values)
      BY <1>0
    <3>3. Append(handed \o backlog, e) = handed \o Append(backlog, e)
      BY ONLY <3>1, <3>2, SMT
    <3> QED BY <3>3 DEF e
  <2>5. deferred' = handed' \o backlog'
    BY <2>2, <2>3, <2>4, Zenon
  <2> QED BY <1>9, <2>1, <2>5 DEF Defer, netVars, Testing
<1>10. ASSUME NEW u \in Users, StartConnection(u) PROVE Listed'
  <2>1. Here = "start" /\ Here' \in {"loop", "wait"}
    BY <1>10, UserMoves DEF StartConnection, UserStates, Starting
  <2>2. \A c \in Conns : net'[c] \notin {"failed", "eof"}
    BY <1>0, <1>10 DEF StartConnection
  <2> QED BY <1>10, <2>1, <2>2 DEF StartConnection, commandVars, listVars, Testing
<1>11. ASSUME NEW u \in Users, Backlog(u) PROVE Listed'
  <2>1. /\ Here = "backlog" /\ Here' \in {"command", "loop"} /\ u = Creator
        /\ Here' = "command" => Active
    BY <1>11, UserMoves DEF Backlog, UserStates, Starting
  <2>2. Active => todo'[Creator] = backlog
    BY <1>0, <1>11, <2>1 DEF Backlog
  <2>3. Active => net[connection] = "ready"
    BY <1>0 DEF Active
  <2> QED BY <1>11, <2>1, <2>2, <2>3 DEF Backlog, netVars, commandVars, listVars, Testing
<1>12. ASSUME NEW u \in Users, Command(u) PROVE Listed'
  <2>1. Here = "command" /\ Here' = "command" /\ u = Creator
    BY <1>12 DEF Command, Here, OneUser
  <2>2. Active /\ todo[u] # << >>
    BY <1>12, <2>1 DEF Active, Command
  <2>3. /\ handed' = Append(handed, Head(todo[Creator]))
        /\ todo'[Creator] = Tail(todo[Creator])
    BY <1>0, <1>12, <2>1, <2>2 DEF Command
  <2>4. deferred = handed' \o todo'[Creator]
    BY <1>0, <2>1, <2>2, <2>3, HandedOver
  <2> QED BY <1>12, <2>1, <2>4 DEF Command, netVars, Testing
<1>13. ASSUME NEW u \in Users, RemoveAll(u) PROVE Listed'
  <2>1. Here = "command" /\ Here' = "loop" /\ u = Creator
    BY <1>13, UserMoves DEF RemoveAll, UserStates, Starting
  <2>2. todo[Creator] = << >> /\ backlog' = << >>
    BY <1>13, <2>1 DEF RemoveAll
  <2> QED BY <1>13, <2>1, <2>2 DEF RemoveAll, netVars, listVars, Testing
<1>14. ASSUME NEW i \in Loops, CallbackClosing(i) \/ LoopClosing(i) PROVE Listed'
  <2>1. ~LoopsEnded
    BY <1>14 DEF CallbackClosing, LoopClosing, LoopGoes, LoopsEnded, TypeOK, LoopTypes
  <2>2. Here \notin Starting \cup Testing
    BY <2>1 DEF LoopInv
  <2>3. /\ Replace /\ UNCHANGED <<backlog, deferred, handed>>
        /\ Here' = Here
    BY <1>14 DEF CallbackClosing, LoopClosing, userVars, commandVars, listVars, Here
  <2>4. \A c \in Conns : net'[c] \notin {"failed", "eof"}
    BY <1>0, <2>3 DEF Replace
  <2> QED BY <2>2, <2>3, <2>4 DEF Starting
<1>15. ASSUME NEW c \in Conns, BecomesReady(c) PROVE Listed'
  <2>1. /\ Here' = Here /\ UNCHANGED <<connection, todo, backlog, deferred, handed>>
    BY <1>15 DEF BecomesReady, userVars, commandVars, listVars, Here
  <2>2. \A d \in Conns : net'[d] = net[d] \/ (net[d] = "connecting" /\ net'[d] = "ready")
    BY <1>0, <1>15 DEF BecomesReady
  <2> QED BY <1>0, <2>1, <2>2
<1>16. ASSUME NEW c \in Conns, Breaks(c) PROVE FALSE
  BY <1>16 DEF Breaks, GoesWrong
<1>17. ASSUME NEW c \in Conns, HandleReady(c) PROVE Listed'
  <2>1. \/ Here' = Here
        \/ Here \in {"wait", "test"} /\ Here' \in {"backlog", "testclose"}
             /\ (Here' = "testclose" => Here = "test")
    BY <1>17 DEF HandleReady, Here, OneUser
  <2> QED BY <1>17, <2>1 DEF HandleReady, commandVars, listVars, Testing
<1> QED
  BY <1>0, <1>1, <1>3, <1>4, <1>5, <1>6, <1>7, <1>8, <1>9, <1>10, <1>11, <1>12,
     <1>13, <1>14, <1>15, <1>16, <1>17
  DEF Next, UserStep, LoopStep, NetStep, vars, netVars, userVars, commandVars,
      listVars, Samples, CallbackReturns, CallbackStop, Again, ReceiveEnds,
      LoopClose, Processed, Arrives

----------------------------------------------------------------------------
(* What was asked for last is the last on its way.                        *)
LEMMA SendSent ==
  ASSUME TypeOK, NEW v \in Values, Send(v) PROVE Sent' = v
<1>1. [conn |-> connection, value |-> v] \in Commands
  BY DEF Commands, TypeOK, NetTypes
<1>2. wire' # << >> /\ Last(wire') = [conn |-> connection, value |-> v]
  BY <1>1, Added DEF Send, TypeOK, CommandTypes
<1> QED BY <1>2 DEF Sent

LEMMA ValueStep ==
  ASSUME OneUser, TypeOK, BacklogInv, Quiet, Value, mishaps = {}, [Next]_vars,
         mishaps' = {}
  PROVE  Value'
<1> USE DEF Value
<1>1. CASE UNCHANGED <<userVars, commandVars>>
  BY <1>1 DEF userVars, commandVars, Here, Sent, Arrived
<1>2. CASE /\ UNCHANGED <<arg, todo, commandVars>>
           /\ Here \notin {"send", "defer", "command"}
           /\ Here' \notin {"send", "defer", "command"}
  BY <1>2 DEF commandVars, Sent, Arrived
<1>3. ASSUME NEW u \in Users,
             \/ TestClose(u) \/ TestClosing(u) \/ Close(u) \/ Closing(u) \/ Stop(u)
             \/ SyncEnds(u)
      PROVE  Value'
  <2>1. /\ Here \notin {"send", "defer", "command"}
        /\ Here' \notin {"send", "defer", "command"}
    BY <1>3, UserMoves DEF TestClose, TestClosing, Close, Closing, Stop, SyncEnds,
                           UserStates, Testing
  <2> QED BY <1>2, <1>3, <2>1 DEF TestClose, TestClosing, Close, Closing, Stop, SyncEnds
<1>4. ASSUME NEW u \in Users, StartConnection(u) \/ TimeOut(u) \/ StartLoop(u)
      PROVE  Value'
  <2>1. /\ Here \notin {"send", "defer", "command"}
        /\ Here' \notin {"send", "defer", "command"}
    BY <1>4, UserMoves DEF StartConnection, TimeOut, StartLoop, UserStates, Starting,
                           Testing
  <2> QED BY <1>2, <1>4, <2>1 DEF StartConnection, TimeOut, StartLoop
<1>5. ASSUME NEW u \in Users, NEW k \in {"sync", "async"}, Read(u, k) PROVE Value'
  <2>1. Here = "idle" /\ Here' \in {"idle", "start"}
    BY <1>5, UserMoves DEF Read, UserStates, Starting
  <2> QED BY <1>2, <1>5, <2>1 DEF Read
<1>6. ASSUME NEW c \in Conns, HandleReady(c) PROVE Value'
  <2>1. \/ Here' = Here
        \/ Here \in {"wait", "test"} /\ Here' \in {"backlog", "testclose"}
    BY <1>6 DEF HandleReady, Here, OneUser
  <2> QED BY <1>2, <1>6, <2>1 DEF HandleReady, commandVars, Sent, Arrived
<1>7. ASSUME NEW u \in Users, NEW v \in Values, Set(u, v) PROVE Value'
  <2>1. Here' \in {"send", "defer"} /\ u = Creator
    BY <1>7, UserMoves DEF Set, UserStates
  <2>2. arg'[Creator] = v
    BY <1>7, <2>1 DEF Set, TypeOK, UserTypes
  <2> QED BY <1>7, <2>1, <2>2 DEF Set, Arrived
<1>8. ASSUME NEW u \in Users, TestCancelled(u) PROVE Value'
  <2>1. Here' = "idle"
    BY <1>8, UserMoves DEF TestCancelled, UserStates
  <2>2. backlog' # << >> /\ Last(backlog') = Default
    BY <1>8 DEF TestCancelled, Last
  <2> QED BY <1>8, <2>1, <2>2 DEF TestCancelled, Arrived
<1>9. ASSUME NEW u \in Users, Defer(u) PROVE Value'
  <2>1. Here = "defer" /\ Here' = "idle" /\ u = Creator /\ arg[u] \in Values
    BY <1>9, UserMoves DEF Defer, UserStates, TypeOK, UserTypes, Goes
  <2>2. backlog' = Append(backlog, arg[Creator]) /\ backlog \in Seq(Values)
    BY <1>9, <2>1 DEF Defer, TypeOK, CommandTypes
  <2>3. backlog' # << >> /\ Last(backlog') = arg[Creator]
    BY <2>1, <2>2, Added
  <2> QED BY <1>9, <2>1, <2>3 DEF Defer, Arrived
<1>10. ASSUME NEW u \in Users, SendCommand(u) PROVE Value'
  <2>1. Here = "send" /\ Here' = "idle" /\ u = Creator /\ arg[u] \in Values
    BY <1>10, UserMoves DEF SendCommand, UserStates, TypeOK, UserTypes, Goes
  <2>2. Active /\ backlog = << >>
    BY <2>1 DEF Quiet, BacklogInv, Active
  <2>3. Sent' = arg[Creator]
    BY <1>10, <2>1, <2>2, SendSent DEF SendCommand
  <2> QED BY <1>10, <2>1, <2>2, <2>3 DEF SendCommand, Arrived
<1>11. ASSUME NEW u \in Users, Backlog(u) PROVE Value'
  <2>1. Here = "backlog" /\ Here' \in {"command", "loop"} /\ u = Creator
        /\ (Here' = "command" => Active)
    BY <1>11, UserMoves DEF Backlog, UserStates, Starting
  <2>2. Active => todo'[Creator] = backlog
    BY <1>11, <2>1 DEF Backlog, TypeOK, UserTypes
  <2> QED BY <1>11, <2>1, <2>2 DEF Backlog, commandVars, Arrived, Sent
<1>12. ASSUME NEW u \in Users, Command(u) PROVE Value'
  <2>1. Here = "command" /\ Here' = "command" /\ u = Creator
    BY <1>12 DEF Command, Here, OneUser
  <2>2. /\ todo[Creator] \in Seq(Values) /\ todo[Creator] # << >>
        /\ todo'[Creator] = Tail(todo[Creator])
    BY <1>12, <2>1 DEF Command, TypeOK, UserTypes
  <2>3. Active
    BY <2>1 DEF Quiet, Active
  <2>4. Sent' = Head(todo[Creator])
    BY <1>12, <2>1, <2>2, <2>3, SendSent, Taken DEF Command
  <2>5. asked = Last(todo[Creator])
    BY <2>1, <2>2
  <2>6. asked = IF todo'[Creator] # << >> THEN Last(todo'[Creator]) ELSE Sent'
    BY <2>2, <2>4, <2>5, Taken
  <2> QED BY <1>12, <2>1, <2>6 DEF Command, Arrived
<1>13. ASSUME NEW u \in Users, RemoveAll(u) PROVE Value'
  <2>1. Here = "command" /\ Here' = "loop" /\ u = Creator
    BY <1>13, UserMoves DEF RemoveAll, UserStates, Starting
  <2> QED BY <1>13, <2>1 DEF RemoveAll, Arrived, Sent
<1>14. CASE Processed
  <2>1. /\ Head(wire) \in Commands /\ Tail(wire) \in Seq(Commands)
        /\ Tail(wire) = << >> => Head(wire) = Last(wire)
        /\ Tail(wire) # << >> => Last(Tail(wire)) = Last(wire)
    BY <1>14, Taken DEF Processed, TypeOK, CommandTypes
  <2>2. net[Head(wire).conn] # "failed"
    BY <2>1 DEF Quiet, Commands
  <2>3. /\ wire' = Tail(wire) /\ link' = Append(link, Head(wire))
        /\ cached' = Head(wire).value /\ wire # << >>
        /\ UNCHANGED <<userVars, backlog, asked>>
    BY <1>14, <2>2 DEF Processed
  <2>4. Sent' = Sent
    BY <2>1, <2>3 DEF Sent
  <2>5. link' # << >> /\ Last(link') = Head(wire)
    BY <2>1, <2>3, Added DEF TypeOK, CommandTypes
  <2>6. Arrived' = cached'
    BY <2>3, <2>5 DEF Arrived
  <2> QED BY <2>3, <2>4, <2>6 DEF userVars, Here
<1>15. CASE Arrives
  <2>1. /\ Head(link) \in Commands
        /\ Tail(link) = << >> => Head(link) = Last(link)
        /\ Tail(link) # << >> => Last(Tail(link)) = Last(link)
    BY <1>15, Taken DEF Arrives, TypeOK, CommandTypes
  <2>2. net[Head(link).conn] \notin {"failed", "eof"}
    BY <2>1 DEF Quiet, Commands
  <2>3. /\ link # << >> /\ link' = Tail(link) /\ device' = Head(link).value
        /\ UNCHANGED <<userVars, backlog, wire, cached, asked>>
    BY <1>15, <2>2 DEF Arrives
  <2>4. Arrived' = Arrived
    BY <2>1, <2>3 DEF Arrived
  <2> QED BY <2>3, <2>4 DEF userVars, Here, Sent
<1> QED
  BY <1>1, <1>3, <1>4, <1>5, <1>6, <1>7, <1>8, <1>9, <1>10, <1>11, <1>12, <1>13,
     <1>14, <1>15
  DEF Next, UserStep, LoopStep, NetStep, vars, Samples, CallbackReturns,
      CallbackStop, CallbackClosing, Again, ReceiveEnds, LoopClose, LoopClosing,
      BecomesReady, Breaks, TypeOK, LoopTypes, Loops

----------------------------------------------------------------------------
LEMMA InitInv == Init => Inv
<1>1. Init => TypeOK
  BY UsersAssumption, BoundsAssumption
  DEF Init, TypeOK, NetTypes, UserTypes, CommandTypes, LoopTypes, Conns, NetStates,
      UserStates, Testing, LoopStates, Settings, Loops
<1>2. Init => LoopInv
  BY LoopInit
<1>3. Init => NetInv
  BY NetInit
<1>4. Init => BacklogInv
  BY BacklogInit
<1>5. Init => ListInv
  BY UsersAssumption, BoundsAssumption
  DEF Init, ListInv, Lossless, Listed, Conns, Here
<1>6. Init => QuietInv
  BY UsersAssumption, BoundsAssumption
  DEF Init, QuietInv, Quiet, Conns, Here, Loops
<1>7. Init => ValueInv
  BY UsersAssumption DEF Init, ValueInv, Value, Sent, Arrived, Here
<1> QED BY <1>1, <1>2, <1>3, <1>4, <1>5, <1>6, <1>7 DEF Inv

LEMMA InvStep ==
  ASSUME OneUser, Patient, Inv, [Next]_vars PROVE Inv'
<1> USE DEF Inv
<1>1. TypeOK'
  BY TypeStep
<1>2. LoopInv' /\ NetInv' /\ BacklogInv'
  BY LoopInvStep, NetInvStep, BacklogInvStep
<1>3. mishaps' = {} => mishaps = {}
  BY MishapsStay
<1>4. QuietInv'
  BY <1>3, QuietStep DEF QuietInv
<1>5. ValueInv'
  BY <1>3, ValueStep DEF QuietInv, ValueInv
<1>6. Lossless' => Lossless
  BY MishapsStay DEF Lossless
<1>7. ListInv'
  BY <1>6, ListedStep DEF ListInv, Lossless
<1> QED BY <1>1, <1>2, <1>4, <1>5, <1>7

THEOREM PatientInv == ASSUME OneUser, Patient PROVE Spec => []Inv
<1>1. Inv /\ [Next]_vars => Inv'
  BY InvStep
<1> QED BY <1>1, InitInv, PTL DEF Spec

(* One connection feeds one receive loop.                                 *)
THEOREM AlwaysOneLoop == ASSUME OneUser, Patient PROVE Spec => []OneLoop
<1>1. Inv => OneLoop
  BY DEF Inv, LoopInv, OneLoop, TypeOK, LoopTypes
<1> QED BY <1>1, PatientInv, PTL

(* Every deferred command is given to a connection once and in order,     *)
(* unless a connection is lost, and at rest none is left on the list,     *)
(* unless one took too long.                                              *)
THEOREM AlwaysSent == ASSUME OneUser, Patient PROVE Spec => []BacklogSent
<1>1. Inv => BacklogSent
  <2>1. AtRest => Here = "idle" /\ net[connection] = "ready"
    BY UsersAssumption DEF AtRest, Here
  <2> QED BY <2>1 DEF Inv, BacklogInv, ListInv, Lossless, Listed, BacklogSent
<1> QED BY <1>1, PatientInv, PTL

(* The value asked for last wins, deferred or not.                        *)
THEOREM AlwaysLastWins == ASSUME OneUser, Patient PROVE Spec => []LastCommandWins
<1>1. ASSUME Inv, AtRest, mishaps = {}, wire = << >>, link = << >>
      PROVE  device = asked /\ cached = asked
  <2>1. Here = "idle" /\ net[connection] = "ready"
    BY <1>1, UsersAssumption DEF AtRest, Here
  <2>2. backlog = << >>
    BY <1>1, <2>1 DEF Inv, BacklogInv
  <2> QED BY <1>1, <2>1, <2>2 DEF Inv, ValueInv, Value, Sent, Arrived
<1>2. Inv => LastCommandWins
  BY <1>1 DEF LastCommandWins
<1> QED BY <1>2, PatientInv, PTL
=============================================================================
