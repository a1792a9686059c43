----------------------------- MODULE TcpClient -----------------------------
(***************************************************************************)
(* RTLSDR_TCP: the Swift client of an rtl_tcp server.  Users' threads set  *)
(* parameters, read and stop; the handlers of the connection, the receive  *)
(* loops and the client's callback run one at a time on dedicatedQueue.    *)
(* No lock protects connection or commandBacklog.                          *)
(*                                                                         *)
(* The ten setters are alike (a guard, a deferred call of itself, a        *)
(* command whose completion sets a cached field) and are modelled by one   *)
(* parameter that takes a few values.  Network.framework and the server    *)
(* are external: a started connection becomes ready, may fail or be closed *)
(* by the server, and a cancelled one still delivers what was sent on it.  *)
(***************************************************************************)
EXTENDS Naturals, Sequences, FiniteSets

CONSTANTS
  Users,          \* threads that use the object
  Creator,        \* the one that runs init
  Values,         \* values of the parameter
  Default,        \* the one initOperations sets
  NoValue,        \* no value yet
  Faults,         \* of FaultKinds
  Patient,        \* does a user who has stopped a read wait for its loop to
                  \* end before starting the next?
  CallbackStops,  \* may the callback call stopAsyncRead?
  MaxConns,       \* bound on connection objects
  MaxStarts,      \* bound on reads
  MaxSets,        \* bound on calls of a setter
  MaxMishaps      \* bound on the kinds of things that go wrong together

(* "timeout": a connection may take more than the second that is waited     *)
(* for; "fail": one that is ready may be lost; "fin": the server may close  *)
(* it.                                                                      *)
FaultKinds == {"timeout", "fail", "fin"}

Mishaps == FaultKinds \cup {"callback"}  \* the callback has stopped a read

ASSUME UsersAssumption == Creator \in Users
ASSUME ValuesAssumption == Default \in Values /\ NoValue \notin Values
ASSUME ClientAssumption ==
  Faults \subseteq FaultKinds /\ Patient \in BOOLEAN /\ CallbackStops \in BOOLEAN
ASSUME BoundsAssumption ==
  MaxConns \in Nat \ {0} /\ MaxStarts \in Nat /\ MaxSets \in Nat
  /\ MaxMishaps \in Nat

VARIABLES
  connection,  \* the current connection object
  net,         \* state of each connection object
  ready,       \* those whose .ready has not been handled yet
  at,          \* where each user is
  arg,         \* the value it sets
  kind,        \* what it reads: "sync" or "async"
  todo,        \* the commands executeBacklog has yet to run
  backlog,     \* commandBacklog
  wire,        \* commands sent and not processed: [conn, value]
  link,        \* commands on their way to the server
  cached,      \* the field of the object
  device,      \* the parameter at the server
  asked,       \* the value asked for last
  loops,       \* the receive loop of each read
  mishaps,     \* history: what has gone wrong, of Mishaps
  deferred,    \* history: the commands put on the list,
  handed,      \* and those of them given to a connection
  starts, sets \* how many reads and setter calls there have been

netVars == <<connection, net, ready>>
userVars == <<at, arg, kind, todo>>
commandVars == <<backlog, wire, link, cached, device, asked>>
listVars == <<deferred, handed>>
countVars == <<starts, sets, mishaps>>
vars == <<netVars, userVars, commandVars, loops, countVars, listVars>>

Conns == 1 .. MaxConns
OnQueue == {"callback", "stopping", "again", "close", "closing"}
Testing == {"test", "testclose", "testclosing", "testcancelled", "dead"}

Init ==
  /\ connection = 1
  /\ net = [c \in Conns |-> IF c = 1 THEN "connecting" ELSE "setup"]
  /\ ready = {}
  /\ at = [u \in Users |-> IF u = Creator THEN "test" ELSE "idle"]
  /\ arg = [u \in Users |-> NoValue] /\ kind = [u \in Users |-> "sync"]
  /\ todo = [u \in Users |-> << >>]
  /\ backlog = << >> /\ wire = << >> /\ link = << >>
  /\ cached = NoValue /\ device = NoValue /\ asked = NoValue
  /\ loops = [i \in 1 .. MaxStarts |->
                [user |-> Creator, kind |-> "sync", conn |-> 1, at |-> "none"]]
  /\ mishaps = {} /\ starts = 0 /\ sets = 0
  /\ deferred = << >> /\ handed = << >>

----------------------------------------------------------------------------
(* activeConnection                                                         *)
Active == net[connection] \in {"ready", "eof"}
QueueFree == \A i \in DOMAIN loops : loops[i].at \notin OnQueue
Created == at[Creator] \notin Testing
Goes(u, from, to) == at[u] = from /\ at' = [at EXCEPT ![u] = to]
LoopGoes(i, from, to) ==
  loops[i].at = from /\ loops' = [loops EXCEPT ![i].at = to]

GoesWrong(m) ==
  /\ mishaps' = mishaps \cup {m}
  /\ Cardinality(mishaps') <= MaxMishaps

(* Mutant: the old connection is not cancelled.                             *)
Replace_NoCancel ==
  /\ connection < MaxConns
  /\ connection' = connection + 1
  /\ UNCHANGED <<net, ready>>

(* The body of closeConnection after its guard.                             *)
Replace ==
  /\ connection < MaxConns
  /\ net' = [net EXCEPT ![connection] = "cancelled"]
  /\ connection' = connection + 1
  /\ UNCHANGED ready

(* Setting the parameter sends a command over the current connection.       *)
Send(v) == wire' = Append(wire, [conn |-> connection, value |-> v])

----------------------------------------------------------------------------
(* testConnection and initOperations                                        *)

TestClose(u) ==
  /\ Goes(u, "testclose", IF Active THEN "testclosing" ELSE "testcancelled")
  /\ UNCHANGED <<netVars, arg, kind, todo, commandVars, loops, countVars, listVars>>

(* Mutant: the connection is replaced and the old one left open.            *)
TestClosing_NoCancel(u) ==
  /\ Goes(u, "testclosing", "testcancelled")
  /\ Replace_NoCancel
  /\ UNCHANGED <<arg, kind, todo, commandVars, loops, countVars, listVars>>

TestClosing(u) ==
  /\ Goes(u, "testclosing", "testcancelled")
  /\ Replace
  /\ UNCHANGED <<arg, kind, todo, commandVars, loops, countVars, listVars>>

(* The second wait has no time-out: it is released by .cancelled alone.     *)
TestCancelled(u) ==
  /\ Goes(u, "testcancelled", "idle")
  /\ net[1] = "cancelled"
  /\ backlog' = <<Default>> /\ deferred' = <<Default>>
  /\ asked' = Default
  /\ UNCHANGED <<netVars, arg, kind, todo, wire, link, cached, device, loops,
                 countVars, handed>>

----------------------------------------------------------------------------
(* The setters and sendCommand                                              *)

Set(u, v) ==
  /\ Created
  /\ sets < MaxSets /\ sets' = sets + 1
  /\ Goes(u, "idle", IF Active THEN "send" ELSE "defer")
  /\ arg' = [arg EXCEPT ![u] = v]
  /\ asked' = v
  /\ UNCHANGED <<netVars, kind, todo, backlog, wire, link, cached, device,
                 loops, starts, mishaps, listVars>>

Defer(u) ==
  /\ Goes(u, "defer", "idle")
  /\ backlog' = Append(backlog, arg[u])
  /\ deferred' = Append(deferred, arg[u])
  /\ UNCHANGED <<netVars, arg, kind, todo, wire, link, cached, device, asked,
                 loops, countVars, handed>>

(* sendCommand looks at the connection again and drops the command when it  *)
(* is no longer active.                                                     *)
SendCommand(u) ==
  /\ Goes(u, "send", "idle")
  /\ IF Active THEN Send(arg[u]) ELSE UNCHANGED wire
  /\ UNCHANGED <<netVars, arg, kind, todo, backlog, link, cached, device,
                 asked, loops, countVars, listVars>>

(* Mutant: the completions are taken in the wrong order.                    *)
Processed_Last ==
  /\ wire # << >>
  /\ QueueFree
  /\ wire' = SubSeq(wire, 1, Len(wire) - 1)
  /\ link' = Append(link, wire[Len(wire)])
  /\ cached' = wire[Len(wire)].value
  /\ UNCHANGED <<netVars, userVars, backlog, device, asked, loops,
                 countVars, listVars>>

(* The command is handed over and its completion runs on the queue; it      *)
(* fails when the connection has failed.                                    *)
Processed ==
  /\ wire # << >>
  /\ QueueFree
  /\ wire' = Tail(wire)
  /\ IF net[Head(wire).conn] = "failed"
     THEN UNCHANGED <<link, cached>>
     ELSE link' = Append(link, Head(wire)) /\ cached' = Head(wire).value
  /\ UNCHANGED <<netVars, userVars, backlog, device, asked, loops,
                 countVars, listVars>>

----------------------------------------------------------------------------
(* startConnection and executeBacklog, called by the two reads              *)

LoopsEnded == \A i \in DOMAIN loops : loops[i].at \in {"none", "ended"}

(* Mutant: a read does not ask whether the connection is active.            *)
Read_NoGuard(u, k) ==
  /\ Created
  /\ starts < MaxStarts /\ starts' = starts + 1
  /\ Patient => LoopsEnded \/ Active
  /\ Goes(u, "idle", "start")
  /\ kind' = [kind EXCEPT ![u] = k]
  /\ UNCHANGED <<netVars, arg, todo, commandVars, loops, sets, mishaps, listVars>>

Read(u, k) ==
  /\ Created
  /\ starts < MaxStarts /\ starts' = starts + 1
  /\ Patient => LoopsEnded \/ Active
  /\ Goes(u, "idle", IF Active THEN "idle" ELSE "start")
  /\ kind' = [kind EXCEPT ![u] = k]
  /\ UNCHANGED <<netVars, arg, todo, commandVars, loops, sets, mishaps, listVars>>

StartConnection(u) ==
  /\ Goes(u, "start", IF Active THEN "loop" ELSE "wait")
  /\ net' = IF net[connection] = "setup"
            THEN [net EXCEPT ![connection] = "connecting"] ELSE net
  /\ UNCHANGED <<connection, ready, arg, kind, todo, commandVars, loops,
                 countVars, listVars>>

(* The second is over: the connection is slow, or has failed.               *)
TimeOut(u) ==
  /\ \/ "timeout" \in Faults /\ GoesWrong("timeout")
     \/ net[connection] = "failed" /\ ready = {} /\ UNCHANGED mishaps
  /\ \/ Goes(u, "wait", IF kind[u] = "sync" THEN "idle" ELSE "loop")
     \/ Goes(u, "test", "dead")
  /\ UNCHANGED <<netVars, arg, kind, todo, commandVars, loops, starts,
                 sets, listVars>>

Backlog(u) ==
  /\ Goes(u, "backlog", IF Active THEN "command" ELSE "loop")
  /\ todo' = [todo EXCEPT ![u] = IF Active THEN backlog ELSE << >>]
  /\ UNCHANGED <<netVars, arg, kind, commandVars, loops, countVars, listVars>>

(* A deferred call is the setter again: it may put itself back on the list. *)
Command(u) ==
  /\ at[u] = "command" /\ todo[u] # << >>
  /\ todo' = [todo EXCEPT ![u] = Tail(@)]
  /\ IF Active
     THEN /\ Send(Head(todo[u])) /\ handed' = Append(handed, Head(todo[u]))
          /\ UNCHANGED backlog
     ELSE backlog' = Append(backlog, Head(todo[u])) /\ UNCHANGED <<wire, handed>>
  /\ UNCHANGED <<netVars, at, arg, kind, link, cached, device, asked, loops,
                 countVars, deferred>>

(* Mutant: the list is not emptied.                                         *)
RemoveAll_Keeps(u) ==
  /\ todo[u] = << >>
  /\ Goes(u, "command", "loop")
  /\ UNCHANGED <<netVars, arg, kind, todo, commandVars, loops, countVars, listVars>>

RemoveAll(u) ==
  /\ todo[u] = << >>
  /\ Goes(u, "command", "loop")
  /\ backlog' = << >>
  /\ UNCHANGED <<netVars, arg, kind, todo, wire, link, cached, device, asked,
                 loops, countVars, listVars>>

----------------------------------------------------------------------------
(* syncReceiveLoop and asyncReceieveLoop                                    *)

(* The first call of the loop, on the user's thread.  asyncReadSamples gets *)
(* here after a failed connection too.  syncReadSamples then waits.         *)
StartLoop(u) ==
  /\ Goes(u, "loop", IF kind[u] = "sync" THEN "receiving" ELSE "idle")
  /\ \E i \in DOMAIN loops :
       /\ loops[i].at = "none"
       /\ \A j \in DOMAIN loops : j < i => loops[j].at # "none"
       /\ loops' = [loops EXCEPT ![i] =
            [user |-> u, kind |-> kind[u], conn |-> connection,
             at |-> IF Active THEN "receive" ELSE "ended"]]
  /\ UNCHANGED <<netVars, arg, kind, todo, commandVars, countVars, listVars>>

(* The semaphore of syncReadSamples has been signalled.                     *)
SyncEnds(u) ==
  /\ \E i \in DOMAIN loops :
       /\ loops[i].user = u
       /\ LoopGoes(i, "signalled", "ended")
  /\ Goes(u, "receiving", "close")
  /\ UNCHANGED <<netVars, arg, kind, todo, commandVars, countVars, listVars>>

(* Samples: the callback, or the buffer, full or not yet.                   *)
Samples(i) ==
  /\ QueueFree
  /\ net[loops[i].conn] = "ready"
  /\ IF loops[i].kind = "async" THEN LoopGoes(i, "receive", "callback")
     ELSE LoopGoes(i, "receive", "again") \/ LoopGoes(i, "receive", "signalled")
  /\ UNCHANGED <<netVars, userVars, commandVars, countVars, listVars>>

CallbackReturns(i) ==
  /\ LoopGoes(i, "callback", "again")
  /\ UNCHANGED <<netVars, userVars, commandVars, countVars, listVars>>

CallbackStop(i) ==
  /\ CallbackStops /\ Active
  /\ LoopGoes(i, "callback", "stopping")
  /\ GoesWrong("callback")
  /\ UNCHANGED <<netVars, userVars, commandVars, starts, sets, listVars>>

CallbackClosing(i) ==
  /\ LoopGoes(i, "stopping", "again")
  /\ Replace
  /\ UNCHANGED <<userVars, commandVars, countVars, listVars>>

(* The loop goes on with whatever the connection is now; without one it     *)
(* ends, and signals nobody.                                                *)
Again(i) ==
  /\ loops[i].at = "again"
  /\ loops' = IF Active
              THEN [loops EXCEPT ![i].at = "receive", ![i].conn = connection]
              ELSE [loops EXCEPT ![i].at = "ended"]
  /\ UNCHANGED <<netVars, userVars, commandVars, countVars, listVars>>

(* Mutant: only a full buffer signals the reader.                           *)
ReceiveEnds_Silent(i) ==
  /\ QueueFree
  /\ net[loops[i].conn] \in {"eof", "failed", "cancelled"}
  /\ LoopGoes(i, "receive", IF loops[i].kind = "sync" THEN "ended" ELSE "close")
  /\ UNCHANGED <<netVars, userVars, commandVars, countVars, listVars>>

(* An error, or the last message.                                           *)
ReceiveEnds(i) ==
  /\ QueueFree
  /\ net[loops[i].conn] \in {"eof", "failed", "cancelled"}
  /\ LoopGoes(i, "receive", IF loops[i].kind = "sync" THEN "signalled" ELSE "close")
  /\ UNCHANGED <<netVars, userVars, commandVars, countVars, listVars>>

LoopClose(i) ==
  /\ LoopGoes(i, "close", IF Active THEN "closing" ELSE "ended")
  /\ UNCHANGED <<netVars, userVars, commandVars, countVars, listVars>>

LoopClosing(i) ==
  /\ LoopGoes(i, "closing", "ended")
  /\ Replace
  /\ UNCHANGED <<userVars, commandVars, countVars, listVars>>

----------------------------------------------------------------------------
(* stopAsyncRead, and closeConnection on a user's thread                    *)

Stop(u) ==
  /\ Created /\ Active
  /\ Goes(u, "idle", "close")
  /\ UNCHANGED <<netVars, arg, kind, todo, commandVars, loops, countVars, listVars>>

Close(u) ==
  /\ Goes(u, "close", IF Active THEN "closing" ELSE "idle")
  /\ UNCHANGED <<netVars, arg, kind, todo, commandVars, loops, countVars, listVars>>

Closing(u) ==
  /\ Goes(u, "closing", "idle")
  /\ Replace
  /\ UNCHANGED <<arg, kind, todo, commandVars, loops, countVars, listVars>>

----------------------------------------------------------------------------
(* The network and the server                                               *)

BecomesReady(c) ==
  /\ net[c] = "connecting"
  /\ net' = [net EXCEPT ![c] = "ready"]
  /\ ready' = ready \cup {c}
  /\ UNCHANGED <<connection, userVars, commandVars, loops, countVars, listVars>>

(* The state handler signals those that wait.  The test has its own queue.  *)
HandleReady(c) ==
  /\ c \in ready
  /\ ready' = ready \ {c}
  /\ c # 1 => QueueFree
  /\ at' = [u \in Users |-> CASE c = connection /\ at[u] = "wait" -> "backlog"
                              [] c = 1 /\ at[u] = "test" -> "testclose"
                              [] OTHER -> at[u]]
  /\ UNCHANGED <<connection, net, arg, kind, todo, commandVars, loops,
                 countVars, listVars>>

Breaks(c) ==
  /\ net[c] = "ready"
  /\ \/ /\ "fail" \in Faults
        /\ net' = [net EXCEPT ![c] = "failed"]
        /\ GoesWrong("fail")
     \/ /\ "fin" \in Faults
        /\ net' = [net EXCEPT ![c] = "eof"]
        /\ GoesWrong("fin")
  /\ UNCHANGED <<connection, ready, userVars, commandVars, loops, starts,
                 sets, listVars>>

Arrives ==
  /\ link # << >>
  /\ link' = Tail(link)
  /\ device' = IF net[Head(link).conn] \in {"failed", "eof"} THEN device
               ELSE Head(link).value
  /\ UNCHANGED <<netVars, userVars, backlog, wire, cached, asked, loops,
                 countVars, listVars>>

----------------------------------------------------------------------------
UserStep(u) ==
  \/ TestClose(u) \/ TestClosing(u) \/ TestCancelled(u)
  \/ Defer(u) \/ SendCommand(u)
  \/ StartConnection(u) \/ TimeOut(u)
  \/ Backlog(u) \/ Command(u) \/ RemoveAll(u)
  \/ StartLoop(u) \/ SyncEnds(u) \/ Close(u) \/ Closing(u)

LoopStep(i) ==
  \/ Samples(i) \/ CallbackReturns(i) \/ CallbackClosing(i) \/ Again(i)
  \/ ReceiveEnds(i) \/ LoopClose(i) \/ LoopClosing(i)

NetStep == Processed \/ Arrives \/ \E c \in Conns : HandleReady(c)

Next ==
  \/ \E u \in Users :
       \/ \E v \in Values : Set(u, v)
       \/ \E k \in {"sync", "async"} : Read(u, k)
       \/ Stop(u) \/ UserStep(u)
  \/ \E i \in DOMAIN loops : LoopStep(i) \/ CallbackStop(i)
  \/ NetStep
  \/ \E c \in Conns : BecomesReady(c) \/ Breaks(c)

Spec == Init /\ [][Next]_vars

(* Threads, the queue and the network go on.  A buffer is full after a few  *)
(* messages, and the queue, which is first come first served, gets to a     *)
(* handler that waits for it: strong fairness.                              *)
FairSpec ==
  /\ Spec
  /\ \A u \in Users : WF_vars(UserStep(u))
  /\ \A i \in 1 .. MaxStarts :
       /\ WF_vars(LoopStep(i))
       /\ SF_vars(Samples(i) /\ loops'[i].at = "signalled")
  /\ WF_vars(Processed) /\ WF_vars(Arrives)
  /\ WF_vars(\E c \in Conns : BecomesReady(c))
  /\ SF_vars(\E c \in Conns : HandleReady(c))

----------------------------------------------------------------------------
(* Properties                                                               *)

AtRest ==
  /\ Created
  /\ \A u \in Users : at[u] = "idle"
  /\ net[connection] = "ready"

(* Every command that was deferred has been given to a connection once, in  *)
(* the order of the calls, or is still on the list, unless a connection was *)
(* lost: those that are on the list when it breaks are thrown away.  And    *)
(* when the connection is ready and nobody is in a call, none is left on    *)
(* the list, unless a connection took too long to become ready.             *)
BacklogSent ==
  AtRest =>
    /\ mishaps \cap {"fail", "fin"} = {} => deferred = handed \o backlog
    /\ "timeout" \notin mishaps => backlog = << >>

(* Once everything sent has arrived, the server and the cached field have   *)
(* the value asked for last, whether it was deferred or not.  Holds as long *)
(* as nothing has gone wrong.                                               *)
LastCommandWins ==
  AtRest /\ mishaps = {} /\ wire = << >> /\ link = << >>
    => device = asked /\ cached = asked

(* "Can't start async read: connection is already active."                  *)
(* (RTLSDR_TCP.swift:370): one connection feeds one receive loop.  Holds    *)
(* for patient users.                                                       *)
OneLoop ==
  \A i, j \in DOMAIN loops :
    i # j /\ loops[i].at = "receive" /\ loops[j].at = "receive"
      => loops[i].conn # loops[j].conn

(* syncReadSamples returns to its caller, with all the samples or fewer,    *)
(* unless a connection has been lost.                                       *)
SyncReturns ==
  \A u \in Users :
    at[u] = "receiving" ~> at[u] = "idle" \/ "fail" \in mishaps

(* init comes to initOperations or throws, unless a connection was lost.    *)
InitReturns == <>(at[Creator] \in {"idle", "dead"} \/ "fail" \in mishaps)
=============================================================================
