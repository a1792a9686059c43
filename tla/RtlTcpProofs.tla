---------------------------- MODULE RtlTcpProofs -----------------------------
(***************************************************************************)
(* The server of rtl_tcp, for any limit of its list, any number of clients *)
(* and blocks: sessions do not overlap, the list is bounded, and what a    *)
(* client gets is in order and complete.  The three sequences a block      *)
(* passes through are compared element by element.                         *)
(***************************************************************************)
EXTENDS RtlTcp, TLAPS

TypeInv ==
  /\ worker \in {"dead", "top", "wait", "woken", "send", "blocked",
                "cancel", "exit"}
  /\ made \in Nat /\ base \in Nat /\ base <= made
  /\ sent \in Seq(Nat) /\ curelem \in Seq(Nat) /\ ll_buffers \in Seq(Nat)

(* A stream runs only while main is inside the read, and the workers live   *)
(* only between their start and the joins.                                  *)
SessionInv ==
  /\ main \in {"listen", "accepted", "out", "done"}
       => worker = "dead" /\ command = "dead"
  /\ phase = "Streaming" => main = "reading"
  /\ device = "closed" => main = "done"

(* The list is empty between two sessions, and the worker holds blocks only *)
(* while it sends.                                                          *)
EmptyInv ==
  /\ main \in {"listen", "accepted"} => ll_buffers = <<>>
  /\ worker \in {"send", "blocked"} <=> curelem # <<>>

QueueInv == /\ TypeInv /\ SessionInv /\ EmptyInv /\ QueueBound

Holds(q, n) == \E k \in DOMAIN q : q[k] = n
Before(p, q) == \A j \in DOMAIN p, k \in DOMAIN q : p[j] < q[k]
Recent(q) == \A k \in DOMAIN q : base < q[k] /\ q[k] <= made

InSession == main \in {"accepted", "started", "reading", "join"}

OrderInv ==
  InSession =>
    /\ Increasing(sent) /\ Increasing(curelem) /\ Increasing(ll_buffers)
    /\ Before(sent, curelem) /\ Before(sent, ll_buffers)
    /\ Before(curelem, ll_buffers)
    /\ Recent(sent) /\ Recent(curelem) /\ Recent(ll_buffers)

(* A block of this session is somewhere, until the session is to end.       *)
Serving == main \in {"started", "reading"} /\ ~ do_exit
             /\ worker \in {"top", "wait", "woken", "send", "blocked"}

CompleteInv ==
  /\ main = "accepted" => /\ sent = <<>> /\ dropped = {} /\ base = made
  /\ InSession => dropped \subseteq base + 1 .. made
  /\ Serving => \A n \in base + 1 .. made :
       Holds(sent, n) \/ Holds(curelem, n) \/ Holds(ll_buffers, n) \/ n \in dropped

------------------------------------------------------------------------------
(* Sequences.                                                               *)

LEMMA Nothing == \A q \in Seq(Nat) : q = <<>> <=> Len(q) = 0
OBVIOUS

LEMMA Appended ==
  ASSUME NEW q \in Seq(Nat), NEW n \in Nat
  PROVE  /\ Append(q, n) \in Seq(Nat) /\ Len(Append(q, n)) = Len(q) + 1
         /\ DOMAIN Append(q, n) = 1 .. Len(q) + 1 /\ DOMAIN q = 1 .. Len(q)
         /\ \A k \in DOMAIN q : Append(q, n)[k] = q[k]
         /\ Append(q, n)[Len(q) + 1] = n
OBVIOUS

LEMMA Shortened ==
  ASSUME NEW q \in Seq(Nat), q # <<>>
  PROVE  /\ Tail(q) \in Seq(Nat) /\ Len(Tail(q)) = Len(q) - 1 /\ Len(q) >= 1
         /\ DOMAIN Tail(q) = 1 .. Len(q) - 1 /\ DOMAIN q = 1 .. Len(q)
         /\ \A k \in DOMAIN Tail(q) : Tail(q)[k] = q[k + 1] /\ k + 1 \in DOMAIN q
         /\ Head(q) = q[1] /\ 1 \in DOMAIN q /\ Head(q) \in Nat
OBVIOUS

LEMMA JoinedIncreasing ==
  ASSUME NEW p \in Seq(Nat), NEW q \in Seq(Nat),
         Increasing(p), Increasing(q), Before(p, q)
  PROVE  Increasing(p \o q)
<1> SUFFICES ASSUME NEW j \in DOMAIN (p \o q), NEW k \in DOMAIN (p \o q), j < k
             PROVE  (p \o q)[j] < (p \o q)[k]
  BY DEF Increasing
<1>1. /\ DOMAIN p = 1 .. Len(p) /\ DOMAIN q = 1 .. Len(q)
      /\ DOMAIN (p \o q) = 1 .. Len(p) + Len(q)
      /\ Len(p) \in Nat /\ Len(q) \in Nat
  OBVIOUS
<1>2. \A i \in 1 .. Len(p) + Len(q) :
        (p \o q)[i] = IF i <= Len(p) THEN p[i] ELSE q[i - Len(p)]
  OBVIOUS
<1>3. CASE k <= Len(p)
  <2>1. j \in DOMAIN p /\ k \in DOMAIN p
    BY <1>1, <1>3
  <2> QED BY <1>1, <1>2, <1>3, <2>1 DEF Increasing
<1>4. CASE j <= Len(p) /\ k > Len(p)
  <2>1. j \in DOMAIN p /\ k - Len(p) \in DOMAIN q
    BY <1>1, <1>4
  <2> QED BY <1>1, <1>2, <1>4, <2>1 DEF Before
<1>5. CASE j > Len(p)
  <2>1. j - Len(p) \in DOMAIN q /\ k - Len(p) \in DOMAIN q /\ j - Len(p) < k - Len(p)
    BY <1>1, <1>5
  <2> QED BY <1>1, <1>2, <1>5, <2>1 DEF Increasing
<1> QED BY <1>1, <1>3, <1>4, <1>5

LEMMA JoinedHolds ==
  ASSUME NEW p \in Seq(Nat), NEW q \in Seq(Nat), NEW n
  PROVE  Holds(p \o q, n) <=> Holds(p, n) \/ Holds(q, n)
<1>1. /\ DOMAIN p = 1 .. Len(p) /\ DOMAIN q = 1 .. Len(q)
      /\ DOMAIN (p \o q) = 1 .. Len(p) + Len(q)
      /\ Len(p) \in Nat /\ Len(q) \in Nat
  OBVIOUS
<1>2. \A i \in 1 .. Len(p) + Len(q) :
        (p \o q)[i] = IF i <= Len(p) THEN p[i] ELSE q[i - Len(p)]
  OBVIOUS
<1>3. ASSUME Holds(p \o q, n) PROVE Holds(p, n) \/ Holds(q, n)
  <2> PICK i \in 1 .. Len(p) + Len(q) : (p \o q)[i] = n
    BY <1>1, <1>3 DEF Holds
  <2>1. CASE i <= Len(p)
    <3>1. i \in DOMAIN p /\ p[i] = n
      BY <1>1, <1>2, <2>1
    <3> QED BY <3>1 DEF Holds
  <2>2. CASE i > Len(p)
    <3>1. i - Len(p) \in DOMAIN q /\ q[i - Len(p)] = n
      BY <1>1, <1>2, <2>2
    <3> QED BY <3>1 DEF Holds
  <2> QED BY <1>1, <2>1, <2>2
<1>4. ASSUME Holds(p, n) PROVE Holds(p \o q, n)
  <2> PICK i \in DOMAIN p : p[i] = n
    BY <1>4 DEF Holds
  <2>1. i \in DOMAIN (p \o q) /\ (p \o q)[i] = n
    BY <1>1, <1>2
  <2> QED BY <2>1 DEF Holds
<1>5. ASSUME Holds(q, n) PROVE Holds(p \o q, n)
  <2> PICK i \in DOMAIN q : q[i] = n
    BY <1>5 DEF Holds
  <2>1. Len(p) + i \in DOMAIN (p \o q) /\ (p \o q)[Len(p) + i] = n
    BY <1>1, <1>2
  <2> QED BY <2>1 DEF Holds
<1> QED BY <1>3, <1>4, <1>5

------------------------------------------------------------------------------
(* Sessions and the list.                                                   *)

LEMMA CancelKeeps ==
  ASSUME CancelAsync
  PROVE  device' = device /\ (phase' = "Streaming" => phase = "Streaming")
BY DEF CancelAsync, Stream!Cancel

LEMMA CallbackBound ==
  ASSUME QueueInv, Callback
  PROVE  ll_buffers' \in Seq(Nat) /\ QueueBound'
<1> DEFINE full == /\ ll_buffers # <<>> /\ llbuf_num > 0
                   /\ llbuf_num + 2 = Len(ll_buffers) - 1
           kept == IF full THEN Tail(ll_buffers) ELSE ll_buffers
<1>1. ll_buffers' = Append(kept, made + 1) /\ made + 1 \in Nat
  BY DEF Callback, QueueInv, TypeInv
<1>2. /\ kept \in Seq(Nat) /\ Len(kept) \in Nat
      /\ llbuf_num > 0 => Len(kept) <= llbuf_num + 2
  <2>1. CASE full
    BY <2>1, Shortened, BoundsAssumption DEF QueueInv, TypeInv
  <2>2. CASE ~ full
    <3>1. kept = ll_buffers /\ ll_buffers \in Seq(Nat)
      BY <2>2 DEF QueueInv, TypeInv
    <3>2. CASE ll_buffers = <<>>
      BY <3>1, <3>2, BoundsAssumption
    <3>3. CASE ll_buffers # <<>>
      BY <2>2, <3>1, <3>3, BoundsAssumption DEF QueueInv, QueueBound
    <3> QED BY <3>2, <3>3
  <2> QED BY <2>1, <2>2
<1> HIDE DEF kept
<1>3. ll_buffers' \in Seq(Nat) /\ Len(ll_buffers') = Len(kept) + 1
  BY <1>1, <1>2, Appended
<1> QED BY <1>2, <1>3, BoundsAssumption DEF QueueBound

LEMMA QueueStep ==
  ASSUME QueueInv, [Next]_vars
  PROVE  QueueInv'
<1> USE BoundsAssumption DEF QueueInv, TypeInv, SessionInv, EmptyInv, QueueBound
<1>1. CASE Accept
  BY <1>1 DEF Accept, stream, queue
<1>2. CASE StartThreads
  BY <1>2 DEF StartThreads, stream, queue, history
<1>3. CASE StartRead
  BY <1>3 DEF StartRead, Stream!Begin, queue, history
<1>4. CASE ReadReturns
  BY <1>4 DEF ReadReturns, Stream!Return, queue, history
<1>5. CASE EndSession
  BY <1>5 DEF EndSession, stream, history
<1>6. CASE LeaveLoop
  BY <1>6 DEF LeaveLoop, stream, queue, history
<1>7. CASE Close
  BY <1>7 DEF Close, queue, history
<1>8. CASE Callback
  BY <1>8, CallbackBound DEF Callback, stream
<1>9. CASE LoseDevice
  BY <1>9, CancelKeeps DEF LoseDevice, threads, queue, history
<1>10. CASE WorkerTop
  BY <1>10 DEF WorkerTop, WorkerOnly, stream, queue
<1>11. CASE WorkerTimeout
  BY <1>11 DEF WorkerTimeout, WorkerOnly, stream, queue
<1>12. CASE WorkerTake
  BY <1>12 DEF WorkerTake, WorkerOnly, stream
<1>13. CASE WorkerSend
  <2>1. curelem # <<>> /\ curelem \in Seq(Nat) /\ sent \in Seq(Nat)
    BY <1>13 DEF WorkerSend
  <2>2. sent' \in Seq(Nat)
    BY <1>13, <2>1, Shortened, Appended DEF WorkerSend
  <2>3. /\ curelem' \in Seq(Nat)
        /\ worker' \in {"cancel", "top", "send"}
        /\ worker' \in {"send", "blocked"} <=> curelem' # <<>>
    <3>1. CASE do_exit
      BY <1>13, <3>1 DEF WorkerSend
    <3>2. CASE ~ do_exit
      <4> DEFINE rest == Tail(curelem)
      <4>1. rest \in Seq(Nat) /\ Len(rest) = Len(curelem) - 1 /\ Len(curelem) \in Nat
        BY <2>1, Shortened
      <4>3. /\ curelem' = rest
            /\ worker' = IF Len(curelem) = 1 THEN "top" ELSE "send"
        BY <1>13, <3>2 DEF WorkerSend
      <4> HIDE DEF rest, QueueInv
      <4>2. rest = <<>> <=> Len(rest) = 0
        BY <4>1, Nothing
      <4>4. CASE Len(curelem) = 1
        BY <4>1, <4>2, <4>3, <4>4
      <4>5. CASE Len(curelem) # 1
        BY <4>1, <4>2, <4>3, <4>5
      <4> QED BY <4>4, <4>5
    <3> QED BY <3>1, <3>2
  <2> QED BY <1>13, <2>2, <2>3 DEF WorkerSend, WorkerOnly, stream
<1>14. CASE WorkerBye
  BY <1>14 DEF WorkerBye, WorkerOnly, stream
<1>15. CASE WorkerCancel
  BY <1>15, CancelKeeps DEF WorkerCancel, queue, history
<1>16. CASE WorkerExit
  BY <1>16 DEF WorkerExit, WorkerOnly, stream, queue
<1>17. CASE CommandBye
  BY <1>17 DEF CommandBye, stream, queue, history
<1>18. CASE CommandCancel
  BY <1>18, CancelKeeps DEF CommandCancel, queue, history
<1>19. CASE CommandExit
  BY <1>19 DEF CommandExit, stream, queue, history
<1>20. CASE SignalArrives
  BY <1>20 DEF SignalArrives, stream, queue, history
<1>21. CASE HandlerCancel
  BY <1>21, CancelKeeps DEF HandlerCancel, queue, history
<1>22. CASE HandlerExit
  BY <1>22 DEF HandlerExit, stream, queue, history
<1>23. CASE Connect \/ ClientStalls \/ ClientReadsOn \/ ClientCloses \/ ClientResets
  BY <1>23 DEF Connect, ClientStalls, ClientReadsOn,
             ClientCloses, ClientResets, threads, stream, queue, history
<1>24. CASE UNCHANGED vars
  BY <1>24 DEF vars, threads, stream, queue, history
<1>25. CASE WorkerBlocks
  BY <1>25 DEF WorkerBlocks, WorkerOnly, stream, queue
<1> QED BY <1>1, <1>2, <1>3, <1>4, <1>5, <1>6, <1>7, <1>8, <1>9, <1>10, <1>11,
           <1>12, <1>13, <1>14, <1>15, <1>16, <1>17, <1>18, <1>19, <1>20, <1>21,
           <1>22, <1>23, <1>24, <1>25
        DEF Next, Main, Worker, Command, Handler

LEMMA QueueInductive == Spec => []QueueInv
<1>1. Init => QueueInv
  BY BoundsAssumption
     DEF Init, QueueInv, TypeInv, SessionInv, EmptyInv, QueueBound
<1> QED BY <1>1, QueueStep, PTL DEF Spec

(* The list never has more than llbuf_num + 3 blocks.                       *)
THEOREM ListBounded == Spec => []QueueBound
<1>1. QueueInv => QueueBound
  BY DEF QueueInv
<1> QED BY <1>1, QueueInductive, PTL

(* No worker outlives its session, and the device is not closed under a     *)
(* stream.                                                                  *)
THEOREM SessionsNeverMeet == Spec => []SessionsApart
<1>1. QueueInv => SessionsApart
  BY DEF QueueInv, SessionInv, SessionsApart
<1> QED BY <1>1, QueueInductive, PTL

------------------------------------------------------------------------------
(* The order of the blocks.                                                 *)

LEMMA TailKeeps ==
  ASSUME NEW q \in Seq(Nat), q # <<>>
  PROVE  /\ Increasing(q) => Increasing(Tail(q)) /\ Before(<<Head(q)>>, Tail(q))
         /\ Recent(q) => Recent(Tail(q))
         /\ \A p : Before(p, q) => Before(p, Tail(q))
         /\ \A p : Before(q, p) => Before(Tail(q), p)
<1> DEFINE t == Tail(q)
<1>1. /\ t \in Seq(Nat) /\ DOMAIN t = 1 .. Len(q) - 1 /\ DOMAIN q = 1 .. Len(q)
      /\ \A k \in DOMAIN t : t[k] = q[k + 1] /\ k + 1 \in DOMAIN q
      /\ Head(q) = q[1] /\ 1 \in DOMAIN q /\ Len(q) \in Nat
  BY Shortened
<1> HIDE DEF t
<1>2. ASSUME Increasing(q)
      PROVE  Increasing(t) /\ Before(<<Head(q)>>, t)
  <2>1. Increasing(t)
    <3> SUFFICES ASSUME NEW j \in DOMAIN t, NEW k \in DOMAIN t, j < k
                 PROVE  t[j] < t[k]
      BY DEF Increasing
    <3>1. j + 1 \in DOMAIN q /\ k + 1 \in DOMAIN q /\ j + 1 < k + 1
      BY <1>1
    <3> QED BY <1>1, <1>2, <3>1 DEF Increasing
  <2>2. \A k \in DOMAIN t : q[1] < t[k]
    <3> TAKE k \in DOMAIN t
    <3>1. 1 \in DOMAIN q /\ k + 1 \in DOMAIN q /\ 1 < k + 1
      BY <1>1
    <3> QED BY <1>1, <1>2, <3>1 DEF Increasing
  <2>3. Before(<<Head(q)>>, t)
    BY <1>1, <2>2 DEF Before
  <2> QED BY <2>1, <2>3
<1>3. Recent(q) => Recent(t)
  BY <1>1 DEF Recent
<1>4. \A p : Before(p, q) => Before(p, t)
  BY <1>1 DEF Before
<1>5. \A p : Before(q, p) => Before(t, p)
  BY <1>1 DEF Before
<1> QED BY <1>2, <1>3, <1>4, <1>5 DEF t

(* A block that is newer than all others goes to the end.                   *)
LEMMA NewestLast ==
  ASSUME NEW q \in Seq(Nat), NEW n \in Nat, \A k \in DOMAIN q : q[k] < n
  PROVE  /\ Increasing(q) => Increasing(Append(q, n))
         /\ \A p : Before(p, q) /\ (\A k \in DOMAIN p : p[k] < n)
                   => Before(p, Append(q, n))
<1> DEFINE a == Append(q, n)
<1>1. /\ DOMAIN a = 1 .. Len(q) + 1 /\ DOMAIN q = 1 .. Len(q) /\ Len(q) \in Nat
      /\ \A k \in DOMAIN q : a[k] = q[k]
      /\ a[Len(q) + 1] = n
  BY Appended
<1> HIDE DEF a
<1>2. \A k \in DOMAIN a : k \in DOMAIN q \/ k = Len(q) + 1
  BY <1>1
<1>3. ASSUME Increasing(q) PROVE Increasing(a)
  <2> SUFFICES ASSUME NEW j \in DOMAIN a, NEW k \in DOMAIN a, j < k
               PROVE  a[j] < a[k]
    BY DEF Increasing
  <2>1. j \in DOMAIN q
    BY <1>1
  <2>2. CASE k \in DOMAIN q
    BY <1>1, <1>3, <2>1, <2>2 DEF Increasing
  <2>3. CASE k = Len(q) + 1
    BY <1>1, <2>1, <2>3
  <2> QED BY <1>2, <2>2, <2>3
<1>4. \A p : Before(p, q) /\ (\A k \in DOMAIN p : p[k] < n) => Before(p, a)
  BY <1>1, <1>2 DEF Before
<1> QED BY <1>3, <1>4 DEF a

LEMMA AppendedBefore ==
  ASSUME NEW q \in Seq(Nat), NEW n \in Nat, NEW p
  PROVE  /\ Before(q, p) /\ (\A k \in DOMAIN p : n < p[k]) => Before(Append(q, n), p)
         /\ Recent(q) /\ base < n /\ n <= made => Recent(Append(q, n))
<1>1. /\ DOMAIN Append(q, n) = 1 .. Len(q) + 1 /\ DOMAIN q = 1 .. Len(q)
      /\ Len(q) \in Nat
      /\ \A k \in DOMAIN q : Append(q, n)[k] = q[k]
      /\ Append(q, n)[Len(q) + 1] = n
  BY Appended
<1>2. \A k \in DOMAIN Append(q, n) : k \in DOMAIN q \/ k = Len(q) + 1
  BY <1>1
<1> QED BY <1>1, <1>2 DEF Before, Recent

LEMMA NothingOrdered ==
  /\ Increasing(<<>>) /\ Recent(<<>>)
  /\ \A p : Before(p, <<>>) /\ Before(<<>>, p)
<1>1. DOMAIN <<>> = {}
  OBVIOUS
<1> QED BY <1>1 DEF Increasing, Recent, Before

LEMMA OrderKept ==
  ASSUME OrderInv, UNCHANGED <<queue, made, base, sent>>, InSession' => InSession
  PROVE  OrderInv'
BY DEF OrderInv, queue, Increasing, Before, Recent

LEMMA CallbackOrders ==
  ASSUME QueueInv, OrderInv, Callback
  PROVE  OrderInv'
<1> DEFINE kept == IF /\ ll_buffers # <<>> /\ llbuf_num > 0
                      /\ llbuf_num + 2 = Len(ll_buffers) - 1
                   THEN Tail(ll_buffers) ELSE ll_buffers
           n == made + 1
<1>1. /\ sent \in Seq(Nat) /\ curelem \in Seq(Nat) /\ ll_buffers \in Seq(Nat)
      /\ made \in Nat /\ base \in Nat /\ base <= made
  BY DEF QueueInv, TypeInv
<1>2. /\ main = "reading" /\ main' = "reading" /\ made' = n /\ base' = base
      /\ sent' = sent /\ curelem' = curelem /\ ll_buffers' = Append(kept, n)
  BY DEF Callback
<1>3. /\ Increasing(sent) /\ Increasing(curelem) /\ Increasing(ll_buffers)
      /\ Before(sent, curelem) /\ Before(sent, ll_buffers)
      /\ Before(curelem, ll_buffers)
      /\ Recent(sent) /\ Recent(curelem) /\ Recent(ll_buffers)
  BY <1>2 DEF OrderInv, InSession
<1>4. /\ kept \in Seq(Nat) /\ Increasing(kept) /\ Recent(kept)
      /\ Before(sent, kept) /\ Before(curelem, kept)
  <2>1. CASE kept = ll_buffers
    BY <1>1, <1>3, <2>1
  <2>2. CASE kept = Tail(ll_buffers) /\ ll_buffers # <<>>
    BY <1>1, <1>3, <2>2, Shortened, TailKeeps
  <2> QED BY <2>1, <2>2
<1> HIDE DEF kept
<1>5. \A q \in {sent, curelem, kept} :
        q \in Seq(Nat) /\ \A k \in DOMAIN q : q[k] \in Nat /\ q[k] < n
  BY <1>1, <1>3, <1>4 DEF Recent
<1>6. /\ Increasing(Append(kept, n))
      /\ Before(sent, Append(kept, n)) /\ Before(curelem, Append(kept, n))
  BY <1>1, <1>4, <1>5, NewestLast
<1>7. /\ \A k \in DOMAIN sent : base < sent[k] /\ sent[k] <= n
      /\ \A k \in DOMAIN curelem : base < curelem[k] /\ curelem[k] <= n
      /\ \A k \in DOMAIN Append(kept, n) :
           base < Append(kept, n)[k] /\ Append(kept, n)[k] <= n
  <2>1. /\ DOMAIN Append(kept, n) = 1 .. Len(kept) + 1
        /\ DOMAIN kept = 1 .. Len(kept) /\ Len(kept) \in Nat
        /\ \A k \in DOMAIN kept : Append(kept, n)[k] = kept[k]
        /\ Append(kept, n)[Len(kept) + 1] = n
    BY <1>1, <1>4, Appended
  <2>2. \A k \in DOMAIN Append(kept, n) : k \in DOMAIN kept \/ k = Len(kept) + 1
    BY <2>1
  <2>3. \A k \in DOMAIN kept : base < kept[k] /\ kept[k] <= n
    BY <1>1, <1>4, <1>5 DEF Recent
  <2>4. base < n
    BY <1>1
  <2>5. \A k \in DOMAIN Append(kept, n) :
           base < Append(kept, n)[k] /\ Append(kept, n)[k] <= n
    BY <1>1, <2>1, <2>2, <2>3, <2>4
  <2>6. \A q \in {sent, curelem} : \A k \in DOMAIN q : base < q[k] /\ q[k] <= n
    BY <1>1, <1>3, <1>5 DEF Recent
  <2> QED BY <2>5, <2>6
<1>8. Recent(sent)' /\ Recent(curelem)' /\ Recent(ll_buffers)'
  BY <1>2, <1>7 DEF Recent
<1>9. /\ Increasing(sent)' /\ Increasing(curelem)' /\ Increasing(ll_buffers)'
      /\ Before(sent, curelem)' /\ Before(sent, ll_buffers)'
      /\ Before(curelem, ll_buffers)'
  BY <1>2, <1>3, <1>6 DEF Increasing, Before
<1> QED BY <1>8, <1>9 DEF OrderInv

LEMMA SendOrders ==
  ASSUME QueueInv, OrderInv, WorkerSend
  PROVE  OrderInv'
<1> DEFINE n == Head(curelem)    rest == Tail(curelem)    more == Append(sent, n)
<1>0. main \in {"started", "reading", "join"} \/ ~ InSession
  BY DEF InSession, QueueInv, SessionInv, WorkerSend
<1>1. /\ sent \in Seq(Nat) /\ curelem \in Seq(Nat) /\ curelem # <<>>
      /\ made \in Nat /\ base \in Nat
  BY DEF QueueInv, TypeInv, EmptyInv, WorkerSend
<1>2. /\ main' = main /\ made' = made /\ base' = base /\ ll_buffers' = ll_buffers
      /\ sent' = more /\ curelem' \in {<<>>, rest}
  BY DEF WorkerSend, WorkerOnly
<1> SUFFICES ASSUME InSession
             PROVE  /\ Increasing(sent)' /\ Increasing(curelem)' /\ Increasing(ll_buffers)'
                    /\ Before(sent, curelem)' /\ Before(sent, ll_buffers)'
                    /\ Before(curelem, ll_buffers)'
                    /\ Recent(sent)' /\ Recent(curelem)' /\ Recent(ll_buffers)'
  BY <1>2 DEF OrderInv, InSession
<1>3. /\ Increasing(sent) /\ Increasing(curelem) /\ Increasing(ll_buffers)
      /\ Before(sent, curelem) /\ Before(sent, ll_buffers)
      /\ Before(curelem, ll_buffers)
      /\ Recent(sent) /\ Recent(curelem) /\ Recent(ll_buffers)
  BY DEF OrderInv
<1>4. n \in Nat /\ n = curelem[1] /\ 1 \in DOMAIN curelem
  BY <1>1, Shortened
<1>5. /\ \A k \in DOMAIN sent : sent[k] < n
      /\ \A k \in DOMAIN ll_buffers : n < ll_buffers[k]
      /\ base < n /\ n <= made
  BY <1>3, <1>4 DEF Before, Recent
<1>6. /\ Increasing(rest) /\ Recent(rest) /\ Before(<<n>>, rest)
      /\ Before(sent, rest) /\ Before(rest, ll_buffers)
  BY <1>1, <1>3, TailKeeps
<1>7. \A k \in DOMAIN rest : n < rest[k]
  <2>1. DOMAIN <<n>> = {1} /\ <<n>>[1] = n
    OBVIOUS
  <2> QED BY <1>6, <2>1 DEF Before
<1> HIDE DEF n, rest
<1>8. /\ Increasing(more) /\ Recent(more)
      /\ Before(more, rest) /\ Before(more, ll_buffers)
  BY <1>1, <1>3, <1>4, <1>5, <1>6, <1>7, NewestLast, AppendedBefore
<1> HIDE DEF more
<1>9. \E c \in {<<>>, rest} :
        /\ curelem' = c /\ Increasing(c) /\ Recent(c)
        /\ Before(more, c) /\ Before(c, ll_buffers)
  BY <1>2, <1>6, <1>8, NothingOrdered
<1> QED BY <1>2, <1>3, <1>8, <1>9 DEF Increasing, Before, Recent

LEMMA OrderStep ==
  ASSUME QueueInv, OrderInv, [Next]_vars
  PROVE  OrderInv'
<1>1. CASE Accept
  <2>1. /\ sent' = <<>> /\ curelem' = <<>> /\ ll_buffers' = <<>>
    BY <1>1 DEF Accept, queue, QueueInv, SessionInv, EmptyInv
  <2> QED BY <2>1, NothingOrdered DEF OrderInv, Increasing, Before, Recent
<1>2. CASE \/ (Main /\ ~ Accept) \/ LoseDevice \/ WorkerTop \/ WorkerTimeout
           \/ WorkerBlocks
           \/ WorkerCancel \/ WorkerExit \/ Command \/ SignalArrives \/ Handler
           \/ Connect \/ ClientStalls \/ ClientReadsOn \/ ClientCloses \/ ClientResets \/ UNCHANGED vars
  <2>1. CASE EndSession
    BY <2>1 DEF EndSession, OrderInv, InSession
  <2>2. CASE ~ EndSession
    <3>1. UNCHANGED <<queue, made, base, sent>>
      BY <1>2, <2>2
         DEF Main, StartThreads, StartRead, ReadReturns, LeaveLoop, Close,
             LoseDevice, WorkerTop, WorkerTimeout, WorkerBlocks, WorkerCancel, WorkerExit,
             WorkerOnly, Command, CommandBye, CommandCancel, CommandExit,
             SignalArrives, Handler, HandlerCancel, HandlerExit, Connect,
             ClientStalls, ClientReadsOn,
             ClientCloses, ClientResets, vars, history
    <3>2. InSession' => InSession
      BY <1>2, <2>2
         DEF Main, StartThreads, StartRead, ReadReturns, LeaveLoop, Close,
             LoseDevice, WorkerTop, WorkerTimeout, WorkerBlocks, WorkerCancel, WorkerExit,
             WorkerOnly, Command, CommandBye, CommandCancel, CommandExit,
             SignalArrives, Handler, HandlerCancel, HandlerExit, Connect,
             ClientStalls, ClientReadsOn,
             ClientCloses, ClientResets, vars, threads, InSession
    <3> QED BY <3>1, <3>2, OrderKept
  <2> QED BY <2>1, <2>2
<1>3. CASE Callback
  BY <1>3, CallbackOrders
<1>4. CASE WorkerSend
  BY <1>4, SendOrders
<1>5. CASE WorkerTake \/ WorkerBye
  <2>1. /\ main' = main /\ made' = made /\ base' = base /\ sent' = sent
        /\ \/ curelem' = ll_buffers /\ ll_buffers' = <<>>
           \/ curelem' = <<>> /\ ll_buffers' = ll_buffers
    BY <1>5 DEF WorkerTake, WorkerBye, WorkerOnly
  <2> QED BY <2>1, NothingOrdered DEF OrderInv, InSession, Increasing, Before, Recent
<1> QED BY <1>1, <1>2, <1>3, <1>4, <1>5 DEF Next, Worker

LEMMA OrderInductive == Spec => [](QueueInv /\ OrderInv)
<1>1. Init => OrderInv
  BY DEF Init, OrderInv, InSession
<1>2. QueueInv /\ OrderInv /\ [Next]_vars => OrderInv'
  BY OrderStep
<1> QED BY <1>1, <1>2, QueueInductive, PTL DEF Spec

(* What a client gets is in the order of the sampling and of its session.   *)
THEOREM AlwaysInOrder == Spec => []InOrder
<1>1. ASSUME QueueInv, OrderInv PROVE InOrder
  <2> SUFFICES ASSUME InSession
               PROVE  LET all == sent \o curelem \o ll_buffers
                      IN  Increasing(all) /\ \A k \in DOMAIN all : all[k] > base
    BY DEF InOrder, InSession
  <2>1. sent \in Seq(Nat) /\ curelem \in Seq(Nat) /\ ll_buffers \in Seq(Nat)
        /\ base \in Nat /\ made \in Nat
    BY <1>1 DEF QueueInv, TypeInv
  <2>2. /\ Increasing(sent) /\ Increasing(curelem) /\ Increasing(ll_buffers)
        /\ Before(sent, curelem) /\ Before(sent, ll_buffers)
        /\ Before(curelem, ll_buffers)
        /\ Recent(sent) /\ Recent(curelem) /\ Recent(ll_buffers)
    BY <1>1 DEF OrderInv
  <2> DEFINE out == sent \o curelem    all == out \o ll_buffers
  <2>3. out \in Seq(Nat) /\ Increasing(out) /\ all \in Seq(Nat)
    BY <2>1, <2>2, JoinedIncreasing
  <2>4. \A k \in DOMAIN out : Holds(out, out[k])
    BY DEF Holds
  <2>5. \A n : Holds(out, n) => Holds(sent, n) \/ Holds(curelem, n)
    BY <2>1, JoinedHolds
  <2>6. \A n : Holds(all, n) => Holds(out, n) \/ Holds(ll_buffers, n)
    BY <2>1, <2>3, JoinedHolds
  <2> HIDE DEF out
  <2>7. Before(out, ll_buffers)
    BY <2>2, <2>4, <2>5 DEF Before, Holds
  <2>8. Increasing(all)
    BY <2>1, <2>2, <2>3, <2>7, JoinedIncreasing
  <2>9. \A k \in DOMAIN all : Holds(all, all[k])
    BY DEF Holds
  <2> HIDE DEF all
  <2>10. \A k \in DOMAIN all : base < all[k]
    BY <2>2, <2>5, <2>6, <2>9 DEF Recent, Holds
  <2>11. \A k \in DOMAIN all : all[k] \in Nat
    BY <2>3
  <2>12. \A k \in DOMAIN all : all[k] > base
    BY <2>1, <2>10, <2>11
  <2> QED BY <2>8, <2>12 DEF all, out
<1> QED BY <1>1, OrderInductive, PTL

------------------------------------------------------------------------------
(* Where the blocks of a session are.                                       *)

LEMMA CompleteKept ==
  ASSUME CompleteInv, UNCHANGED <<queue, history>>,
         main' # "accepted", InSession' => InSession, Serving' => Serving
  PROVE  CompleteInv'
BY DEF CompleteInv, queue, history, Holds

LEMMA AppendedHolds ==
  ASSUME NEW q \in Seq(Nat), NEW n \in Nat, NEW m
  PROVE  Holds(Append(q, n), m) <=> Holds(q, m) \/ m = n
<1>1. /\ DOMAIN Append(q, n) = 1 .. Len(q) + 1 /\ DOMAIN q = 1 .. Len(q)
      /\ Len(q) \in Nat
      /\ \A k \in DOMAIN q : Append(q, n)[k] = q[k]
      /\ Append(q, n)[Len(q) + 1] = n
  BY Appended
<1>2. /\ \A k \in DOMAIN Append(q, n) : k \in DOMAIN q \/ k = Len(q) + 1
      /\ \A k \in DOMAIN q : k \in DOMAIN Append(q, n)
      /\ Len(q) + 1 \in DOMAIN Append(q, n)
  BY <1>1
<1> QED BY <1>1, <1>2 DEF Holds

LEMMA TailHolds ==
  ASSUME NEW q \in Seq(Nat), q # <<>>, NEW m
  PROVE  Holds(q, m) <=> m = Head(q) \/ Holds(Tail(q), m)
<1>1. /\ DOMAIN Tail(q) = 1 .. Len(q) - 1 /\ DOMAIN q = 1 .. Len(q) /\ Len(q) \in Nat
      /\ \A k \in DOMAIN Tail(q) : Tail(q)[k] = q[k + 1] /\ k + 1 \in DOMAIN q
      /\ Head(q) = q[1] /\ 1 \in DOMAIN q
  BY Shortened
<1>2. \A k \in DOMAIN q : k = 1 \/ (k - 1 \in DOMAIN Tail(q) /\ q[k] = Tail(q)[k - 1])
  <2> TAKE k \in DOMAIN q
  <2>1. CASE k # 1
    <3>1. k - 1 \in DOMAIN Tail(q) /\ (k - 1) + 1 = k
      BY <1>1, <2>1
    <3> QED BY <1>1, <3>1
  <2> QED BY <2>1
<1>3. Holds(q, m) => m = Head(q) \/ Holds(Tail(q), m)
  BY <1>1, <1>2 DEF Holds
<1>4. m = Head(q) \/ Holds(Tail(q), m) => Holds(q, m)
  BY <1>1 DEF Holds
<1> QED BY <1>3, <1>4

LEMMA NothingHeld == \A m : ~ Holds(<<>>, m)
<1>1. DOMAIN <<>> = {}
  OBVIOUS
<1> QED BY <1>1 DEF Holds

LEMMA CallbackCompletes ==
  ASSUME QueueInv, OrderInv, CompleteInv, Callback
  PROVE  CompleteInv'
<1> DEFINE full == /\ ll_buffers # <<>> /\ llbuf_num > 0
                   /\ llbuf_num + 2 = Len(ll_buffers) - 1
           kept == IF full THEN Tail(ll_buffers) ELSE ll_buffers
           n == made + 1
<1>1. /\ sent \in Seq(Nat) /\ curelem \in Seq(Nat) /\ ll_buffers \in Seq(Nat)
      /\ made \in Nat /\ base \in Nat /\ base <= made
  BY DEF QueueInv, TypeInv
<1>2. /\ main = "reading" /\ main' = "reading" /\ ~ do_exit /\ do_exit' = do_exit
      /\ made' = n /\ base' = base
      /\ sent' = sent /\ curelem' = curelem /\ ll_buffers' = Append(kept, n)
      /\ dropped' = IF full THEN dropped \cup {Head(ll_buffers)} ELSE dropped
      /\ worker' = IF worker = "wait" THEN "woken" ELSE worker
  BY DEF Callback
<1>3. dropped \subseteq base + 1 .. made
  BY <1>2 DEF CompleteInv, InSession
<1>4. kept \in Seq(Nat)
      /\ \A m : Holds(ll_buffers, m) \/ m \in dropped => Holds(kept, m) \/ m \in dropped'
  <2>1. CASE full
    BY <1>1, <1>2, <2>1, Shortened, TailHolds
  <2>2. CASE ~ full
    BY <1>1, <1>2, <2>2
  <2> QED BY <2>1, <2>2
<1>5. dropped' \subseteq base + 1 .. n
  <2>1. \A m \in dropped : m \in base + 1 .. n
    BY <1>1, <1>3
  <2>2. full => Head(ll_buffers) \in base + 1 .. n
    <3> SUFFICES ASSUME full PROVE Head(ll_buffers) \in base + 1 .. n
      OBVIOUS
    <3>1. 1 \in DOMAIN ll_buffers /\ Head(ll_buffers) = ll_buffers[1]
          /\ Head(ll_buffers) \in Nat
      BY <1>1, Shortened
    <3>2. base < Head(ll_buffers) /\ Head(ll_buffers) <= made
      BY <1>2, <3>1 DEF OrderInv, InSession, Recent
    <3> QED BY <1>1, <3>1, <3>2
  <2> QED BY <1>2, <2>1, <2>2
<1> HIDE DEF full, kept
<1>6. ASSUME Serving'
      PROVE  \A m \in base + 1 .. n :
               Holds(sent, m) \/ Holds(curelem, m) \/ Holds(Append(kept, n), m)
                 \/ m \in dropped'
  <2>1. Serving
    BY <1>2, <1>6 DEF Serving
  <2> TAKE m \in base + 1 .. n
  <2>2. CASE m = n
    BY <1>1, <1>4, <2>2, AppendedHolds
  <2>3. CASE m \in base + 1 .. made
    <3>1. Holds(sent, m) \/ Holds(curelem, m) \/ Holds(ll_buffers, m) \/ m \in dropped
      BY <2>1, <2>3 DEF CompleteInv
    <3> QED BY <1>1, <1>4, <3>1, AppendedHolds
  <2> QED BY <1>1, <2>2, <2>3
<1> QED BY <1>2, <1>5, <1>6 DEF CompleteInv, Holds

LEMMA CompleteStep ==
  ASSUME QueueInv, OrderInv, CompleteInv, [Next]_vars
  PROVE  CompleteInv'
<1>0. /\ sent \in Seq(Nat) /\ curelem \in Seq(Nat) /\ ll_buffers \in Seq(Nat)
      /\ made \in Nat /\ base \in Nat /\ base <= made
  BY DEF QueueInv, TypeInv
<1>1. CASE Accept
  <2>1. /\ sent' = <<>> /\ dropped' = {} /\ base' = made /\ made' = made
        /\ main' = "accepted"
    BY <1>1 DEF Accept
  <2> QED BY <2>1 DEF CompleteInv, Serving
<1>2. CASE StartThreads
  <2>1. /\ main = "accepted" /\ main' = "started" /\ UNCHANGED <<base, made, dropped>>
    BY <1>2 DEF StartThreads, history
  <2>2. base' + 1 .. made' = {}
    BY <1>0, <2>1 DEF CompleteInv
  <2> QED BY <2>1, <2>2 DEF CompleteInv, InSession
<1>3. CASE \/ (Main /\ ~ Accept /\ ~ StartThreads) \/ LoseDevice \/ WorkerTop \/ WorkerBlocks
           \/ WorkerTimeout \/ WorkerCancel \/ WorkerExit \/ Command
           \/ SignalArrives \/ Handler \/ Connect \/ ClientStalls
           \/ ClientReadsOn \/ ClientCloses
           \/ ClientResets \/ UNCHANGED vars
  <2>1. CASE EndSession
    BY <2>1 DEF EndSession, CompleteInv, InSession, Serving
  <2>2. CASE main = "accepted" /\ main' = "accepted"
    <3>1. UNCHANGED <<sent, dropped, base, made>>
      BY <1>3, <2>2
         DEF Main, StartRead, ReadReturns, EndSession, LeaveLoop, Close,
             LoseDevice, WorkerTop, WorkerTimeout, WorkerBlocks, WorkerCancel, WorkerExit,
             WorkerOnly, Command, CommandBye, CommandCancel, CommandExit,
             SignalArrives, Handler, HandlerCancel, HandlerExit, Connect,
             ClientStalls, ClientReadsOn,
             ClientCloses, ClientResets, vars, history,
             QueueInv, SessionInv
    <3> QED BY <2>2, <3>1 DEF CompleteInv, InSession, Serving
  <2>3. CASE ~ EndSession /\ main' # "accepted"
    <3>1. UNCHANGED <<queue, history>>
      BY <1>3, <2>3
         DEF Main, StartRead, ReadReturns, LeaveLoop, Close,
             LoseDevice, WorkerTop, WorkerTimeout, WorkerBlocks, WorkerCancel, WorkerExit,
             WorkerOnly, Command, CommandBye, CommandCancel, CommandExit,
             SignalArrives, Handler, HandlerCancel, HandlerExit, Connect,
             ClientStalls, ClientReadsOn,
             ClientCloses, ClientResets, vars, history
    <3>2. (InSession' => InSession) /\ (Serving' => Serving)
      BY <1>3, <2>3
         DEF Main, StartRead, ReadReturns, LeaveLoop, Close,
             LoseDevice, WorkerTop, WorkerTimeout, WorkerBlocks, WorkerCancel, WorkerExit,
             WorkerOnly, Command, CommandBye, CommandCancel, CommandExit,
             SignalArrives, Handler, HandlerCancel, HandlerExit, Connect,
             ClientStalls, ClientReadsOn,
             ClientCloses, ClientResets, vars, threads, InSession, Serving
    <3> QED BY <2>3, <3>1, <3>2, CompleteKept
  <2>4. main' = "accepted" => main = "accepted"
    BY <1>3
       DEF Main, StartRead, ReadReturns, EndSession, LeaveLoop, Close,
           LoseDevice, WorkerTop, WorkerTimeout, WorkerBlocks, WorkerCancel, WorkerExit,
           WorkerOnly, Command, CommandBye, CommandCancel, CommandExit,
           SignalArrives, Handler, HandlerCancel, HandlerExit, Connect,
           ClientStalls, ClientReadsOn,
             ClientCloses, ClientResets, vars, threads
  <2> QED BY <2>1, <2>2, <2>3, <2>4
<1>4. CASE Callback
  BY <1>4, CallbackCompletes
<1>5. CASE WorkerSend \/ WorkerTake \/ WorkerBye
  <2>1. /\ main' = main /\ main # "accepted" /\ do_exit' = do_exit
        /\ UNCHANGED <<made, base, dropped>>
    BY <1>5 DEF WorkerSend, WorkerTake, WorkerBye, WorkerOnly, QueueInv, SessionInv
  <2> SUFFICES ASSUME Serving', NEW n, Holds(sent, n) \/ Holds(curelem, n) \/ Holds(ll_buffers, n)
               PROVE  Holds(sent', n) \/ Holds(curelem', n) \/ Holds(ll_buffers', n)
    <3>1. Serving' => Serving
      BY <1>5, <2>1 DEF Serving, WorkerSend, WorkerTake, WorkerBye
    <3> QED BY <2>1, <3>1 DEF CompleteInv, InSession, Holds
  <2>2. CASE WorkerTake
    <3>1. curelem = <<>> /\ sent' = sent /\ curelem' = ll_buffers
      BY <2>2 DEF WorkerTake, QueueInv, EmptyInv
    <3> QED BY <3>1, NothingHeld
  <2>3. CASE WorkerSend
    <3>1. /\ curelem # <<>> /\ ll_buffers' = ll_buffers
          /\ sent' = Append(sent, Head(curelem)) /\ curelem' = Tail(curelem)
      BY <2>1, <2>3 DEF WorkerSend, Serving, QueueInv, EmptyInv
    <3>2. Head(curelem) \in Nat
      BY <1>0, <3>1, Shortened
    <3>3. \A m : Holds(sent', m) <=> Holds(sent, m) \/ m = Head(curelem)
      BY <1>0, <3>1, <3>2, AppendedHolds
    <3>4. Holds(curelem, n) <=> n = Head(curelem) \/ Holds(curelem', n)
      BY <1>0, <3>1, TailHolds
    <3> QED BY <3>1, <3>3, <3>4
  <2>4. CASE WorkerBye
    BY <2>4 DEF WorkerBye, Serving
  <2> QED BY <1>5, <2>2, <2>3, <2>4
<1> QED BY <1>1, <1>2, <1>3, <1>4, <1>5 DEF Next, Worker

(* No block of a session is lost unless the list was full.                  *)
THEOREM NeverLost == Spec => []NothingLost
<1>1. Init => CompleteInv
  BY DEF Init, CompleteInv, InSession, Serving
<1>2. QueueInv /\ OrderInv /\ CompleteInv /\ [Next]_vars => CompleteInv'
  BY CompleteStep
<1>3. ASSUME QueueInv, OrderInv, CompleteInv PROVE NothingLost
  <2> SUFFICES ASSUME Serving, main = "reading"
               PROVE  base + 1 .. made
                        = ToSet(sent \o curelem \o ll_buffers) \cup dropped
    BY <1>3 DEF NothingLost, Serving, QueueInv, TypeInv
  <2>1. /\ sent \in Seq(Nat) /\ curelem \in Seq(Nat) /\ ll_buffers \in Seq(Nat)
        /\ sent \o curelem \in Seq(Nat) /\ base \in Nat /\ made \in Nat
    BY <1>3 DEF QueueInv, TypeInv
  <2>2. \A n : n \in ToSet(sent \o curelem \o ll_buffers)
                <=> Holds(sent, n) \/ Holds(curelem, n) \/ Holds(ll_buffers, n)
    <3> TAKE n
    <3>1. n \in ToSet(sent \o curelem \o ll_buffers) <=> Holds(sent \o curelem \o ll_buffers, n)
      BY DEF ToSet, Holds
    <3> QED BY <2>1, <3>1, JoinedHolds
  <2>3. \A n : Holds(sent, n) \/ Holds(curelem, n) \/ Holds(ll_buffers, n)
                => n \in base + 1 .. made
    <3>1. /\ \A k \in DOMAIN sent : sent[k] \in Nat
          /\ \A k \in DOMAIN curelem : curelem[k] \in Nat
          /\ \A k \in DOMAIN ll_buffers : ll_buffers[k] \in Nat
      BY <2>1
    <3>2. Recent(sent) /\ Recent(curelem) /\ Recent(ll_buffers)
      BY <1>3 DEF OrderInv, InSession
    <3> QED BY <2>1, <3>1, <3>2 DEF Holds, Recent
  <2>4. dropped \subseteq base + 1 .. made
    BY <1>3 DEF CompleteInv, InSession
  <2>5. \A n \in base + 1 .. made :
          Holds(sent, n) \/ Holds(curelem, n) \/ Holds(ll_buffers, n) \/ n \in dropped
    BY <1>3 DEF CompleteInv
  <2> QED BY <2>2, <2>3, <2>4, <2>5
<1> QED BY <1>1, <1>2, <1>3, OrderInductive, PTL DEF Spec
==============================================================================
