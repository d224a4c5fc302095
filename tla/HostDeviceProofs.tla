-------------------------- MODULE HostDeviceProofs --------------------------
(***************************************************************************)
(* Which reply a method of MiloDevice returns, for any number of calls in  *)
(* any order.  MILO-Link's frames carry no identifier, so a reply is a     *)
(* request's own only because no other reply of its kind is on its way:    *)
(* the invariant follows the one request that is still to be answered from *)
(* the host through the receiver and back.  A second invariant follows the *)
(* results: what calls have returned, what is stashed and what is on the   *)
(* wire are together what the receiver wrote, in that order.               *)
(***************************************************************************)
EXTENDS HostDevice, SequenceTheorems, WellFoundedInduction, TLAPS

Loads == {"module", "swap"}
StatusCalls == {"stop", "query_status"}
Request == [kind : {"module", "swap", "status", "set_param", "discovery"}, id : Nat]
Reply == [kind : {"result", "status", "discovery", "cut"}, id : Nat]
Called == [id : Nat, method : Methods \cup {"none"}]
Answer == [call : Called, id : Nat]

TypeInv ==
    /\ setting \in Setting
    /\ toDev \in Seq(Request) /\ toHost \in Seq(Reply)
    /\ modules \in Seq(Nat) /\ pending \in Seq(Nat)
    /\ waiting \in {"none", "result", "status", "discovery"}
    /\ current \in Called /\ calls \in Nat
    /\ returned \in Seq(Answer)

\* A method waits for the opcode of its own replies.
CallInv ==
    /\ current.method \in StatusCalls => waiting = "status"
    /\ current.method \in SyncLoads => waiting = "result"

\* The frames of kinds K in q: there is none; there is at most one; they are the
\* current call's.
NoneIn(q, K) == \A i \in DOMAIN q : q[i].kind \notin K
OneIn(q, K) == \A i, j \in DOMAIN q : q[i].kind \in K /\ q[j].kind \in K => i = j
OwnIn(q, K, id) == \A i \in DOMAIN q : q[i].kind \in K => q[i].id = id

\* While every read waits until it has its reply, one status request at most is
\* unanswered, and it is the current call's.
StatusInv ==
    ~setting.timeouts =>
      /\ OneIn(toDev, {"status"}) /\ OneIn(toHost, {"status"})
      /\ NoneIn(toDev, {"status"}) \/ NoneIn(toHost, {"status"})
      /\ OwnIn(toDev, {"status"}, current.id) /\ OwnIn(toHost, {"status"}, current.id)
      /\ waiting # "status" => NoneIn(toDev, {"status"}) /\ NoneIn(toHost, {"status"})

\* In a synchronous program no result is stashed, and one module at most is on
\* its way, in the receiver or answered: the current load's.
LoadInv ==
    Synchronous =>
      /\ pending = <<>>
      /\ OneIn(toDev, Loads) /\ OneIn(toHost, {"result"})
      /\ modules = <<>> \/ modules = <<current.id>>
      /\ NoneIn(toDev, Loads) \/ (modules = <<>> /\ NoneIn(toHost, {"result"}))
      /\ modules = <<>> \/ NoneIn(toHost, {"result"})
      /\ OwnIn(toDev, Loads, current.id) /\ OwnIn(toHost, {"result"}, current.id)
      /\ current.method \notin SyncLoads =>
            NoneIn(toDev, Loads) /\ modules = <<>> /\ NoneIn(toHost, {"result"})

HostInv == TypeInv /\ CallInv /\ StatusInv /\ LoadInv /\ StatusRepliesMatch /\ SyncLoadReturnsOwn

\* The results the host has or will have.
Held == Collected \o pending \o InFlight

\* What the reads rely on besides: results end the waits for them, and no frame
\* is cut or discarded in a program that does not allow it.
ReadInv ==
    /\ waiting = "result" <=> current.method \in Waits
    /\ waiting = "discovery" => "discover" \in setting.calls
    /\ ~setting.cuts => NoneIn(toHost, {"cut"})

\* A request that may be answered by a result.
Asks(f) == f.kind # "discovery"

\* No two unanswered requests have the same id, and none has an answered one's.
FreshInv ==
    /\ emitted \in Seq(Nat)
    /\ \A i \in DOMAIN toDev : Asks(toDev[i]) => toDev[i].id \in 1..calls
    /\ \A i \in DOMAIN modules : modules[i] \in 1..calls
    /\ \A i \in DOMAIN emitted : emitted[i] \in 1..calls
    /\ \A i, j \in DOMAIN toDev :
          Asks(toDev[i]) /\ Asks(toDev[j]) /\ toDev[i].id = toDev[j].id => i = j
    /\ \A i, j \in DOMAIN modules : modules[i] = modules[j] => i = j
    /\ \A i \in DOMAIN toDev : Asks(toDev[i]) =>
          /\ \A j \in DOMAIN modules : modules[j] # toDev[i].id
          /\ \A j \in DOMAIN emitted : emitted[j] # toDev[i].id
    /\ \A i \in DOMAIN modules, j \in DOMAIN emitted : modules[i] # emitted[j]

\* The elements of h are among those of e, and in the order they have there.
InOrder(h, e) ==
    /\ \A i \in DOMAIN h : \E a \in DOMAIN e : e[a] = h[i]
    /\ \A i, k \in DOMAIN h : \A a, b \in DOMAIN e :
          i < k /\ e[a] = h[i] /\ e[b] = h[k] => a < b

ResultInv == ReadInv /\ FreshInv /\ ResultsKept /\ InOrder(Held, emitted)

\* Every element has an id.
WithId(S) == \A e \in S : e.id \in Nat

-----------------------------------------------------------------------------
(* Queues of frames.                                                       *)

\* A sequence of two elements or more has a rest.
LEMMA LongerThanOne ==
    ASSUME NEW S, NEW s \in Seq(S), Len(s) > 1
    PROVE  s # <<>> /\ Tail(s) \in Seq(S) /\ Tail(s) # <<>>
  <1>1. s # <<>>
    OBVIOUS
  <1>2. Tail(s) \in Seq(S) /\ Len(Tail(s)) = Len(s) - 1 /\ Len(s) \in Nat
    BY <1>1, HeadTailProperties, LenProperties
  <1>3. Len(Tail(s)) # 0
    BY <1>2
  <1> QED
    BY <1>1, <1>2, <1>3, EmptySeq

\* A frame that is sent joins the queue behind the others.
LEMMA FrameSent ==
    ASSUME NEW S, NEW q \in Seq(S), NEW f \in S, NEW K, NEW id
    PROVE  /\ Append(q, f) \in Seq(S)
           /\ NoneIn(q, K) => OneIn(Append(q, f), K)
           /\ f.kind \notin K => /\ NoneIn(q, K) => NoneIn(Append(q, f), K)
                                 /\ OneIn(q, K) => OneIn(Append(q, f), K)
           /\ OwnIn(q, K, id) /\ (f.kind \in K => f.id = id) => OwnIn(Append(q, f), K, id)
           /\ NoneIn(q, K) => OwnIn(q, K, id)
  <1>1. /\ Append(q, f) \in Seq(S) /\ Len(q) \in Nat
        /\ DOMAIN q = 1..Len(q) /\ DOMAIN Append(q, f) = 1..(Len(q) + 1)
        /\ \A i \in 1..Len(q) : Append(q, f)[i] = q[i]
        /\ Append(q, f)[Len(q) + 1] = f
    BY AppendProperties, LenProperties
  <1>2. \A i \in 1..(Len(q) + 1) : i \in 1..Len(q) \/ i = Len(q) + 1
    BY <1>1
  <1> QED
    BY <1>1, <1>2 DEF NoneIn, OneIn, OwnIn

\* The oldest frame is taken.
LEMMA FrameTaken ==
    ASSUME NEW S, NEW q \in Seq(S), q # <<>>, NEW K, NEW id
    PROVE  /\ Tail(q) \in Seq(S) /\ Head(q) \in S
           /\ NoneIn(q, K) => NoneIn(Tail(q), K) /\ Head(q).kind \notin K
           /\ OneIn(q, K) => OneIn(Tail(q), K) /\ (Head(q).kind \in K => NoneIn(Tail(q), K))
           /\ OwnIn(q, K, id) => OwnIn(Tail(q), K, id) /\ (Head(q).kind \in K => Head(q).id = id)
  <1>1. /\ Tail(q) \in Seq(S) /\ Head(q) \in S /\ Len(q) \in Nat /\ Len(q) > 0
        /\ DOMAIN q = 1..Len(q) /\ DOMAIN Tail(q) = 1..(Len(q) - 1)
        /\ \A i \in 1..(Len(q) - 1) : Tail(q)[i] = q[i + 1]
        /\ Head(q) = q[1]
    BY HeadTailProperties, LenProperties, EmptySeq
  <1>2. 1 \in 1..Len(q) /\ \A i \in 1..(Len(q) - 1) : i + 1 \in 1..Len(q) /\ i + 1 # 1
    BY <1>1
  <1>3. \A i, j \in 1..(Len(q) - 1) : i + 1 = j + 1 => i = j
    BY <1>1
  <1> QED
    BY <1>1, <1>2, <1>3 DEF NoneIn, OneIn, OwnIn

\* A call returns one more answer.
LEMMA AnswerReturned ==
    ASSUME TypeInv, NEW c \in Called, NEW id \in Nat,
           returned' = Append(returned, [call |-> c, id |-> id])
    PROVE  /\ returned' \in Seq(Answer)
           /\ StatusRepliesMatch /\ setting' = setting
                /\ (~setting.timeouts /\ c.method \in StatusCalls => id = c.id)
              => StatusRepliesMatch'
           /\ SyncLoadReturnsOwn /\ setting' = setting
                /\ (Synchronous /\ c.method \in SyncLoads => id = c.id)
              => SyncLoadReturnsOwn'
  <1> DEFINE r == [call |-> c, id |-> id]
  <1>1. /\ r \in Answer /\ r.call = c /\ r.id = id
    BY DEF Answer
  <1>2. returned \in Seq(Answer)
    BY DEF TypeInv
  <1> HIDE DEF r
  <1>3. /\ returned' \in Seq(Answer) /\ Len(returned) \in Nat
        /\ DOMAIN returned = 1..Len(returned) /\ DOMAIN returned' = 1..(Len(returned) + 1)
        /\ \A i \in 1..Len(returned) : returned'[i] = returned[i]
        /\ returned'[Len(returned) + 1] = r
    BY <1>1, <1>2, AppendProperties, LenProperties DEF r
  <1>4. \A i \in 1..(Len(returned) + 1) : i \in 1..Len(returned) \/ i = Len(returned) + 1
    BY <1>3
  <1>5. setting' = setting => (Synchronous' <=> Synchronous)
    BY DEF Synchronous, Extended
  <1> QED
    BY <1>1, <1>3, <1>4, <1>5 DEF StatusRepliesMatch, SyncLoadReturnsOwn, LoadReturnsOwnResult, StatusCalls

-----------------------------------------------------------------------------
(* The receiver's steps.                                                   *)

\* Handling a request moves the one unanswered request on, or answers it.
LEMMA DeviceHandleKeeps ==
    ASSUME HostInv, DeviceHandle
    PROVE  HostInv'
  <1> USE DEF HostInv
  <1>t. /\ setting' = setting /\ waiting' = waiting /\ current' = current /\ pending' = pending
        /\ calls' = calls /\ returned' = returned /\ toDev # <<>> /\ toDev' = Tail(toDev)
        /\ toDev \in Seq(Request) /\ toHost \in Seq(Reply) /\ modules \in Seq(Nat)
        /\ Synchronous' = Synchronous /\ (Synchronous => Extended)
    BY DEF DeviceHandle, hostVars, TypeInv, Synchronous, Extended
  <1> DEFINE f == Head(toDev)
  <1>f. /\ toDev' \in Seq(Request) /\ f \in Request /\ f.id \in Nat
    <2>1. toDev' \in Seq(Request) /\ f \in Request
      BY <1>t, HeadTailProperties
    <2> QED
      BY <2>1 DEF Request
  <1>d. ASSUME NEW K
        PROVE  /\ NoneIn(toDev, K) => NoneIn(toDev', K) /\ f.kind \notin K
               /\ OneIn(toDev, K) => OneIn(toDev', K) /\ (f.kind \in K => NoneIn(toDev', K))
               /\ OwnIn(toDev, K, current.id)
                    => OwnIn(toDev', K, current.id) /\ (f.kind \in K => f.id = current.id)
    BY <1>t, FrameTaken
  <1>ds. /\ NoneIn(toDev, {"status"}) => NoneIn(toDev', {"status"}) /\ f.kind # "status"
         /\ OneIn(toDev, {"status"}) => OneIn(toDev', {"status"}) /\ (f.kind = "status" => NoneIn(toDev', {"status"}))
         /\ OwnIn(toDev, {"status"}, current.id)
              => OwnIn(toDev', {"status"}, current.id) /\ (f.kind = "status" => f.id = current.id)
    BY <1>d
  <1>dl. /\ NoneIn(toDev, Loads) => NoneIn(toDev', Loads) /\ f.kind \notin Loads
         /\ OneIn(toDev, Loads) => OneIn(toDev', Loads) /\ (f.kind \in Loads => NoneIn(toDev', Loads))
         /\ OwnIn(toDev, Loads, current.id)
              => OwnIn(toDev', Loads, current.id) /\ (f.kind \in Loads => f.id = current.id)
    BY <1>d
  <1>g. ASSUME NEW g \in Reply, toHost' = Append(toHost, g), NEW K
        PROVE  /\ toHost' \in Seq(Reply)
               /\ NoneIn(toHost, K) => OneIn(toHost', K)
               /\ g.kind \notin K => /\ NoneIn(toHost, K) => NoneIn(toHost', K)
                                     /\ OneIn(toHost, K) => OneIn(toHost', K)
               /\ OwnIn(toHost, K, current.id) /\ (g.kind \in K => g.id = current.id)
                    => OwnIn(toHost', K, current.id)
    BY <1>t, <1>g, FrameSent
  <1>p. CallInv' /\ StatusRepliesMatch' /\ SyncLoadReturnsOwn'
    BY <1>t DEF CallInv, StatusRepliesMatch, SyncLoadReturnsOwn, LoadReturnsOwnResult
  <1>1. CASE /\ f.kind = "discovery" \/ (f.kind = "status" /\ Extended)
             /\ toHost' = Append(toHost, f) /\ UNCHANGED devVars
    <2>1. f \in Reply /\ modules' = modules
      BY <1>1, <1>f DEF Request, Reply, devVars
    <2>2. TypeInv'
      BY <1>1, <1>f, <1>g, <1>t, <2>1 DEF TypeInv
    <2>3. /\ NoneIn(toHost, {"status"}) => OneIn(toHost', {"status"})
          /\ f.kind # "status" => /\ NoneIn(toHost, {"status"}) => NoneIn(toHost', {"status"})
                                  /\ OneIn(toHost, {"status"}) => OneIn(toHost', {"status"})
          /\ OwnIn(toHost, {"status"}, current.id) /\ (f.kind = "status" => f.id = current.id)
               => OwnIn(toHost', {"status"}, current.id)
      BY <1>1, <1>g, <2>1
    <2>4. StatusInv'
      BY <1>t, <1>ds, <2>3 DEF StatusInv
    <2>5. /\ NoneIn(toHost, {"result"}) => NoneIn(toHost', {"result"})
          /\ OneIn(toHost, {"result"}) => OneIn(toHost', {"result"})
          /\ OwnIn(toHost, {"result"}, current.id) => OwnIn(toHost', {"result"}, current.id)
      BY <1>1, <1>g, <2>1
    <2>6. LoadInv'
      BY <1>t, <1>dl, <2>1, <2>5 DEF LoadInv
    <2> QED
      BY <1>p, <2>2, <2>4, <2>6
  <1>2. CASE f.kind = "set_param" /\ UNCHANGED <<toHost, devVars>>
    <2>1. modules' = modules /\ toHost' = toHost
      BY <1>2 DEF devVars
    <2>2. TypeInv'
      BY <1>f, <1>t, <2>1 DEF TypeInv
    <2>3. StatusInv' /\ LoadInv'
      BY <1>t, <1>ds, <1>dl, <2>1 DEF StatusInv, LoadInv
    <2> QED
      BY <1>p, <2>2, <2>3
  <1>3. CASE /\ f.kind \in Loads \/ (f.kind \in {"status", "set_param"} /\ ~Extended)
             /\ toHost' = Append(toHost, [kind |-> "result", id |-> f.id])
             /\ UNCHANGED modules
    <2> DEFINE g == [kind |-> "result", id |-> f.id]
    <2>1. g \in Reply /\ g.kind = "result" /\ g.id = f.id
      BY <1>f DEF Reply
    <2> HIDE DEF g
    <2>t. toHost' = Append(toHost, g)
      BY <1>3 DEF g
    <2>2. TypeInv'
      BY <1>3, <1>f, <1>g, <1>t, <2>1, <2>t DEF TypeInv
    <2>3. /\ NoneIn(toHost, {"status"}) => NoneIn(toHost', {"status"})
          /\ OneIn(toHost, {"status"}) => OneIn(toHost', {"status"})
          /\ OwnIn(toHost, {"status"}, current.id) => OwnIn(toHost', {"status"}, current.id)
      BY <1>g, <2>1, <2>t
    <2>4. StatusInv'
      BY <1>t, <1>ds, <2>3 DEF StatusInv
    <2>5. /\ NoneIn(toHost, {"result"}) => OneIn(toHost', {"result"})
          /\ OwnIn(toHost, {"result"}, current.id) /\ f.id = current.id
               => OwnIn(toHost', {"result"}, current.id)
      BY <1>g, <2>1, <2>t
    <2>6. LoadInv'
      BY <1>3, <1>t, <1>dl, <2>5 DEF LoadInv
    <2> QED
      BY <1>p, <2>2, <2>4, <2>6
  <1>4. CASE /\ f.kind \in Loads
             /\ modules' = Append(modules, f.id) /\ UNCHANGED <<toHost, emitted>>
    <2>1. modules' \in Seq(Nat) /\ toHost' = toHost
      BY <1>4, <1>t, <1>f, AppendProperties
    <2>2. modules = <<>> => modules' = <<f.id>>
      BY <1>4
    <2>3. TypeInv'
      BY <1>f, <1>t, <2>1 DEF TypeInv
    <2>4. StatusInv'
      BY <1>t, <1>ds, <2>1 DEF StatusInv
    <2>5. LoadInv'
      BY <1>4, <1>t, <1>dl, <2>1, <2>2 DEF LoadInv
    <2> QED
      BY <1>p, <2>3, <2>4, <2>5
  <1> QED
    BY <1>1, <1>2, <1>3, <1>4 DEF DeviceHandle, Loads, devVars

\* A result that is sent is the current load's, in a synchronous program.
LEMMA DeviceResultKeeps ==
    ASSUME HostInv, DeviceResult
    PROVE  HostInv'
  <1> USE DEF HostInv
  <1>t. /\ setting' = setting /\ waiting' = waiting /\ current' = current /\ pending' = pending
        /\ calls' = calls /\ returned' = returned /\ toDev' = toDev
        /\ modules # <<>> /\ modules' = Tail(modules)
        /\ toHost \in Seq(Reply) /\ modules \in Seq(Nat)
        /\ Synchronous' = Synchronous
    BY DEF DeviceResult, hostVars, TypeInv, Synchronous, Extended
  <1>m. /\ modules' \in Seq(Nat) /\ Head(modules) \in Nat
        /\ modules = <<current.id>> => modules' = <<>> /\ Head(modules) = current.id
    BY <1>t, HeadTailProperties, SMTT(20)
  <1> DEFINE g == [kind |-> "result", id |-> Head(modules)]
  <1>1. g \in Reply /\ g.kind = "result" /\ g.id = Head(modules)
    BY <1>m DEF Reply
  <1>2. toHost' = Append(toHost, g)
    BY DEF DeviceResult
  <1> HIDE DEF g
  <1>g. ASSUME NEW K
        PROVE  /\ toHost' \in Seq(Reply)
               /\ NoneIn(toHost, K) => OneIn(toHost', K)
               /\ g.kind \notin K => /\ NoneIn(toHost, K) => NoneIn(toHost', K)
                                     /\ OneIn(toHost, K) => OneIn(toHost', K)
               /\ OwnIn(toHost, K, current.id) /\ (g.kind \in K => g.id = current.id)
                    => OwnIn(toHost', K, current.id)
    BY <1>t, <1>1, <1>2, FrameSent
  <1>3. TypeInv'
    BY <1>g, <1>t, <1>m DEF TypeInv
  <1>4. /\ NoneIn(toHost, {"status"}) => NoneIn(toHost', {"status"})
        /\ OneIn(toHost, {"status"}) => OneIn(toHost', {"status"})
        /\ OwnIn(toHost, {"status"}, current.id) => OwnIn(toHost', {"status"}, current.id)
    BY <1>g, <1>1
  <1>5. StatusInv'
    BY <1>t, <1>4 DEF StatusInv
  <1>6. /\ NoneIn(toHost, {"result"}) => OneIn(toHost', {"result"})
        /\ OwnIn(toHost, {"result"}, current.id) /\ g.id = current.id
             => OwnIn(toHost', {"result"}, current.id)
    BY <1>g, <1>1
  <1>7. LoadInv'
    BY <1>t, <1>m, <1>1, <1>6 DEF LoadInv
  <1>8. CallInv' /\ StatusRepliesMatch' /\ SyncLoadReturnsOwn'
    BY <1>t DEF CallInv, StatusRepliesMatch, SyncLoadReturnsOwn, LoadReturnsOwnResult
  <1> QED
    BY <1>3, <1>5, <1>7, <1>8

-----------------------------------------------------------------------------
(* The host's calls.                                                       *)

\* A call that sends a frame and waits for no reply, or for a discovery.
LEMMA PlainCallKeeps ==
    ASSUME HostInv, waiting = "none", NEW kind \in {"module", "set_param", "discovery"},
           Synchronous => kind # "module",
           toDev' = Append(toDev, [kind |-> kind, id |-> calls + 1]),
           calls' = calls + 1,
           UNCHANGED <<toHost, setting, modules, pending, returned>>,
           \/ UNCHANGED <<waiting, current>>
           \/ waiting' = "discovery" /\ current' = [id |-> calls + 1, method |-> "discover"]
    PROVE  HostInv'
  <1> USE DEF HostInv
  <1>t. /\ toDev \in Seq(Request) /\ calls \in Nat /\ current \in Called /\ current' \in Called
        /\ Synchronous' = Synchronous
        /\ waiting # "status" /\ waiting' # "status"
        /\ current.method \notin SyncLoads /\ current'.method \notin SyncLoads
        /\ current'.method \notin StatusCalls
        /\ waiting' \in {"none", "result", "status", "discovery"}
    BY DEF TypeInv, CallInv, Synchronous, Extended, Called, Methods, SyncLoads, StatusCalls
  <1> DEFINE g == [kind |-> kind, id |-> calls + 1]
  <1>1. g \in Request /\ g.kind = kind
    BY <1>t DEF Request
  <1> HIDE DEF g
  <1>2. toDev' = Append(toDev, g)
    BY DEF g
  <1>3. ASSUME NEW K
        PROVE  g.kind \notin K /\ NoneIn(toDev, K) => NoneIn(toDev', K)
    BY <1>t, <1>1, <1>2, FrameSent
  <1>4. TypeInv' /\ CallInv'
    <2>1. toDev' \in Seq(Request)
      BY <1>t, <1>1, <1>2, AppendProperties
    <2> QED
      BY <1>t, <2>1 DEF TypeInv, CallInv
  <1>n. ASSUME NEW q, NEW K, NEW id, NoneIn(q, K) PROVE OneIn(q, K) /\ OwnIn(q, K, id)
    BY <1>n DEF NoneIn, OneIn, OwnIn
  <1>5. StatusInv'
    <2>1. ~setting.timeouts => NoneIn(toDev', {"status"}) /\ NoneIn(toHost', {"status"})
      BY <1>t, <1>1, <1>3 DEF StatusInv
    <2> QED
      BY <2>1, <1>n DEF StatusInv
  <1>6. LoadInv'
    <2>1. Synchronous => /\ NoneIn(toDev', Loads) /\ NoneIn(toHost', {"result"})
                         /\ modules' = <<>> /\ pending' = <<>>
      BY <1>t, <1>1, <1>3 DEF LoadInv, Loads
    <2> QED
      BY <1>t, <2>1, <1>n DEF LoadInv
  <1>7. StatusRepliesMatch' /\ SyncLoadReturnsOwn'
    BY <1>t DEF StatusRepliesMatch, SyncLoadReturnsOwn, LoadReturnsOwnResult
  <1> QED
    BY <1>4, <1>5, <1>6, <1>7

\* A load or a status request finds no other of its kind unanswered.
LEMMA RequestKeeps ==
    ASSUME HostInv, waiting = "none", NEW kind \in Loads \cup {"status"},
           NEW m \in SyncLoads \cup StatusCalls,
           kind = "status" <=> m \in StatusCalls,
           toDev' = Append(toDev, [kind |-> kind, id |-> calls + 1]),
           calls' = calls + 1,
           waiting' = IF kind = "status" THEN "status" ELSE "result",
           current' = [id |-> calls + 1, method |-> m],
           UNCHANGED <<toHost, setting, modules, pending, returned>>
    PROVE  HostInv'
  <1> USE DEF HostInv
  <1>t. /\ toDev \in Seq(Request) /\ calls \in Nat /\ current' \in Called
        /\ current'.id = calls + 1 /\ current'.method = m
        /\ Synchronous' = Synchronous
        /\ waiting # "status" /\ current.method \notin SyncLoads
        /\ waiting' \in {"none", "result", "status", "discovery"}
    BY DEF TypeInv, CallInv, Synchronous, Extended, Called, Methods, SyncLoads, StatusCalls
  <1> DEFINE g == [kind |-> kind, id |-> calls + 1]
  <1>1. g \in Request /\ g.kind = kind /\ g.id = current'.id
    BY <1>t DEF Request, Loads
  <1> HIDE DEF g
  <1>2. toDev' = Append(toDev, g)
    BY DEF g
  <1>3. ASSUME NEW K, NoneIn(toDev, K)
        PROVE  /\ toDev' \in Seq(Request) /\ OneIn(toDev', K) /\ OwnIn(toDev', K, current'.id)
               /\ g.kind \notin K => NoneIn(toDev', K)
    BY <1>t, <1>1, <1>2, <1>3, FrameSent
  <1>4. toDev' \in Seq(Request)
    BY <1>t, <1>1, <1>2, AppendProperties
  <1>5. TypeInv' /\ CallInv'
    BY <1>t, <1>4 DEF TypeInv, CallInv, SyncLoads, StatusCalls
  <1>n. ASSUME NEW q, NEW K, NEW id, NoneIn(q, K) PROVE OneIn(q, K) /\ OwnIn(q, K, id)
    BY <1>n DEF NoneIn, OneIn, OwnIn
  <1>6. StatusInv'
    <2>1. ~setting.timeouts => NoneIn(toDev, {"status"}) /\ NoneIn(toHost', {"status"})
      BY <1>t DEF StatusInv
    <2>2. ~setting.timeouts =>
             /\ OneIn(toDev', {"status"}) /\ OwnIn(toDev', {"status"}, current'.id)
             /\ kind # "status" => NoneIn(toDev', {"status"})
      BY <1>1, <1>3, <2>1
    <2> QED
      BY <2>1, <2>2, <1>n DEF StatusInv, Loads
  <1>7. LoadInv'
    <2>1. Synchronous => /\ NoneIn(toDev, Loads) /\ NoneIn(toHost', {"result"})
                         /\ modules' = <<>> /\ pending' = <<>>
      BY <1>t DEF LoadInv
    <2>2. Synchronous =>
             /\ OneIn(toDev', Loads) /\ OwnIn(toDev', Loads, current'.id)
             /\ kind \notin Loads => NoneIn(toDev', Loads)
      BY <1>1, <1>3, <2>1
    <2>3. m \notin SyncLoads => kind \notin Loads
      BY DEF SyncLoads, StatusCalls, Loads
    <2> QED
      BY <1>t, <2>1, <2>2, <2>3, <1>n DEF LoadInv
  <1>8. StatusRepliesMatch' /\ SyncLoadReturnsOwn'
    BY <1>t DEF StatusRepliesMatch, SyncLoadReturnsOwn, LoadReturnsOwnResult
  <1> QED
    BY <1>5, <1>6, <1>7, <1>8

\* A call adds at most its own request.
LEMMA CallKeeps ==
    ASSUME HostInv, CallNext
    PROVE  HostInv'
  <1>1. CASE SyncLoad
    <2>1. PICK m \in SyncLoads : /\ Begin(m) /\ Await("result", m)
                                 /\ Send(IF m = "push" THEN "module" ELSE "swap")
      BY <1>1 DEF SyncLoad
    <2>2. PICK k \in Loads : toDev' = Append(toDev, [kind |-> k, id |-> calls + 1])
      BY <2>1 DEF Send, Loads
    <2>3. m \notin StatusCalls /\ k # "status"
      BY DEF SyncLoads, StatusCalls, Loads
    <2> QED
      BY <1>1, <2>1, <2>2, <2>3, RequestKeeps DEF SyncLoad, Begin, Await, devVars
  <1>2. CASE StatusCall
    <2>1. PICK m \in StatusCalls : Begin(m) /\ Await("status", m)
      BY <1>2 DEF StatusCall, StatusCalls
    <2>2. toDev' = Append(toDev, [kind |-> "status", id |-> calls + 1])
      BY <1>2 DEF StatusCall, Send
    <2> QED
      BY <1>2, <2>1, <2>2, RequestKeeps DEF StatusCall, Begin, Await, devVars
  <1>3. CASE PushAsync \/ SetParam \/ Discover
    <2>1. Synchronous => ~PushAsync
      BY DEF Synchronous, PushAsync, Begin
    <2> QED
      BY <1>3, <2>1, PlainCallKeeps DEF PushAsync, SetParam, Discover, Begin, Send, Await, devVars
  <1>4. CASE WaitResult
    <2> USE DEF HostInv
    <2>1. /\ waiting = "none" /\ waiting' = "result" /\ calls' = calls + 1
          /\ current' = [id |-> calls + 1, method |-> "wait_result"]
          /\ UNCHANGED <<toDev, toHost, setting, modules, pending, returned>>
          /\ Synchronous' = Synchronous
      BY <1>4 DEF WaitResult, Begin, Await, devVars, Synchronous, Extended
    <2>2. /\ current' \in Called /\ calls' \in Nat /\ current'.method = "wait_result"
          /\ current.method \notin SyncLoads
      BY <2>1 DEF TypeInv, CallInv, Called, Methods
    <2>3. TypeInv' /\ CallInv'
      BY <2>1, <2>2 DEF TypeInv, CallInv, SyncLoads, StatusCalls
    <2>n. ASSUME NEW q, NEW K, NEW id, NoneIn(q, K) PROVE OneIn(q, K) /\ OwnIn(q, K, id)
      BY <2>n DEF NoneIn, OneIn, OwnIn
    <2>4. StatusInv' /\ LoadInv'
      BY <2>1, <2>2, <2>n DEF StatusInv, LoadInv, SyncLoads
    <2>5. StatusRepliesMatch' /\ SyncLoadReturnsOwn'
      BY <2>1 DEF StatusRepliesMatch, SyncLoadReturnsOwn, LoadReturnsOwnResult
    <2> QED
      BY <2>3, <2>4, <2>5
  <1> QED
    BY <1>1, <1>2, <1>3, <1>4 DEF CallNext

-----------------------------------------------------------------------------
(* The host's reads.                                                       *)

\* A call ends with the oldest frame as its answer, or with what it stashed.
\* Nothing else of the frame's kind is on its way then.
LEMMA ReadRoutedKeeps ==
    ASSUME HostInv, ReadRouted
    PROVE  HostInv'
  <1> USE DEF HostInv
  <1>t. /\ waiting \in {"result", "status"} /\ toHost # <<>> /\ toHost' = Tail(toHost)
        /\ toDev' = toDev /\ setting' = setting /\ modules' = modules /\ calls' = calls
        /\ toHost \in Seq(Reply) /\ current \in Called /\ pending \in Seq(Nat)
        /\ Synchronous' = Synchronous
    BY DEF ReadRouted, Readable, devVars, TypeInv, Synchronous, Extended
  <1> DEFINE f == Head(toHost)
  <1>f. /\ toHost' \in Seq(Reply) /\ f \in Reply /\ f.id \in Nat
    <2>1. toHost' \in Seq(Reply) /\ f \in Reply
      BY <1>t, HeadTailProperties
    <2> QED
      BY <2>1 DEF Reply
  <1>h. ASSUME NEW K
        PROVE  /\ NoneIn(toHost, K) => NoneIn(toHost', K) /\ f.kind \notin K
               /\ OneIn(toHost, K) => OneIn(toHost', K) /\ (f.kind \in K => NoneIn(toHost', K))
               /\ OwnIn(toHost, K, current.id)
                    => OwnIn(toHost', K, current.id) /\ (f.kind \in K => f.id = current.id)
    BY <1>t, FrameTaken
  <1>hs. /\ NoneIn(toHost, {"status"}) => NoneIn(toHost', {"status"}) /\ f.kind # "status"
         /\ OneIn(toHost, {"status"}) => OneIn(toHost', {"status"}) /\ (f.kind = "status" => NoneIn(toHost', {"status"}))
         /\ OwnIn(toHost, {"status"}, current.id)
              => OwnIn(toHost', {"status"}, current.id) /\ (f.kind = "status" => f.id = current.id)
    BY <1>h
  <1>hr. /\ NoneIn(toHost, {"result"}) => NoneIn(toHost', {"result"}) /\ f.kind # "result"
         /\ OneIn(toHost, {"result"}) => OneIn(toHost', {"result"}) /\ (f.kind = "result" => NoneIn(toHost', {"result"}))
         /\ OwnIn(toHost, {"result"}, current.id)
              => OwnIn(toHost', {"result"}, current.id) /\ (f.kind = "result" => f.id = current.id)
    BY <1>h
  <1>n. ASSUME NEW q, NEW K, NEW id, NoneIn(q, K) PROVE OneIn(q, K) /\ OwnIn(q, K, id)
    BY <1>n DEF NoneIn, OneIn, OwnIn
  <1>1. CASE f.kind = waiting /\ Return(f.id) /\ UNCHANGED pending
    <2>1. /\ returned' = Append(returned, [call |-> current, id |-> f.id])
          /\ waiting' = "none" /\ current' = NoCall /\ pending' = pending
      BY <1>1 DEF Return
    <2>2. NoCall \in Called /\ NoCall.method = "none"
      BY DEF NoCall, Called
    <2>3. ~setting.timeouts /\ current.method \in StatusCalls => f.id = current.id
      BY <1>1, <1>hs DEF CallInv, StatusInv
    <2>4. Synchronous /\ current.method \in SyncLoads => f.id = current.id
      BY <1>1, <1>hr DEF CallInv, LoadInv
    <2>5. /\ returned' \in Seq(Answer)
          /\ StatusRepliesMatch' /\ SyncLoadReturnsOwn'
      BY <1>t, <1>f, <2>1, <2>3, <2>4, AnswerReturned
    <2>6. TypeInv' /\ CallInv'
      BY <1>t, <1>f, <2>1, <2>2, <2>5 DEF TypeInv, CallInv, StatusCalls, SyncLoads
    <2>7. ~setting.timeouts => NoneIn(toDev', {"status"}) /\ NoneIn(toHost', {"status"})
      BY <1>t, <1>1, <1>hs DEF StatusInv
    <2>8. StatusInv'
      BY <1>n, <1>t, <2>7 DEF StatusInv
    <2>9. Synchronous => /\ NoneIn(toDev', Loads) /\ NoneIn(toHost', {"result"})
                         /\ modules' = <<>> /\ pending' = <<>>
      <3>1. CASE waiting = "result"
        BY <1>t, <1>1, <1>hr, <2>1, <3>1 DEF LoadInv
      <3>2. CASE waiting = "status"
        BY <1>t, <1>hr, <2>1, <3>2 DEF LoadInv, CallInv
      <3> QED
        BY <1>t, <3>1, <3>2
    <2>10. LoadInv'
      BY <1>n, <1>t, <2>9 DEF LoadInv
    <2> QED
      BY <2>5, <2>6, <2>8, <2>10
  <1>2. CASE /\ f.kind # waiting
             /\ pending' = IF f.kind = "result" THEN Append(pending, f.id) ELSE pending
             /\ UNCHANGED <<waiting, current, returned>>
    <2>1. pending' \in Seq(Nat)
      BY <1>t, <1>f, <1>2, AppendProperties
    <2>2. TypeInv' /\ CallInv'
      BY <1>t, <1>f, <1>2, <2>1 DEF TypeInv, CallInv
    <2>3. StatusInv'
      BY <1>t, <1>2, <1>hs DEF StatusInv
    <2>4. Synchronous => f.kind # "result"
      BY <1>t, <1>2, <1>hr DEF LoadInv, CallInv
    <2>5. LoadInv'
      BY <1>t, <1>2, <1>hr, <2>4 DEF LoadInv
    <2>6. StatusRepliesMatch' /\ SyncLoadReturnsOwn'
      BY <1>t, <1>2 DEF StatusRepliesMatch, SyncLoadReturnsOwn, LoadReturnsOwnResult
    <2> QED
      BY <2>2, <2>3, <2>5, <2>6
  <1> QED
    BY <1>1, <1>2 DEF ReadRouted

\* A stashed result is there only in programs that are not synchronous.
LEMMA PendingResultKeeps ==
    ASSUME HostInv, PendingResult
    PROVE  HostInv'
  <1> USE DEF HostInv
  <1>1. /\ waiting = "result" /\ pending # <<>> /\ pending' = Tail(pending)
        /\ toDev' = toDev /\ toHost' = toHost /\ setting' = setting /\ modules' = modules
        /\ calls' = calls /\ Synchronous' = Synchronous
        /\ returned' = Append(returned, [call |-> current, id |-> Head(pending)])
        /\ waiting' = "none" /\ current' = NoCall
        /\ pending \in Seq(Nat) /\ current \in Called
    BY DEF PendingResult, Return, devVars, TypeInv, Synchronous, Extended
  <1>2. pending' \in Seq(Nat) /\ Head(pending) \in Nat
    BY <1>1, HeadTailProperties
  <1>3. NoCall \in Called /\ NoCall.method = "none" /\ ~Synchronous
    BY <1>1 DEF NoCall, Called, LoadInv
  <1>4. current.method \notin StatusCalls
    BY <1>1 DEF CallInv
  <1>5. /\ returned' \in Seq(Answer)
        /\ StatusRepliesMatch' /\ SyncLoadReturnsOwn'
    BY <1>1, <1>2, <1>3, <1>4, AnswerReturned
  <1>6. TypeInv' /\ CallInv'
    BY <1>1, <1>2, <1>3, <1>5 DEF TypeInv, CallInv, StatusCalls, SyncLoads
  <1>n. ASSUME NEW q, NEW K, NEW id, NoneIn(q, K) PROVE OneIn(q, K) /\ OwnIn(q, K, id)
    BY <1>n DEF NoneIn, OneIn, OwnIn
  <1>7. StatusInv' /\ LoadInv'
    BY <1>1, <1>3, <1>n DEF StatusInv, LoadInv
  <1> QED
    BY <1>5, <1>6, <1>7

\* request_discovery takes whatever comes: no status reply and, in a
\* synchronous program, no result is on its way while it reads; and reads that
\* give up exclude both claims.
LEMMA DiscoveryKeeps ==
    ASSUME HostInv, ReadDiscovery \/ Timeout \/ SkipBogus
    PROVE  HostInv'
  <1> USE DEF HostInv
  <1>t. /\ setting' = setting /\ modules' = modules /\ calls' = calls /\ pending' = pending
        /\ Synchronous' = Synchronous
        /\ toHost \in Seq(Reply) /\ toDev \in Seq(Request) /\ current \in Called
        /\ NoCall \in Called /\ NoCall.method = "none"
    BY DEF ReadDiscovery, Timeout, SkipBogus, devVars, TypeInv, Synchronous, Extended, NoCall, Called
  <1>1. toHost' \in Seq(Reply)
    <2>1. CutFrame \in Reply
      BY DEF CutFrame, Reply
    <2>2. toHost # <<>> => Tail(toHost) \in Seq(Reply)
      BY <1>t, HeadTailProperties
    <2>3. <<>> \in Seq(Reply) /\ <<CutFrame>> \in Seq(Reply)
      BY <2>1
    <2>4. ASSUME NEW q \in Seq(Reply) PROVE <<CutFrame>> \o q \in Seq(Reply)
      BY <2>3, ConcatProperties
    <2>5. AfterTimeout \subseteq Seq(Reply)
      BY <1>t, <2>2, <2>3, <2>4 DEF AfterTimeout
    <2>6. ASSUME SkipBogus PROVE toHost' \in Seq(Reply)
      <3>1. toHost # <<>> /\ Len(toHost) > 1
        BY <1>t, <2>6, LongerThanOne DEF SkipBogus
      <3>2. Tail(toHost) \in Seq(Reply) /\ Tail(toHost) # <<>>
        BY <1>t, <3>1, LongerThanOne
      <3>3. Tail(Tail(toHost)) \in Seq(Reply)
        BY <3>2, HeadTailProperties
      <3> QED
        BY <2>4, <2>6, <3>3 DEF SkipBogus
    <2> QED
      BY <2>2, <2>5, <2>6 DEF ReadDiscovery, Timeout, Readable
  <1>2. toDev' \in Seq(Request)
    <2>1. [kind |-> "discovery", id |-> current.id] \in Request
      BY <1>t DEF Request, Called
    <2>2. Append(toDev, [kind |-> "discovery", id |-> current.id]) \in Seq(Request)
      BY <1>t, <2>1, AppendProperties
    <2> QED
      BY <1>t, <2>2 DEF ReadDiscovery, Timeout, SkipBogus, RetryDiscovery
  <1>3. \/ /\ returned' = returned
           /\ \/ waiting' = waiting /\ current' = current
              \/ waiting' = "none" /\ current' = NoCall
        \/ /\ waiting = "discovery" /\ waiting' = "none" /\ current' = NoCall
           /\ \E id \in Nat : returned' = Append(returned, [call |-> current, id |-> id])
    <2>1. toHost # <<>> => Head(toHost).id \in Nat
      <3>1. toHost # <<>> => Head(toHost) \in Reply
        BY <1>t, HeadTailProperties
      <3> QED
        BY <3>1 DEF Reply
    <2>2. CASE ReadDiscovery
      BY <2>1, <2>2 DEF ReadDiscovery, Readable, RetryDiscovery, Return
    <2>3. CASE Timeout \/ SkipBogus
      BY <2>3 DEF Timeout, SkipBogus, RetryDiscovery, Return
    <2> QED
      BY <2>2, <2>3
  <1>4. /\ returned' \in Seq(Answer)
        /\ StatusRepliesMatch' /\ SyncLoadReturnsOwn'
    <2>1. CASE returned' = returned
      BY <1>t, <2>1 DEF TypeInv, StatusRepliesMatch, SyncLoadReturnsOwn, LoadReturnsOwnResult
    <2>2. ASSUME NEW id \in Nat, waiting = "discovery",
                 returned' = Append(returned, [call |-> current, id |-> id])
          PROVE  /\ returned' \in Seq(Answer)
                 /\ StatusRepliesMatch' /\ SyncLoadReturnsOwn'
      <3>1. current.method \notin StatusCalls /\ current.method \notin SyncLoads
        BY <2>2 DEF CallInv
      <3> QED
        BY <1>t, <2>2, <3>1, AnswerReturned
    <2> QED
      BY <1>3, <2>1, <2>2
  <1>5. CallInv'
    BY <1>t, <1>3 DEF CallInv, StatusCalls, SyncLoads
  <1>6. TypeInv'
    BY <1>t, <1>1, <1>2, <1>3, <1>4 DEF TypeInv
  <1>7. ASSUME NEW K, ~setting.timeouts, "discovery" \notin K
        PROVE  /\ NoneIn(toDev, K) => NoneIn(toDev', K)
               /\ NoneIn(toHost, {"status"}) => NoneIn(toHost', {"status"})
               /\ NoneIn(toHost, {"result"}) => NoneIn(toHost', {"result"})
    <2>1. ReadDiscovery
      BY <1>7 DEF Timeout, SkipBogus
    <2>2. toHost # <<>> /\ toHost' = Tail(toHost)
      BY <2>1 DEF ReadDiscovery, Readable
    <2> DEFINE g == [kind |-> "discovery", id |-> current.id]
    <2>3. g \in Request /\ g.kind = "discovery"
      BY <1>t DEF Request, Called
    <2>4. toDev' = toDev \/ toDev' = Append(toDev, g)
      BY <2>1 DEF ReadDiscovery, RetryDiscovery
    <2> HIDE DEF g
    <2>5. NoneIn(toDev, K) => NoneIn(Append(toDev, g), K)
      BY <1>t, <1>7, <2>3, FrameSent
    <2>6. \A L : NoneIn(toHost, L) => NoneIn(Tail(toHost), L)
      BY <1>t, <2>2, FrameTaken
    <2> QED
      BY <2>2, <2>4, <2>5, <2>6
  <1>8. ~setting.timeouts => waiting = "discovery" /\ current.method \notin SyncLoads
    BY DEF ReadDiscovery, Timeout, SkipBogus, CallInv
  <1>n. ASSUME NEW q, NEW K, NEW id, NoneIn(q, K) PROVE OneIn(q, K) /\ OwnIn(q, K, id)
    BY <1>n DEF NoneIn, OneIn, OwnIn
  <1>9. StatusInv'
    <2>1. ~setting.timeouts => NoneIn(toDev', {"status"}) /\ NoneIn(toHost', {"status"})
      BY <1>7, <1>8 DEF StatusInv
    <2> QED
      BY <1>n, <1>t, <2>1 DEF StatusInv
  <1>10. LoadInv'
    <2>1. Synchronous => ~setting.timeouts
      BY DEF Synchronous
    <2>2. "discovery" \notin Loads
      BY DEF Loads
    <2>3. Synchronous => /\ NoneIn(toDev', Loads) /\ NoneIn(toHost', {"result"})
                         /\ modules' = <<>> /\ pending' = <<>>
      BY <1>t, <1>7, <1>8, <2>1, <2>2 DEF LoadInv
    <2> QED
      BY <1>n, <1>t, <2>3 DEF LoadInv
  <1> QED
    BY <1>4, <1>5, <1>6, <1>9, <1>10

-----------------------------------------------------------------------------
(* The theorems.                                                           *)

\* Every step keeps the invariant.
LEMMA HostStep == HostInv /\ [Next]_vars => HostInv'
  <1> SUFFICES ASSUME HostInv, [Next]_vars PROVE HostInv'
    OBVIOUS
  <1>1. CASE UNCHANGED vars
    BY <1>1 DEF HostInv, TypeInv, CallInv, StatusInv, LoadInv, StatusRepliesMatch, SyncLoadReturnsOwn,
                LoadReturnsOwnResult, Synchronous, Extended, vars, devVars, hostVars, NoneIn, OneIn, OwnIn
  <1>2. CASE Next
    BY <1>2, CallKeeps, PendingResultKeeps, ReadRoutedKeeps, DiscoveryKeeps, DeviceHandleKeeps,
       DeviceResultKeeps DEF Next, ReadNext, DeviceNext
  <1> QED
    BY <1>1, <1>2

\* The invariant of the device proxy, its wire and the receiver behind it.
THEOREM HostInvariant == Spec => []HostInv
  <1>1. Init => HostInv
    <2> SUFFICES ASSUME Init PROVE HostInv
      OBVIOUS
    <2>1. \A S : <<>> \in Seq(S)
      OBVIOUS
    <2>2. NoCall \in Called /\ NoCall.method = "none"
      BY DEF NoCall, Called
    <2>3. TypeInv
      BY <2>1, <2>2, HostAssumption DEF Init, TypeInv
    <2>4. CallInv
      BY <2>2 DEF Init, CallInv, StatusCalls, SyncLoads
    <2>5. \A K, id : NoneIn(<<>>, K) /\ OneIn(<<>>, K) /\ OwnIn(<<>>, K, id)
      BY DEF NoneIn, OneIn, OwnIn
    <2>6. StatusInv /\ LoadInv
      BY <2>5 DEF Init, StatusInv, LoadInv
    <2>7. StatusRepliesMatch /\ SyncLoadReturnsOwn
      BY DEF Init, StatusRepliesMatch, SyncLoadReturnsOwn, LoadReturnsOwnResult
    <2> QED
      BY <2>3, <2>4, <2>6, <2>7 DEF HostInv
  <1> QED
    BY <1>1, HostStep, PTL DEF Spec

\* stop() and query_status() return the reply to their own request, however
\* many results interleave with it, as long as no read gives up.
THEOREM StatusRepliesAreOwn == Spec => []StatusRepliesMatch
  <1>1. HostInv => StatusRepliesMatch
    BY DEF HostInv
  <1> QED
    BY <1>1, HostInvariant, PTL

\* In a program without push_async every push() and hot_swap() returns its own
\* module's result, over any number of calls.
THEOREM SyncLoadsReturnOwn == Spec => []SyncLoadReturnsOwn
  <1>1. HostInv => SyncLoadReturnsOwn
    BY DEF HostInv
  <1> QED
    BY <1>1, HostInvariant, PTL

-----------------------------------------------------------------------------
(* The results in a sequence.  The library's induction takes an operator,  *)
(* so inductions are over the least counterexample.                        *)

\* A set of naturals has a least element.
LEMMA LeastElement ==
    ASSUME NEW T, T \subseteq Nat, T # {}
    PROVE  \E n \in T : \A m \in T : n <= m
  <1>1. PICK n \in T : \A m \in T : ~(<<m, n>> \in OpToRel(<, Nat))
    BY WFMin, NatLessThanWellFounded
  <1>2. \A m \in T : ~(m < n)
    BY <1>1 DEF OpToRel
  <1> QED
    BY <1>2

\* What the n-th element adds to the ids before it.
IdsNext(s, K, n, before) == IF s[n] \in K THEN Append(before, s[n].id) ELSE before

\* g[n] are the ids that Ids finds in the first n elements of s.
Found(s, K, m, g) ==
    /\ g \in [0..m -> Seq(Nat)]
    /\ g[0] = <<>>
    /\ \A n \in 1..m : g[n] = IdsNext(s, K, n, g[n - 1])

\* There is such a function.
LEMMA FoundExists ==
    ASSUME NEW S, WithId(S), NEW s \in Seq(S), NEW K
    PROVE  \E g : Found(s, K, Len(s), g)
  <1> DEFINE T == {m \in 0..Len(s) : ~\E g : Found(s, K, m, g)}
  <1>l. Len(s) \in Nat /\ \A n \in 1..Len(s) : s[n] \in S /\ s[n].id \in Nat
    BY LenProperties, ElementOfSeq DEF WithId
  <1>1. SUFFICES ASSUME T # {} PROVE FALSE
    BY <1>l
  <1>t. T \subseteq Nat
    BY <1>l
  <1>2. PICK m \in T : \A k \in T : m <= k
    <2> HIDE DEF T
    <2> QED
      BY <1>1, <1>t, LeastElement
  <1>3. m # 0
    <2>1. Found(s, K, 0, [n \in 0..0 |-> <<>>])
      BY DEF Found
    <2> QED
      BY <2>1
  <1>4. m \in Nat /\ m - 1 \in 0..Len(s) /\ m - 1 \notin T /\ m \in 1..Len(s)
    BY <1>2, <1>3, <1>l
  <1>5. PICK g : Found(s, K, m - 1, g)
    BY <1>4
  <1> DEFINE h == [n \in 0..m |-> IF n < m THEN g[n]
                                  ELSE IdsNext(s, K, m, g[m - 1])]
  <1>6. g[m - 1] \in Seq(Nat)
    BY <1>4, <1>5 DEF Found
  <1>7. IdsNext(s, K, m, g[m - 1]) \in Seq(Nat)
    <2>1. s[m].id \in Nat
      BY <1>4, <1>l
    <2> QED
      BY <1>6, <2>1, AppendProperties DEF IdsNext
  <1>8. h \in [0..m -> Seq(Nat)]
    <2>1. \A n \in 0..m : n < m => g[n] \in Seq(Nat)
      BY <1>4, <1>5 DEF Found
    <2> QED
      BY <1>6, <1>7, <2>1
  <1>9. h[0] = <<>>
    BY <1>4, <1>3, <1>5 DEF Found
  <1>10. ASSUME NEW n \in 1..m
         PROVE  h[n] = IdsNext(s, K, n, h[n - 1])
    <2>1. CASE n = m
      BY <1>4, <2>1
    <2>2. CASE n # m
      <3>1. n \in 1..(m - 1) /\ n < m /\ n - 1 < m /\ n - 1 \in 0..m
        BY <1>4, <2>2
      <3>2. h[n] = g[n] /\ h[n - 1] = g[n - 1]
        BY <3>1
      <3> QED
        BY <1>5, <3>1, <3>2 DEF Found
    <2> QED
      BY <2>1, <2>2
  <1> HIDE DEF h
  <1>11. Found(s, K, m, h)
    BY <1>8, <1>9, <1>10 DEF Found
  <1> QED
    BY <1>2, <1>11

\* And only one: two that are for the same first elements agree on them.
LEMMA FoundAgree ==
    ASSUME NEW s, NEW t, NEW K, NEW m \in Nat, NEW k \in Nat, k <= m, NEW g, NEW h,
           Found(s, K, m, g), Found(t, K, k, h), \A n \in 1..k : s[n] = t[n]
    PROVE  g[k] = h[k]
  <1> DEFINE T == {n \in 0..k : g[n] # h[n]}
  <1>1. SUFFICES ASSUME T # {} PROVE FALSE
    OBVIOUS
  <1>t. T \subseteq Nat
    OBVIOUS
  <1>2. PICK n \in T : \A j \in T : n <= j
    <2> HIDE DEF T
    <2> QED
      BY <1>1, <1>t, LeastElement
  <1>3. n # 0
    BY <1>2 DEF Found
  <1>4. n \in 1..k /\ n \in 1..m /\ n - 1 \in 0..k /\ n - 1 \notin T
    BY <1>2, <1>3
  <1>5. g[n - 1] = h[n - 1] /\ s[n] = t[n]
    BY <1>4
  <1>6. g[n] = h[n]
    <2>1. g[n] = IdsNext(s, K, n, g[n - 1]) /\ h[n] = IdsNext(t, K, n, h[n - 1])
      BY <1>4 DEF Found
    <2> QED
      BY <1>5, <2>1 DEF IdsNext
  <1> QED
    BY <1>2, <1>6

\* What Ids computes.
LEMMA IdsFound ==
    ASSUME NEW S, WithId(S), NEW s \in Seq(S), NEW K
    PROVE  \E g : Found(s, K, Len(s), g) /\ Ids(s, K) = g[Len(s)]
  <1> DEFINE Body(g, n) == IF n = 0 THEN <<>>
                           ELSE IF s[n] \in K THEN Append(g[n - 1], s[n].id) ELSE g[n - 1]
             Rec(g) == g = [n \in 0..Len(s) |-> Body(g, n)]
  <1>l. Len(s) \in Nat
    BY LenProperties
  <1>1. PICK f : Found(s, K, Len(s), f)
    BY FoundExists
  <1>2. Rec(f)
    <2>1. f[0] = Body(f, 0)
      BY <1>1 DEF Found
    <2>2. \A n \in 1..Len(s) : f[n] = Body(f, n)
      BY <1>1 DEF Found, IdsNext
    <2>3. \A n \in 0..Len(s) : n = 0 \/ n \in 1..Len(s)
      BY <1>l
    <2>4. f \in [0..Len(s) -> Seq(Nat)]
      BY <1>1 DEF Found
    <2> HIDE DEF Body
    <2> QED
      BY <2>1, <2>2, <2>3, <2>4
  <1>3. PICK g : Rec(g) /\ Ids(s, K) = g[Len(s)]
    BY <1>2 DEF Ids
  <1>4. /\ g[0] = <<>>
        /\ \A n \in 1..Len(s) : g[n] = IdsNext(s, K, n, g[n - 1])
    <2>1. \A n \in 0..Len(s) : g[n] = Body(g, n)
      <3> HIDE DEF Body
      <3> QED
        BY <1>3
    <2>2. 0 \in 0..Len(s) /\ \A n \in 1..Len(s) : n \in 0..Len(s) /\ n # 0
      BY <1>l
    <2>3. \A n \in 1..Len(s) : Body(g, n) = IdsNext(s, K, n, g[n - 1])
      BY <2>2 DEF IdsNext
    <2> QED
      BY <2>1, <2>2, <2>3
  <1>5. \A n \in 0..Len(s) : g[n] = f[n]
    <2> DEFINE T == {n \in 0..Len(s) : g[n] # f[n]}
    <2>1. SUFFICES ASSUME T # {} PROVE FALSE
      OBVIOUS
    <2>t. T \subseteq Nat
      BY <1>l
    <2>2. PICK n \in T : \A j \in T : n <= j
      <3> HIDE DEF T
      <3> QED
        BY <2>1, <2>t, LeastElement
    <2>3. n # 0
      BY <1>1, <1>4, <2>2 DEF Found
    <2>4. n \in 1..Len(s) /\ n - 1 \in 0..Len(s) /\ n - 1 \notin T
      BY <1>l, <2>2, <2>3
    <2>5. g[n - 1] = f[n - 1]
      BY <2>4
    <2> QED
      BY <1>1, <1>4, <2>2, <2>4, <2>5 DEF Found
  <1> QED
    BY <1>1, <1>3, <1>5, <1>l

\* Ids is a sequence, and there is none in an empty one.
LEMMA IdsTyped ==
    ASSUME NEW S, WithId(S), NEW s \in Seq(S), NEW K
    PROVE  Ids(s, K) \in Seq(Nat) /\ (s = <<>> => Ids(s, K) = <<>>)
  <1>1. Len(s) \in Nat
    BY LenProperties
  <1>2. PICK g : Found(s, K, Len(s), g) /\ Ids(s, K) = g[Len(s)]
    BY IdsFound
  <1> QED
    BY <1>1, <1>2, EmptySeq DEF Found

\* What one more element adds.
LEMMA IdsAppend ==
    ASSUME NEW S, WithId(S), NEW s \in Seq(S), NEW e \in S, NEW K
    PROVE  /\ Ids(Append(s, e), K) = IF e \in K THEN Append(Ids(s, K), e.id) ELSE Ids(s, K)
  <1> DEFINE t == Append(s, e)
  <1>1. /\ t \in Seq(S) /\ Len(s) \in Nat /\ Len(t) = Len(s) + 1
        /\ \A n \in 1..Len(s) : t[n] = s[n]
        /\ t[Len(s) + 1] = e
    BY AppendProperties, LenProperties
  <1> HIDE DEF t
  <1>2. PICK g : Found(s, K, Len(s), g) /\ Ids(s, K) = g[Len(s)]
    BY IdsFound
  <1>3. PICK h : Found(t, K, Len(t), h) /\ Ids(t, K) = h[Len(t)]
    BY <1>1, IdsFound
  <1>4. h[Len(s)] = g[Len(s)]
    BY <1>1, <1>2, <1>3, FoundAgree
  <1>5. h[Len(t)] = IF e \in K THEN Append(h[Len(s)], e.id) ELSE h[Len(s)]
    BY <1>1, <1>3 DEF Found, IdsNext
  <1> QED
    BY <1>2, <1>3, <1>4, <1>5 DEF t

\* What is appended to the second part is appended to the whole.
LEMMA AppendBehind ==
    ASSUME NEW p \in Seq(Nat), NEW q \in Seq(Nat), NEW x \in Nat
    PROVE  Append(p \o q, x) = p \o Append(q, x)
  <1>1. p \o q \in Seq(Nat) /\ <<x>> \in Seq(Nat)
    BY ConcatProperties
  <1>2. Append(p \o q, x) = (p \o q) \o <<x>> /\ Append(q, x) = q \o <<x>>
    BY <1>1, AppendIsConcat
  <1>3. (p \o q) \o <<x>> = p \o (q \o <<x>>)
    BY <1>1, ConcatAssociative
  <1> QED
    BY <1>2, <1>3, Zenon

\* The first element's id comes first.
LEMMA IdsTail ==
    ASSUME NEW S, WithId(S), NEW s \in Seq(S), s # <<>>, NEW K
    PROVE  /\ Ids(Tail(s), K) \in Seq(Nat)
           /\ Ids(s, K) = IF Head(s) \in K THEN <<Head(s).id>> \o Ids(Tail(s), K) ELSE Ids(Tail(s), K)
  <1> DEFINE t == Tail(s)
             pre == IF s[1] \in K THEN <<s[1].id>> ELSE <<>>
  <1>1. /\ t \in Seq(S) /\ Len(s) \in Nat \ {0} /\ Len(t) = Len(s) - 1
        /\ \A n \in 1..Len(t) : t[n] = s[n + 1]
        /\ Head(s) = s[1] /\ \A n \in 1..Len(s) : s[n].id \in Nat
    BY HeadTailProperties, EmptySeq, LenProperties, ElementOfSeq DEF WithId
  <1> HIDE DEF t
  <1>2. PICK g : Found(s, K, Len(s), g) /\ Ids(s, K) = g[Len(s)]
    BY IdsFound
  <1>3. PICK h : Found(t, K, Len(t), h) /\ Ids(t, K) = h[Len(t)]
    BY <1>1, IdsFound
  <1>4. pre \in Seq(Nat) /\ 1 \in 1..Len(s) /\ Len(t) \in Nat
    BY <1>1
  <1>p. IdsNext(s, K, 1, <<>>) = pre
    BY DEF IdsNext
  <1> HIDE DEF pre
  <1>5. \A n \in 0..Len(t) : g[n + 1] = pre \o h[n]
    <2> DEFINE T == {n \in 0..Len(t) : g[n + 1] # pre \o h[n]}
    <2>1. SUFFICES ASSUME T # {} PROVE FALSE
      OBVIOUS
    <2>t. T \subseteq Nat
      BY <1>4
    <2>2. PICK n \in T : \A j \in T : n <= j
      <3> HIDE DEF T
      <3> QED
        BY <2>1, <2>t, LeastElement
    <2>3. n # 0
      <3>1. g[1] = pre /\ h[0] = <<>>
        <4>1. g[1] = IdsNext(s, K, 1, g[0]) /\ g[0] = <<>> /\ h[0] = <<>>
          BY <1>2, <1>3, <1>4 DEF Found
        <4> QED
          BY <1>p, <4>1
      <3>2. pre \o <<>> = pre
        BY <1>4, ConcatEmptySeq
      <3>3. 0 + 1 = 1
        OBVIOUS
      <3>4. g[0 + 1] = pre \o h[0]
        BY <3>1, <3>2, <3>3
      <3> QED
        BY <2>2, <3>4
    <2>4. n \in 1..Len(t) /\ n - 1 \in 0..Len(t) /\ n + 1 \in 1..Len(s) /\ n + 1 - 1 = n /\ n - 1 + 1 = n
      BY <1>1, <1>4, <2>2, <2>3
    <2>5. n - 1 \notin T
      BY <2>2, <2>4
    <2>6. g[n] = pre \o h[n - 1]
      BY <2>4, <2>5
    <2>7. g[n + 1] = IdsNext(s, K, n + 1, g[n]) /\ h[n] = IdsNext(t, K, n, h[n - 1])
      BY <1>2, <1>3, <2>4 DEF Found
    <2>8. h[n - 1] \in Seq(Nat) /\ s[n + 1].id \in Nat /\ t[n] = s[n + 1]
      BY <1>1, <1>3, <2>4 DEF Found
    <2>9. ASSUME NEW q \in Seq(Nat), NEW x \in Nat PROVE Append(pre \o q, x) = pre \o Append(q, x)
      <3>1. pre \in Seq(Nat)
        BY <1>4
      <3> QED
        BY <3>1, AppendBehind
    <2>10. IdsNext(s, K, n + 1, pre \o h[n - 1]) = pre \o IdsNext(t, K, n, h[n - 1])
      BY <2>8, <2>9 DEF IdsNext
    <2> QED
      BY <2>2, <2>6, <2>7, <2>10
  <1>6. Ids(s, K) = pre \o Ids(t, K)
    <2>1. Len(t) + 1 = Len(s) /\ Len(t) \in 0..Len(t)
      BY <1>1, <1>4
    <2> QED
      BY <1>2, <1>3, <1>5, <2>1
  <1>7. Ids(t, K) \in Seq(Nat)
    <2>1. Len(t) \in 0..Len(t)
      BY <1>4
    <2> QED
      BY <1>3, <2>1 DEF Found
  <1>8. <<>> \o Ids(t, K) = Ids(t, K)
    BY <1>7, ConcatEmptySeq
  <1> QED
    BY <1>1, <1>6, <1>7, <1>8 DEF t, pre

-----------------------------------------------------------------------------
(* Results kept, and in order.                                             *)

\* What is appended to the first part is in front of the second.
LEMMA AppendBefore ==
    ASSUME NEW Q \in Seq(Nat), NEW y \in Nat, NEW R \in Seq(Nat)
    PROVE  Append(Q, y) \o R = Q \o (<<y>> \o R)
  <1>1. <<y>> \in Seq(Nat)
    OBVIOUS
  <1>2. Append(Q, y) = Q \o <<y>>
    BY AppendIsConcat
  <1>3. (Q \o <<y>>) \o R = Q \o (<<y>> \o R)
    BY <1>1, ConcatAssociative
  <1> QED
    BY <1>2, <1>3, Zenon

\* A result that is collected from the wire while none is stashed keeps its
\* place.
LEMMA CollectMoves ==
    ASSUME NEW C \in Seq(Nat), NEW I \in Seq(Nat), NEW x \in Nat
    PROVE  (Append(C, x) \o <<>>) \o I = (C \o <<>>) \o (<<x>> \o I)
  <1>1. Append(C, x) \in Seq(Nat)
    BY AppendProperties
  <1>2. Append(C, x) \o <<>> = Append(C, x) /\ C \o <<>> = C
    BY <1>1, ConcatEmptySeq
  <1>3. Append(C, x) \o I = C \o (<<x>> \o I)
    BY AppendBefore
  <1> QED
    BY <1>2, <1>3, Zenon

\* So does the oldest stashed one that is collected.
LEMMA UnstashMoves ==
    ASSUME NEW C \in Seq(Nat), NEW P \in Seq(Nat), NEW I \in Seq(Nat), P # <<>>
    PROVE  (Append(C, Head(P)) \o Tail(P)) \o I = (C \o P) \o I
  <1>1. Head(P) \in Nat /\ Tail(P) \in Seq(Nat)
    BY HeadTailProperties
  <1>2. Append(C, Head(P)) \o Tail(P) = C \o (<<Head(P)>> \o Tail(P))
    BY <1>1, AppendBefore
  <1>3. <<Head(P)>> \o Tail(P) = P
    OBVIOUS
  <1> QED
    BY <1>2, <1>3

\* A new result comes last, if it is new.
LEMMA InOrderAppend ==
    ASSUME NEW h \in Seq(Nat), NEW e \in Seq(Nat), NEW x \in Nat,
           \A a \in DOMAIN e : e[a] # x, InOrder(h, e)
    PROVE  InOrder(Append(h, x), Append(e, x))
  <1> DEFINE hh == Append(h, x)
             ee == Append(e, x)
  <1>1. /\ Len(h) \in Nat /\ DOMAIN h = 1..Len(h) /\ DOMAIN hh = 1..(Len(h) + 1)
        /\ \A i \in 1..Len(h) : hh[i] = h[i]
        /\ hh[Len(h) + 1] = x
    BY AppendProperties, LenProperties
  <1>2. /\ Len(e) \in Nat /\ DOMAIN e = 1..Len(e) /\ DOMAIN ee = 1..(Len(e) + 1)
        /\ \A a \in 1..Len(e) : ee[a] = e[a]
        /\ ee[Len(e) + 1] = x
    BY AppendProperties, LenProperties
  <1> HIDE DEF hh, ee
  <1>3. ASSUME NEW i \in DOMAIN hh PROVE \E a \in DOMAIN ee : ee[a] = hh[i]
    <2>1. CASE i = Len(h) + 1
      <3>1. Len(e) + 1 \in DOMAIN ee
        BY <1>2
      <3> QED
        BY <1>1, <1>2, <2>1, <3>1
    <2>2. CASE i \in 1..Len(h)
      <3>1. PICK a \in DOMAIN e : e[a] = h[i]
        BY <1>1, <2>2 DEF InOrder
      <3>2. a \in DOMAIN ee
        BY <1>2
      <3> QED
        BY <1>1, <1>2, <2>2, <3>1, <3>2
    <2> QED
      BY <1>1, <2>1, <2>2
  <1>4. ASSUME NEW i \in DOMAIN hh, NEW k \in DOMAIN hh, NEW a \in DOMAIN ee, NEW b \in DOMAIN ee,
               i < k, ee[a] = hh[i], ee[b] = hh[k]
        PROVE  a < b
    <2>1. i \in 1..Len(h) /\ hh[i] = h[i]
      BY <1>1, <1>4
    <2>2. PICK c \in DOMAIN e : e[c] = h[i]
      BY <1>1, <2>1 DEF InOrder
    <2>3. a \in 1..Len(e) /\ ee[a] = e[a]
      <3>1. ee[a] # x
        BY <1>4, <2>1, <2>2
      <3>2. a # Len(e) + 1
        BY <1>2, <3>1
      <3> QED
        BY <1>2, <3>2
    <2>4. CASE b = Len(e) + 1
      BY <1>2, <2>3, <2>4
    <2>5. CASE b \in 1..Len(e)
      <3>1. ee[b] = e[b] /\ e[b] # x
        BY <1>2, <2>5
      <3>2. k \in 1..Len(h) /\ hh[k] = h[k]
        <4>1. hh[k] # x
          BY <1>4, <3>1
        <4>2. k # Len(h) + 1
          BY <1>1, <4>1
        <4> QED
          BY <1>1, <4>2
      <3> QED
        <4>1. i \in DOMAIN h /\ k \in DOMAIN h /\ a \in DOMAIN e /\ b \in DOMAIN e
          BY <1>1, <1>2, <2>1, <2>3, <2>5, <3>2
        <4>2. e[a] = h[i] /\ e[b] = h[k]
          BY <1>4, <2>1, <2>3, <3>1, <3>2
        <4> QED
          BY <1>4, <4>1, <4>2 DEF InOrder
    <2> QED
      BY <1>2, <2>4, <2>5
  <1>5. InOrder(hh, ee)
    BY <1>3, <1>4 DEF InOrder
  <1> QED
    BY <1>5 DEF hh, ee

\* What is lost from the middle leaves the rest in order.
LEMMA InOrderDrop ==
    ASSUME NEW p \in Seq(Nat), NEW d \in Seq(Nat), NEW q \in Seq(Nat), NEW e,
           InOrder(p \o (d \o q), e)
    PROVE  InOrder(p \o q, e)
  <1> DEFINE h == p \o (d \o q)
             r == p \o q
             n == Len(p)
             m == Len(d)
             at(i) == IF i <= n THEN i ELSE i + m
  <1>1. /\ n \in Nat /\ m \in Nat /\ Len(q) \in Nat /\ d \o q \in Seq(Nat) /\ Len(d \o q) = m + Len(q)
        /\ \A i \in 1..(m + Len(q)) : (d \o q)[i] = IF i <= m THEN d[i] ELSE q[i - m]
    BY LenProperties, ConcatProperties
  <1>2. /\ DOMAIN h = 1..(n + (m + Len(q)))
        /\ \A i \in 1..(n + (m + Len(q))) : h[i] = IF i <= n THEN p[i] ELSE (d \o q)[i - n]
    <2>1. h \in Seq(Nat) /\ Len(h) = n + Len(d \o q)
          /\ \A i \in 1..(n + Len(d \o q)) : h[i] = IF i <= n THEN p[i] ELSE (d \o q)[i - n]
      BY <1>1, ConcatProperties
    <2> QED
      BY <1>1, <2>1, LenProperties
  <1>3. /\ DOMAIN r = 1..(n + Len(q))
        /\ \A i \in 1..(n + Len(q)) : r[i] = IF i <= n THEN p[i] ELSE q[i - n]
    <2>1. r \in Seq(Nat) /\ Len(r) = n + Len(q)
          /\ \A i \in 1..(n + Len(q)) : r[i] = IF i <= n THEN p[i] ELSE q[i - n]
      BY ConcatProperties
    <2> QED
      BY <2>1, LenProperties
  <1> DEFINE l == Len(q)
             dq == d \o q
  <1>l. /\ n \in Nat /\ m \in Nat /\ l \in Nat
        /\ DOMAIN r = 1..(n + l) /\ DOMAIN h = 1..(n + (m + l))
    BY <1>1, <1>2, <1>3
  <1>q. \A i \in 1..(m + l) : dq[i] = IF i <= m THEN d[i] ELSE q[i - m]
    BY <1>1
  <1>h. \A i \in 1..(n + (m + l)) : h[i] = IF i <= n THEN p[i] ELSE dq[i - n]
    BY <1>2
  <1>r. \A i \in 1..(n + l) : r[i] = IF i <= n THEN p[i] ELSE q[i - n]
    BY <1>3
  <1> HIDE DEF h, r, n, m, l, dq
  <1>4. ASSUME NEW i \in DOMAIN r PROVE at(i) \in DOMAIN h /\ r[i] = h[at(i)]
    <2>0. i \in 1..(n + l)
      BY <1>l
    <2>1. CASE i <= n
      <3>1. i \in 1..(n + (m + l)) /\ at(i) = i
        BY <1>l, <2>0, <2>1
      <3> QED
        BY <1>l, <1>h, <1>r, <2>0, <2>1, <3>1
    <2>2. CASE ~(i <= n)
      <3>1. /\ i + m \in 1..(n + (m + l)) /\ ~(i + m <= n)
            /\ i + m - n \in 1..(m + l) /\ ~(i + m - n <= m) /\ (i + m - n) - m = i - n
        BY <1>l, <2>0, <2>2
      <3>2. h[i + m] = dq[i + m - n]
        <4>1. \A j \in 1..(n + (m + l)) : ~(j <= n) => h[j] = dq[j - n]
          BY <1>h
        <4>2. h[i + m] = dq[(i + m) - n]
          BY <3>1, <4>1
        <4>3. (i + m) - n = i + m - n
          BY <1>l, <2>0
        <4> QED
          BY <4>2, <4>3
      <3>3. dq[i + m - n] = q[i - n]
        <4>1. \A j \in 1..(m + l) : ~(j <= m) => dq[j] = q[j - m]
          BY <1>q
        <4>2. dq[i + m - n] = q[(i + m - n) - m]
          BY <3>1, <4>1
        <4> QED
          BY <3>1, <4>2
      <3>4. r[i] = q[i - n]
        BY <1>r, <2>0, <2>2
      <3> QED
        BY <1>l, <2>2, <3>1, <3>2, <3>3, <3>4
    <2> QED
      BY <2>1, <2>2
  <1>5. \A i, k \in DOMAIN r : i < k => at(i) < at(k)
    BY <1>l
  <1>6. InOrder(h, e)
    BY DEF h
  <1> HIDE DEF at
  <1>7. InOrder(r, e)
    BY <1>4, <1>5, <1>6 DEF InOrder
  <1> QED
    BY <1>7 DEF r

\* The sequences the results are looked for in.
LEMMA HeldTyped ==
    ASSUME HostInv
    PROVE  /\ WithId(Reply) /\ WithId(Answer)
           /\ toHost \in Seq(Reply) /\ returned \in Seq(Answer) /\ pending \in Seq(Nat)
           /\ Collected \in Seq(Nat) /\ InFlight \in Seq(Nat)
           /\ Collected \o pending \in Seq(Nat) /\ Held \in Seq(Nat)
  <1>1. WithId(Reply) /\ WithId(Answer)
    BY DEF WithId, Reply, Answer
  <1>2. toHost \in Seq(Reply) /\ returned \in Seq(Answer) /\ pending \in Seq(Nat)
    BY DEF HostInv, TypeInv
  <1>3. Collected \in Seq(Nat)
    BY <1>1, <1>2, IdsTyped DEF Collected
  <1>4. InFlight \in Seq(Nat)
    BY <1>1, <1>2, IdsTyped DEF InFlight
  <1>5. Collected \o pending \in Seq(Nat)
    BY <1>2, <1>3, ConcatProperties
  <1>6. Held \in Seq(Nat)
    BY <1>4, <1>5, ConcatProperties DEF Held
  <1> QED
    BY <1>1, <1>2, <1>3, <1>4, <1>5, <1>6

\* A reply that is no result changes nothing; a result is held from then on.
LEMMA ReplySent ==
    ASSUME HostInv, NEW g \in Reply, toHost' = Append(toHost, g), UNCHANGED <<pending, returned>>
    PROVE  /\ Held' = IF g.kind = "result" THEN Append(Held, g.id) ELSE Held
           /\ g.kind # "cut" /\ NoneIn(toHost, {"cut"}) => NoneIn(toHost', {"cut"})
  <1>1. toHost \in Seq(Reply) /\ g.id \in Nat /\ (g \in ResultFrame <=> g.kind = "result")
    BY DEF HostInv, TypeInv, Reply, ResultFrame
  <1>2. InFlight' = IF g.kind = "result" THEN Append(InFlight, g.id) ELSE InFlight
    <2>1. Ids(Append(toHost, g), ResultFrame)
            = IF g \in ResultFrame THEN Append(Ids(toHost, ResultFrame), g.id) ELSE Ids(toHost, ResultFrame)
      BY <1>1, HeldTyped, IdsAppend
    <2> QED
      BY <1>1, <2>1 DEF InFlight
  <1>3. Collected' = Collected
    BY DEF Collected
  <1>4. (Collected \o pending) \o Append(InFlight, g.id) = Append((Collected \o pending) \o InFlight, g.id)
    <2>1. Collected \o pending \in Seq(Nat) /\ InFlight \in Seq(Nat)
      BY HeldTyped
    <2> QED
      BY <1>1, <2>1, AppendBehind
  <1>5. Held' = IF g.kind = "result" THEN Append(Held, g.id) ELSE Held
    <2>1. CASE g.kind = "result"
      BY <1>2, <1>3, <1>4, <2>1 DEF Held
    <2>2. CASE g.kind # "result"
      BY <1>2, <1>3, <2>2 DEF Held
    <2> QED
      BY <2>1, <2>2
  <1>6. g.kind # "cut" /\ NoneIn(toHost, {"cut"}) => NoneIn(toHost', {"cut"})
    BY <1>1, FrameSent
  <1> QED
    BY <1>5, <1>6

\* A result that the receiver writes is new, and so the last in its order.
LEMMA ResultWritten ==
    ASSUME HostInv, ResultInv, NEW x \in Nat, \A a \in DOMAIN emitted : emitted[a] # x,
           toHost' = Append(toHost, [kind |-> "result", id |-> x]),
           emitted' = Append(emitted, x),
           UNCHANGED <<pending, returned, setting, waiting, current>>
    PROVE  ReadInv' /\ ResultsKept' /\ InOrder(Held', emitted')
  <1> DEFINE g == [kind |-> "result", id |-> x]
  <1>1. g \in Reply /\ g.kind = "result" /\ g.id = x
    BY DEF Reply
  <1> HIDE DEF g
  <1>2. toHost' = Append(toHost, g)
    BY DEF g
  <1>3. Held' = Append(Held, x) /\ (NoneIn(toHost, {"cut"}) => NoneIn(toHost', {"cut"}))
    BY <1>1, <1>2, ReplySent
  <1>4. InOrder(Append(Held, x), Append(emitted, x))
    BY HeldTyped, InOrderAppend DEF ResultInv, FreshInv
  <1>5. ReadInv'
    BY <1>3 DEF ResultInv, ReadInv
  <1>6. ResultsKept'
    <2>1. ResultsKept <=> ("discover" \notin setting.calls /\ ~setting.cuts => emitted = Held)
      BY DEF ResultsKept, Held
    <2>2. ResultsKept' <=> ("discover" \notin setting.calls /\ ~setting.cuts => emitted' = Held')
      BY DEF ResultsKept, Held
    <2> QED
      BY <1>3, <2>1, <2>2 DEF ResultInv
  <1> QED
    BY <1>3, <1>4, <1>5, <1>6

\* What is neither written nor dropped stays in order and is kept.
LEMMA HeldKept ==
    ASSUME ResultInv, Held' = Held, UNCHANGED <<emitted, setting>>
    PROVE  ResultsKept' /\ InOrder(Held', emitted')
  <1>1. ResultsKept <=> ("discover" \notin setting.calls /\ ~setting.cuts => emitted = Held)
    BY DEF ResultsKept, Held
  <1>2. ResultsKept' <=> ("discover" \notin setting.calls /\ ~setting.cuts => emitted' = Held')
    BY DEF ResultsKept, Held
  <1> QED
    BY <1>1, <1>2 DEF ResultInv

\* The ids stay fresh while a request goes through the receiver.
LEMMA HandledFresh ==
    ASSUME HostInv, FreshInv, toDev # <<>>, toDev' = Tail(toDev), calls' = calls,
           \/ UNCHANGED <<modules, emitted>>
           \/ Asks(Head(toDev)) /\ modules' = Append(modules, Head(toDev).id) /\ emitted' = emitted
           \/ Asks(Head(toDev)) /\ emitted' = Append(emitted, Head(toDev).id) /\ modules' = modules
    PROVE  FreshInv' /\ (Asks(Head(toDev)) => \A a \in DOMAIN emitted : emitted[a] # Head(toDev).id)
  <1> DEFINE f == Head(toDev)
             n == Len(toDev)
  <1>1. /\ toDev \in Seq(Request) /\ modules \in Seq(Nat) /\ emitted \in Seq(Nat) /\ calls \in Nat
    BY DEF HostInv, TypeInv, FreshInv
  <1>2. /\ n \in Nat \ {0} /\ DOMAIN toDev = 1..n /\ DOMAIN toDev' = 1..(n - 1)
        /\ \A i \in 1..(n - 1) : toDev'[i] = toDev[i + 1] /\ i + 1 \in 1..n /\ i + 1 # 1
        /\ 1 \in 1..n /\ f = toDev[1]
    BY <1>1, HeadTailProperties, LenProperties, EmptySeq
  <1>3. f \in Request /\ f.id \in Nat
    <2>1. f \in Request
      BY <1>1, HeadTailProperties
    <2> QED
      BY <2>1 DEF Request
  <1> HIDE DEF f, n
  <1>4. Asks(f) => /\ f.id \in 1..calls
                   /\ \A a \in DOMAIN emitted : emitted[a] # f.id
                   /\ \A a \in DOMAIN modules : modules[a] # f.id
                   /\ \A i \in DOMAIN toDev' : Asks(toDev'[i]) => toDev'[i].id # f.id
    BY <1>2 DEF FreshInv
  <1>5. /\ \A i \in DOMAIN toDev' : Asks(toDev'[i]) => toDev'[i].id \in 1..calls
        /\ \A i, j \in DOMAIN toDev' :
              Asks(toDev'[i]) /\ Asks(toDev'[j]) /\ toDev'[i].id = toDev'[j].id => i = j
        /\ \A i \in DOMAIN toDev' : Asks(toDev'[i]) =>
              /\ \A j \in DOMAIN modules : modules[j] # toDev'[i].id
              /\ \A j \in DOMAIN emitted : emitted[j] # toDev'[i].id
    <2>1. \A i, j \in 1..(n - 1) : i + 1 = j + 1 => i = j
      BY <1>2
    <2>2. \A i \in DOMAIN toDev' : \E k \in DOMAIN toDev : toDev'[i] = toDev[k]
      BY <1>2
    <2>3. /\ \A i \in DOMAIN toDev' : Asks(toDev'[i]) => toDev'[i].id \in 1..calls
          /\ \A i \in DOMAIN toDev' : Asks(toDev'[i]) =>
                /\ \A j \in DOMAIN modules : modules[j] # toDev'[i].id
                /\ \A j \in DOMAIN emitted : emitted[j] # toDev'[i].id
      BY <2>2 DEF FreshInv
    <2>4. ASSUME NEW i \in DOMAIN toDev', NEW j \in DOMAIN toDev',
                 Asks(toDev'[i]), Asks(toDev'[j]), toDev'[i].id = toDev'[j].id
          PROVE  i = j
      <3>1. /\ i + 1 \in DOMAIN toDev /\ j + 1 \in DOMAIN toDev
            /\ toDev'[i] = toDev[i + 1] /\ toDev'[j] = toDev[j + 1]
        BY <1>2
      <3>2. i + 1 = j + 1
        BY <2>4, <3>1 DEF FreshInv
      <3> QED
        BY <1>2, <2>1, <3>2
    <2> QED
      BY <2>3, <2>4
  <1>6. CASE UNCHANGED <<modules, emitted>>
    BY <1>4, <1>5, <1>6 DEF FreshInv, f
  <1>7. CASE Asks(f) /\ modules' = Append(modules, f.id) /\ emitted' = emitted
    <2>1. /\ Len(modules) \in Nat /\ DOMAIN modules = 1..Len(modules) /\ DOMAIN modules' = 1..(Len(modules) + 1)
          /\ \A i \in 1..Len(modules) : modules'[i] = modules[i]
          /\ modules'[Len(modules) + 1] = f.id
      BY <1>1, <1>3, <1>7, AppendProperties, LenProperties
    <2>2. \A i \in DOMAIN modules' : (i \in DOMAIN modules /\ modules'[i] = modules[i])
                                     \/ (i = Len(modules) + 1 /\ modules'[i] = f.id)
      BY <2>1
    <2> QED
      BY <1>4, <1>5, <1>7, <2>2 DEF FreshInv, f
  <1>8. CASE Asks(f) /\ emitted' = Append(emitted, f.id) /\ modules' = modules
    <2>1. /\ Len(emitted) \in Nat /\ DOMAIN emitted = 1..Len(emitted) /\ DOMAIN emitted' = 1..(Len(emitted) + 1)
          /\ \A i \in 1..Len(emitted) : emitted'[i] = emitted[i]
          /\ emitted'[Len(emitted) + 1] = f.id /\ emitted' \in Seq(Nat)
      BY <1>1, <1>3, <1>8, AppendProperties, LenProperties
    <2>2. \A i \in DOMAIN emitted' : (i \in DOMAIN emitted /\ emitted'[i] = emitted[i]) \/ emitted'[i] = f.id
      BY <2>1
    <2>3. /\ \A i \in DOMAIN emitted' : emitted'[i] \in 1..calls
          /\ \A i \in DOMAIN toDev' : Asks(toDev'[i]) =>
                \A j \in DOMAIN emitted' : emitted'[j] # toDev'[i].id
          /\ \A i \in DOMAIN modules, j \in DOMAIN emitted' : modules[i] # emitted'[j]
      BY <1>4, <1>5, <1>8, <2>2 DEF FreshInv
    <2>4. /\ emitted' \in Seq(Nat) /\ modules' = modules
          /\ \A a \in DOMAIN emitted : emitted[a] # f.id
      BY <1>4, <1>8, <2>1
    <2>5. FreshInv'
      BY <1>5, <2>3, <2>4 DEF FreshInv
    <2> QED
      BY <2>4, <2>5 DEF f
  <1> QED
    BY <1>6, <1>7, <1>8 DEF f

\* The oldest module's id is one no result has had.
LEMMA AnsweredFresh ==
    ASSUME HostInv, FreshInv, modules # <<>>, modules' = Tail(modules),
           emitted' = Append(emitted, Head(modules)), UNCHANGED <<toDev, calls>>
    PROVE  /\ FreshInv' /\ Head(modules) \in Nat
           /\ \A a \in DOMAIN emitted : emitted[a] # Head(modules)
  <1> DEFINE x == Head(modules)
             n == Len(modules)
  <1>1. modules \in Seq(Nat) /\ emitted \in Seq(Nat)
    BY DEF HostInv, TypeInv, FreshInv
  <1>2. /\ n \in Nat \ {0} /\ DOMAIN modules = 1..n /\ DOMAIN modules' = 1..(n - 1)
        /\ \A i \in 1..(n - 1) : modules'[i] = modules[i + 1] /\ i + 1 \in 1..n /\ i + 1 # 1
        /\ 1 \in 1..n /\ x = modules[1] /\ x \in Nat
    BY <1>1, HeadTailProperties, LenProperties, EmptySeq
  <1>3. \A i, j \in 1..(n - 1) : i + 1 = j + 1 => i = j
    BY <1>2
  <1> HIDE DEF x, n
  <1>e. emitted' = Append(emitted, x)
    BY DEF x
  <1>4. /\ Len(emitted) \in Nat /\ DOMAIN emitted = 1..Len(emitted) /\ DOMAIN emitted' = 1..(Len(emitted) + 1)
        /\ \A i \in 1..Len(emitted) : emitted'[i] = emitted[i]
        /\ emitted'[Len(emitted) + 1] = x /\ emitted' \in Seq(Nat)
    BY <1>1, <1>2, <1>e, AppendProperties, LenProperties
  <1>5. \A i \in DOMAIN emitted' : (i \in DOMAIN emitted /\ emitted'[i] = emitted[i]) \/ emitted'[i] = x
    BY <1>4
  <1>6. /\ x \in 1..calls /\ \A a \in DOMAIN emitted : emitted[a] # x
        /\ \A i \in DOMAIN modules' : modules'[i] # x
        /\ \A i \in DOMAIN toDev : Asks(toDev[i]) => toDev[i].id # x
    <2>1. 1 \in DOMAIN modules /\ modules[1] = x
      BY <1>2
    <2>2. x \in 1..calls /\ \A a \in DOMAIN emitted : emitted[a] # x
      BY <2>1 DEF FreshInv
    <2>3. \A i \in DOMAIN toDev : Asks(toDev[i]) => toDev[i].id # x
      BY <2>1 DEF FreshInv
    <2>4. ASSUME NEW i \in DOMAIN modules' PROVE modules'[i] # x
      <3>1. i + 1 \in DOMAIN modules /\ i + 1 # 1 /\ modules'[i] = modules[i + 1]
        BY <1>2
      <3> QED
        BY <2>1, <3>1 DEF FreshInv
    <2> QED
      BY <2>2, <2>3, <2>4
  <1>m. \A i \in DOMAIN modules' : \E k \in DOMAIN modules : modules'[i] = modules[k]
    BY <1>2
  <1>7. /\ \A i \in DOMAIN modules' : modules'[i] \in 1..calls
        /\ \A i \in DOMAIN modules', j \in DOMAIN emitted : modules'[i] # emitted[j]
        /\ \A i \in DOMAIN toDev : Asks(toDev[i]) => \A j \in DOMAIN modules' : modules'[j] # toDev[i].id
    BY <1>m DEF FreshInv
  <1>8. \A i, j \in DOMAIN modules' : modules'[i] = modules'[j] => i = j
    BY <1>2, <1>3 DEF FreshInv
  <1>9. \A i \in DOMAIN emitted' : emitted'[i] \in 1..calls
    BY <1>5, <1>6 DEF FreshInv
  <1>10. \A i \in DOMAIN toDev : Asks(toDev[i]) => \A j \in DOMAIN emitted' : emitted'[j] # toDev[i].id
    BY <1>5, <1>6 DEF FreshInv
  <1>11. \A i \in DOMAIN modules', j \in DOMAIN emitted' : modules'[i] # emitted'[j]
    BY <1>5, <1>6, <1>7
  <1>12. FreshInv'
    BY <1>4, <1>7, <1>8, <1>9, <1>10, <1>11 DEF FreshInv
  <1> QED
    BY <1>2, <1>6, <1>12 DEF x

\* A request has the number of its call, which no earlier one has; only a
\* discovery is sent again.
LEMMA SentFresh ==
    ASSUME HostInv, FreshInv, NEW g \in Request, toDev' = Append(toDev, g),
           calls' = calls \/ calls' = calls + 1,
           Asks(g) => g.id = calls + 1 /\ calls' = calls + 1,
           UNCHANGED <<modules, emitted>>
    PROVE  FreshInv'
  <1>1. toDev \in Seq(Request) /\ calls \in Nat
    BY DEF HostInv, TypeInv
  <1>2. /\ Len(toDev) \in Nat /\ DOMAIN toDev = 1..Len(toDev) /\ DOMAIN toDev' = 1..(Len(toDev) + 1)
        /\ \A i \in 1..Len(toDev) : toDev'[i] = toDev[i]
        /\ toDev'[Len(toDev) + 1] = g
    BY <1>1, AppendProperties, LenProperties
  <1>3. \A i \in DOMAIN toDev' : (i \in DOMAIN toDev /\ toDev'[i] = toDev[i])
                                 \/ (i = Len(toDev) + 1 /\ toDev'[i] = g)
    BY <1>2
  <1>4. \A i \in 1..calls : i \in 1..calls' /\ i # calls + 1
    BY <1>1
  <1>5. Asks(g) => g.id \in 1..calls' /\ g.id \notin 1..calls
    BY <1>1
  <1>6. /\ \A i \in DOMAIN toDev' : Asks(toDev'[i]) => toDev'[i].id \in 1..calls'
        /\ \A i \in DOMAIN modules : modules[i] \in 1..calls'
        /\ \A i \in DOMAIN emitted : emitted[i] \in 1..calls'
    BY <1>3, <1>4, <1>5 DEF FreshInv
  <1>7. \A i, j \in DOMAIN toDev' :
           Asks(toDev'[i]) /\ Asks(toDev'[j]) /\ toDev'[i].id = toDev'[j].id => i = j
    BY <1>3, <1>5 DEF FreshInv
  <1>8. \A i \in DOMAIN toDev' : Asks(toDev'[i]) =>
           /\ \A j \in DOMAIN modules : modules[j] # toDev'[i].id
           /\ \A j \in DOMAIN emitted : emitted[j] # toDev'[i].id
    BY <1>3, <1>5 DEF FreshInv
  <1> QED
    BY <1>6, <1>7, <1>8 DEF FreshInv

\* The receiver's steps keep what is held.
LEMMA DeviceHandleResults ==
    ASSUME HostInv, ResultInv, DeviceHandle
    PROVE  ResultInv'
  <1>t. /\ setting' = setting /\ waiting' = waiting /\ current' = current /\ pending' = pending
        /\ calls' = calls /\ returned' = returned /\ toDev # <<>> /\ toDev' = Tail(toDev)
        /\ toDev \in Seq(Request) /\ FreshInv
    BY DEF DeviceHandle, hostVars, HostInv, TypeInv, ResultInv
  <1> DEFINE f == Head(toDev)
  <1>f. f \in Request /\ f.id \in Nat
    <2>1. f \in Request
      BY <1>t, HeadTailProperties
    <2> QED
      BY <2>1 DEF Request
  <1>1. CASE /\ f.kind \in {"discovery", "status"}
             /\ toHost' = Append(toHost, f) /\ UNCHANGED devVars
    <2>1. f \in Reply /\ f.kind # "result" /\ f.kind # "cut" /\ UNCHANGED <<modules, emitted>>
      BY <1>1, <1>f DEF Request, Reply, devVars
    <2>2. Held' = Held /\ (NoneIn(toHost, {"cut"}) => NoneIn(toHost', {"cut"}))
      BY <1>1, <1>t, <2>1, ReplySent
    <2>3. FreshInv'
      BY <1>t, <2>1, HandledFresh
    <2>4. ReadInv'
      BY <1>t, <2>2 DEF ResultInv, ReadInv
    <2>5. ResultsKept' /\ InOrder(Held', emitted')
      BY <1>t, <2>1, <2>2, HeldKept
    <2> QED
      BY <2>3, <2>4, <2>5 DEF ResultInv
  <1>2. CASE toHost' = toHost /\ UNCHANGED devVars
    <2>1. Held' = Held
      BY <1>2, <1>t DEF Held, Collected, InFlight
    <2>2. FreshInv'
      BY <1>2, <1>t, HandledFresh DEF devVars
    <2>3. ReadInv'
      BY <1>2, <1>t DEF ResultInv, ReadInv
    <2>4. ResultsKept' /\ InOrder(Held', emitted')
      BY <1>2, <1>t, <2>1, HeldKept DEF devVars
    <2> QED
      BY <2>2, <2>3, <2>4 DEF ResultInv
  <1>3. CASE /\ f.kind \in {"status", "set_param", "swap", "module"}
             /\ toHost' = Append(toHost, [kind |-> "result", id |-> f.id])
             /\ emitted' = Append(emitted, f.id)
             /\ UNCHANGED modules
    <2>1. Asks(f)
      BY <1>3 DEF Asks
    <2>2. FreshInv' /\ \A a \in DOMAIN emitted : emitted[a] # f.id
      BY <1>3, <1>t, <2>1, HandledFresh
    <2>3. ReadInv' /\ ResultsKept' /\ InOrder(Held', emitted')
      BY <1>3, <1>t, <1>f, <2>2, ResultWritten
    <2> QED
      BY <2>2, <2>3 DEF ResultInv
  <1>4. CASE /\ f.kind \in {"swap", "module"}
             /\ modules' = Append(modules, f.id) /\ UNCHANGED <<toHost, emitted>>
    <2>1. Asks(f)
      BY <1>4 DEF Asks
    <2>2. FreshInv'
      BY <1>4, <1>t, <2>1, HandledFresh
    <2>3. Held' = Held
      BY <1>4, <1>t DEF Held, Collected, InFlight
    <2>4. ReadInv'
      BY <1>4, <1>t DEF ResultInv, ReadInv
    <2>5. ResultsKept' /\ InOrder(Held', emitted')
      BY <1>4, <1>t, <2>3, HeldKept
    <2> QED
      BY <2>2, <2>4, <2>5 DEF ResultInv
  <1> QED
    BY <1>1, <1>2, <1>3, <1>4 DEF DeviceHandle, devVars

\* A module's result is written.
LEMMA DeviceResultResults ==
    ASSUME HostInv, ResultInv, DeviceResult
    PROVE  ResultInv'
  <1>1. /\ setting' = setting /\ waiting' = waiting /\ current' = current /\ pending' = pending
        /\ calls' = calls /\ returned' = returned /\ toDev' = toDev
        /\ modules # <<>> /\ modules' = Tail(modules) /\ emitted' = Append(emitted, Head(modules))
        /\ toHost' = Append(toHost, [kind |-> "result", id |-> Head(modules)]) /\ FreshInv
    BY DEF DeviceResult, hostVars, ResultInv
  <1>2. /\ FreshInv' /\ Head(modules) \in Nat
        /\ \A a \in DOMAIN emitted : emitted[a] # Head(modules)
    BY <1>1, AnsweredFresh
  <1>3. ReadInv' /\ ResultsKept' /\ InOrder(Held', emitted')
    BY <1>1, <1>2, ResultWritten
  <1> QED
    BY <1>2, <1>3 DEF ResultInv

\* A call adds a request with its own number, or none.
LEMMA CallResults ==
    ASSUME HostInv, ResultInv, CallNext
    PROVE  ResultInv'
  <1>1. /\ waiting = "none" /\ calls' = calls + 1
        /\ UNCHANGED <<toHost, setting, modules, emitted, pending, returned>>
    BY DEF CallNext, SyncLoad, PushAsync, WaitResult, StatusCall, SetParam, Discover, Begin, devVars
  <1>2. ReadInv'
    <2>1. current.method \notin Waits
      BY <1>1 DEF ResultInv, ReadInv
    <2>2. CASE UNCHANGED <<waiting, current>>
      BY <1>1, <2>2 DEF ResultInv, ReadInv
    <2>3. ASSUME NEW m \in Waits, Await("result", m) PROVE ReadInv'
      BY <1>1, <2>3 DEF ResultInv, ReadInv, Await
    <2>4. ASSUME NEW m \in StatusCalls, Await("status", m) PROVE ReadInv'
      BY <1>1, <2>4 DEF ResultInv, ReadInv, Await, Waits, StatusCalls, SyncLoads
    <2>5. CASE "discover" \in setting.calls /\ Await("discovery", "discover")
      BY <1>1, <2>5 DEF ResultInv, ReadInv, Await, Waits, SyncLoads
    <2> QED
      BY <2>2, <2>3, <2>4, <2>5 DEF CallNext, SyncLoad, PushAsync, WaitResult, StatusCall, SetParam,
         Discover, Begin, Waits, StatusCalls
  <1>3. FreshInv'
    <2>1. CASE toDev' = toDev
      <3>1. \A i \in 1..calls : i \in 1..calls'
        BY <1>1 DEF HostInv, TypeInv
      <3> QED
        BY <1>1, <2>1, <3>1 DEF ResultInv, FreshInv
    <2>2. ASSUME NEW k \in {"module", "swap", "status", "set_param", "discovery"},
                 Send(k)
          PROVE  FreshInv'
      <3> DEFINE g == [kind |-> k, id |-> calls + 1]
      <3>1. g \in Request /\ g.id = calls + 1
        BY DEF HostInv, TypeInv, Request
      <3>2. toDev' = Append(toDev, g)
        BY <2>2 DEF Send
      <3> HIDE DEF g
      <3> QED
        BY <1>1, <3>1, <3>2, SentFresh DEF ResultInv
    <2>3. toDev' = toDev \/ \E k \in {"module", "swap", "status", "set_param", "discovery"} : Send(k)
      BY DEF CallNext, SyncLoad, PushAsync, WaitResult, StatusCall, SetParam, Discover
    <2> QED
      BY <2>1, <2>2, <2>3
  <1>4. Held' = Held
    BY <1>1 DEF Held, Collected, InFlight
  <1>5. ResultsKept' /\ InOrder(Held', emitted')
    BY <1>1, <1>4, HeldKept
  <1> QED
    BY <1>2, <1>3, <1>5 DEF ResultInv

\* The frame a read takes leaves the wire.
LEMMA FrameRead ==
    ASSUME HostInv, toHost # <<>>, toHost' = Tail(toHost)
    PROVE  /\ InFlight' \in Seq(Nat) /\ Head(toHost) \in Reply /\ Head(toHost).id \in Nat
           /\ InFlight = IF Head(toHost).kind = "result" THEN <<Head(toHost).id>> \o InFlight' ELSE InFlight'
           /\ NoneIn(toHost, {"cut"}) => NoneIn(toHost', {"cut"})
  <1>1. toHost \in Seq(Reply) /\ WithId(Reply)
    BY HeldTyped
  <1>2. Head(toHost) \in Reply
    BY <1>1, HeadTailProperties
  <1>3. Head(toHost).id \in Nat /\ (Head(toHost) \in ResultFrame <=> Head(toHost).kind = "result")
    BY <1>2 DEF Reply, ResultFrame
  <1>4. /\ Ids(Tail(toHost), ResultFrame) \in Seq(Nat)
        /\ Ids(toHost, ResultFrame) = IF Head(toHost) \in ResultFrame
                                      THEN <<Head(toHost).id>> \o Ids(Tail(toHost), ResultFrame)
                                      ELSE Ids(Tail(toHost), ResultFrame)
    BY <1>1, IdsTail
  <1>5. InFlight = Ids(toHost, ResultFrame) /\ InFlight' = Ids(Tail(toHost), ResultFrame)
    BY DEF InFlight
  <1>6. NoneIn(toHost, {"cut"}) => NoneIn(toHost', {"cut"})
    BY <1>1, FrameTaken
  <1> QED
    BY <1>2, <1>3, <1>4, <1>5, <1>6

\* A wait that returns collects a result; other calls return other replies.
LEMMA AnswerCollected ==
    ASSUME HostInv, NEW id \in Nat, returned' = Append(returned, [call |-> current, id |-> id])
    PROVE  Collected' = IF current.method \in Waits THEN Append(Collected, id) ELSE Collected
  <1> DEFINE r == [call |-> current, id |-> id]
  <1>1. current \in Called /\ current.id \in Nat /\ current = [id |-> current.id, method |-> current.method]
    BY DEF HostInv, TypeInv, Called
  <1>2. r \in Answer /\ r.id = id /\ (r \in ReturnedResult <=> current.method \in Waits)
    BY <1>1 DEF Answer, ReturnedResult
  <1> HIDE DEF r
  <1>3. returned \in Seq(Answer) /\ WithId(Answer)
    BY HeldTyped
  <1>4. returned' = Append(returned, r)
    BY DEF r
  <1>5. Ids(Append(returned, r), ReturnedResult)
          = IF r \in ReturnedResult THEN Append(Ids(returned, ReturnedResult), r.id) ELSE Ids(returned, ReturnedResult)
    BY <1>2, <1>3, IdsAppend
  <1> QED
    BY <1>2, <1>4, <1>5 DEF Collected

\* The ids stay fresh when the host only reads.
LEMMA ReadFresh ==
    ASSUME FreshInv, UNCHANGED <<toDev, modules, emitted, calls>>
    PROVE  FreshInv'
  BY DEF FreshInv

\* The oldest stashed result is collected.
LEMMA PendingResultResults ==
    ASSUME HostInv, ResultInv, PendingResult
    PROVE  ResultInv'
  <1>1. /\ waiting = "result" /\ pending # <<>> /\ pending' = Tail(pending)
        /\ UNCHANGED <<toDev, toHost, setting, modules, emitted, calls>>
        /\ returned' = Append(returned, [call |-> current, id |-> Head(pending)])
        /\ waiting' = "none" /\ current' = NoCall
    BY DEF PendingResult, Return, devVars
  <1>2. pending \in Seq(Nat) /\ Collected \in Seq(Nat) /\ InFlight \in Seq(Nat)
    BY HeldTyped
  <1>3. Head(pending) \in Nat /\ Tail(pending) \in Seq(Nat) /\ current.method \in Waits
    BY <1>1, <1>2, HeadTailProperties DEF ResultInv, ReadInv
  <1>4. Collected' = Append(Collected, Head(pending)) /\ InFlight' = InFlight
    BY <1>1, <1>3, AnswerCollected DEF InFlight
  <1>5. (Append(Collected, Head(pending)) \o Tail(pending)) \o InFlight = (Collected \o pending) \o InFlight
    BY <1>1, <1>2, UnstashMoves
  <1>6. Held' = Held
    BY <1>1, <1>4, <1>5 DEF Held
  <1>7. ReadInv'
    BY <1>1 DEF ResultInv, ReadInv, NoCall, Waits, SyncLoads
  <1>8. FreshInv'
    BY <1>1, ReadFresh DEF ResultInv
  <1>9. ResultsKept' /\ InOrder(Held', emitted')
    BY <1>1, <1>6, HeldKept
  <1> QED
    BY <1>7, <1>8, <1>9 DEF ResultInv

\* The result that is read is the next in order: it is collected, or joins the
\* stash behind the others.
LEMMA ReadRoutedResults ==
    ASSUME HostInv, ResultInv, ReadRouted
    PROVE  ResultInv'
  <1> DEFINE f == Head(toHost)
  <1>1. /\ waiting \in {"result", "status"} /\ (waiting = "result" => pending = <<>>)
        /\ toHost # <<>> /\ toHost' = Tail(toHost)
        /\ UNCHANGED <<toDev, setting, modules, emitted, calls>>
    BY DEF ReadRouted, Readable, devVars
  <1>2. pending \in Seq(Nat) /\ Collected \in Seq(Nat)
    BY HeldTyped
  <1>3. /\ InFlight' \in Seq(Nat) /\ f.id \in Nat
        /\ InFlight = IF f.kind = "result" THEN <<f.id>> \o InFlight' ELSE InFlight'
        /\ NoneIn(toHost, {"cut"}) => NoneIn(toHost', {"cut"})
    BY <1>1, FrameRead
  <1> HIDE DEF f
  <1>c. (Append(Collected, f.id) \o <<>>) \o InFlight' = (Collected \o <<>>) \o (<<f.id>> \o InFlight')
    BY <1>2, <1>3, CollectMoves
  <1>h. (Collected \o Append(pending, f.id)) \o InFlight' = (Collected \o pending) \o (<<f.id>> \o InFlight')
    <2>1. Collected \o pending \in Seq(Nat)
      BY HeldTyped
    <2>2. Collected \o Append(pending, f.id) = Append(Collected \o pending, f.id)
      BY <1>2, <1>3, AppendBehind
    <2>3. Append(Collected \o pending, f.id) \o InFlight' = (Collected \o pending) \o (<<f.id>> \o InFlight')
      BY <1>3, <2>1, AppendBefore
    <2> QED
      BY <2>2, <2>3, Zenon
  <1>4. CASE f.kind = waiting /\ Return(f.id) /\ UNCHANGED pending
    <2>1. /\ returned' = Append(returned, [call |-> current, id |-> f.id])
          /\ waiting' = "none" /\ current' = NoCall /\ pending' = pending
      BY <1>4 DEF Return
    <2>2. Collected' = IF current.method \in Waits THEN Append(Collected, f.id) ELSE Collected
      BY <1>3, <2>1, AnswerCollected
    <2>3. Held' = Held
      <3>1. CASE waiting = "result"
        <4>1. current.method \in Waits /\ f.kind = "result" /\ pending = <<>>
          BY <1>1, <1>4, <3>1 DEF ResultInv, ReadInv
        <4> QED
          BY <1>3, <1>c, <2>1, <2>2, <4>1 DEF Held
      <3>2. CASE waiting = "status"
        <4>1. current.method \notin Waits /\ f.kind # "result"
          BY <1>4, <3>2 DEF ResultInv, ReadInv
        <4> QED
          BY <1>3, <2>1, <2>2, <4>1 DEF Held
      <3> QED
        BY <1>1, <3>1, <3>2
    <2>4. ReadInv'
      BY <1>1, <1>3, <2>1 DEF ResultInv, ReadInv, NoCall, Waits, SyncLoads
    <2>5. FreshInv'
      BY <1>1, ReadFresh DEF ResultInv
    <2>6. ResultsKept' /\ InOrder(Held', emitted')
      BY <1>1, <2>3, HeldKept
    <2> QED
      BY <2>4, <2>5, <2>6 DEF ResultInv
  <1>5. CASE /\ f.kind # waiting
             /\ pending' = IF f.kind = "result" THEN Append(pending, f.id) ELSE pending
             /\ UNCHANGED <<waiting, current, returned>>
    <2>1. Collected' = Collected
      BY <1>5 DEF Collected
    <2>2. Held' = Held
      <3>1. CASE f.kind = "result"
        BY <1>3, <1>h, <1>5, <2>1, <3>1 DEF Held
      <3>2. CASE f.kind # "result"
        BY <1>3, <1>5, <2>1, <3>2 DEF Held
      <3> QED
        BY <3>1, <3>2
    <2>3. ReadInv'
      BY <1>1, <1>3, <1>5 DEF ResultInv, ReadInv
    <2>4. FreshInv'
      BY <1>1, ReadFresh DEF ResultInv
    <2>5. ResultsKept' /\ InOrder(Held', emitted')
      BY <1>1, <2>2, HeldKept
    <2> QED
      BY <2>3, <2>4, <2>5 DEF ResultInv
  <1> QED
    BY <1>4, <1>5 DEF ReadRouted, f

\* What is lost from the front of the wire leaves the rest in order.
LEMMA WireDrops ==
    ASSUME HostInv, ResultInv, NEW d \in Seq(Nat), InFlight' \in Seq(Nat), InFlight = d \o InFlight',
           Collected' = Collected, "discover" \in setting.calls \/ setting.cuts,
           UNCHANGED <<pending, emitted, setting>>
    PROVE  ResultsKept' /\ InOrder(Held', emitted')
  <1>1. Collected \o pending \in Seq(Nat)
    BY HeldTyped
  <1>2. InOrder((Collected \o pending) \o (d \o InFlight'), emitted)
    BY DEF ResultInv, Held
  <1>3. InOrder((Collected \o pending) \o InFlight', emitted)
    BY <1>1, <1>2, InOrderDrop
  <1>4. Held' = (Collected \o pending) \o InFlight'
    BY DEF Held
  <1> QED
    BY <1>3, <1>4 DEF ResultsKept

\* request_discovery's own bookkeeping: it collects no result, and asks again
\* with a frame that no result answers.
LEMMA DiscoveryResults ==
    ASSUME HostInv, ResultInv, UNCHANGED <<setting, modules, emitted, calls, pending>>,
           \/ waiting = "discovery" /\ RetryDiscovery
           \/ /\ waiting = "discovery" /\ Head(toHost).id \in Nat
              /\ Return(Head(toHost).id) /\ toDev' = toDev
           \/ waiting' = "none" /\ current' = NoCall /\ UNCHANGED <<toDev, returned>>
           \/ UNCHANGED <<toDev, waiting, current, returned>>
    PROVE  /\ Collected' = Collected /\ FreshInv'
           /\ (~setting.cuts => NoneIn(toHost', {"cut"})) => ReadInv'
  <1>1. waiting = "discovery" => current.method \notin Waits
    BY DEF ResultInv, ReadInv
  <1>2. current.id \in Nat /\ current \in Called
    BY DEF HostInv, TypeInv, Called
  <1>3. Collected' = Collected
    <2>1. CASE returned' = returned
      BY <2>1 DEF Collected
    <2>2. ASSUME NEW id \in Nat, waiting = "discovery", Return(id) PROVE Collected' = Collected
      <3>1. returned' = Append(returned, [call |-> current, id |-> id])
        BY <2>2 DEF Return
      <3> QED
        BY <1>1, <2>2, <3>1, AnswerCollected
    <2> QED
      BY <2>1, <2>2 DEF RetryDiscovery
  <1>4. FreshInv'
    <2>1. CASE toDev' = toDev
      BY <2>1, ReadFresh DEF ResultInv
    <2>2. CASE toDev' = Append(toDev, [kind |-> "discovery", id |-> current.id])
      <3> DEFINE g == [kind |-> "discovery", id |-> current.id]
      <3>1. g \in Request /\ ~Asks(g)
        BY <1>2 DEF Request, Asks
      <3>2. toDev' = Append(toDev, g)
        BY <2>2
      <3> HIDE DEF g
      <3> QED
        BY <3>1, <3>2, SentFresh DEF ResultInv
    <2> QED
      BY <2>1, <2>2 DEF RetryDiscovery
  <1>5. (waiting' = waiting /\ current' = current) \/ (waiting' = "none" /\ current' = NoCall)
    BY DEF RetryDiscovery, Return
  <1>6. (~setting.cuts => NoneIn(toHost', {"cut"})) => ReadInv'
    BY <1>5 DEF ResultInv, ReadInv, NoCall, Waits, SyncLoads
  <1> QED
    BY <1>3, <1>4, <1>6

\* discover() may discard a result, and leaves the others in order.
LEMMA ReadDiscoveryResults ==
    ASSUME HostInv, ResultInv, ReadDiscovery
    PROVE  ResultInv'
  <1>1. /\ waiting = "discovery" /\ toHost # <<>> /\ toHost' = Tail(toHost)
        /\ UNCHANGED <<setting, modules, emitted, calls, pending>>
    BY DEF ReadDiscovery, Readable, devVars
  <1>2. /\ InFlight' \in Seq(Nat) /\ Head(toHost).id \in Nat
        /\ InFlight = IF Head(toHost).kind = "result" THEN <<Head(toHost).id>> \o InFlight' ELSE InFlight'
        /\ NoneIn(toHost, {"cut"}) => NoneIn(toHost', {"cut"})
    BY <1>1, FrameRead
  <1>3. Collected' = Collected /\ FreshInv' /\ ReadInv'
    <2>1. ~setting.cuts => NoneIn(toHost', {"cut"})
      BY <1>2 DEF ResultInv, ReadInv
    <2>2. \/ RetryDiscovery
          \/ Return(Head(toHost).id) /\ toDev' = toDev
      BY DEF ReadDiscovery
    <2> QED
      BY <1>1, <1>2, <2>1, <2>2, DiscoveryResults
  <1>4. PICK d \in Seq(Nat) : InFlight = d \o InFlight'
    <2>1. <<Head(toHost).id>> \in Seq(Nat) /\ <<>> \in Seq(Nat)
      BY <1>2
    <2>2. <<>> \o InFlight' = InFlight'
      BY <1>2, ConcatEmptySeq
    <2> QED
      BY <1>2, <2>1, <2>2
  <1>5. "discover" \in setting.calls
    BY <1>1 DEF ResultInv, ReadInv
  <1>6. ResultsKept' /\ InOrder(Held', emitted')
    BY <1>1, <1>2, <1>3, <1>4, <1>5, WireDrops
  <1> QED
    BY <1>3, <1>6 DEF ResultInv

\* A timeout between frames loses nothing; one inside a frame, that frame; one
\* in the rest of a cut frame, whatever has arrived.
LEMMA TimeoutResults ==
    ASSUME HostInv, ResultInv, Timeout
    PROVE  ResultInv'
  <1>1. toHost' \in AfterTimeout /\ UNCHANGED <<setting, modules, emitted, calls, pending>>
    BY DEF Timeout, devVars
  <1>2. /\ Collected' = Collected /\ FreshInv'
        /\ (~setting.cuts => NoneIn(toHost', {"cut"})) => ReadInv'
    <2>1. \/ waiting = "discovery" /\ RetryDiscovery
          \/ waiting' = "none" /\ current' = NoCall /\ UNCHANGED <<toDev, returned>>
      BY DEF Timeout
    <2> QED
      BY <1>1, <2>1, DiscoveryResults
  <1>3. toHost \in Seq(Reply) /\ WithId(Reply) /\ InFlight \in Seq(Nat)
    BY HeldTyped
  <1>c. CutFrame \in Reply /\ CutFrame \notin ResultFrame /\ CutFrame.kind = "cut"
    BY DEF CutFrame, Reply, ResultFrame
  <1>4. CASE toHost' = toHost
    <2>1. ReadInv'
      BY <1>2, <1>4 DEF ResultInv, ReadInv
    <2>2. Held' = Held
      BY <1>1, <1>2, <1>4 DEF Held, InFlight
    <2>3. ResultsKept' /\ InOrder(Held', emitted')
      BY <1>1, <2>2, HeldKept
    <2> QED
      BY <1>2, <2>1, <2>3 DEF ResultInv
  <1>5. CASE toHost # <<>> /\ Head(toHost) = CutFrame /\ toHost' \in {<<>>, <<CutFrame>>}
    <2>1. setting.cuts
      <3>1. ~NoneIn(toHost, {"cut"})
        <4>1. 1 \in DOMAIN toHost /\ Head(toHost) = toHost[1]
          BY <1>3, <1>5, HeadTailProperties, LenProperties, EmptySeq
        <4> QED
          BY <1>5, <1>c, <4>1 DEF NoneIn
      <3> QED
        BY <3>1 DEF ResultInv, ReadInv
    <2>2. InFlight' = <<>>
      <3>1. <<>> \in Seq(Reply) /\ Append(<<>>, CutFrame) = <<CutFrame>>
        OBVIOUS
      <3>2. Ids(<<>>, ResultFrame) = <<>>
        BY <1>3, <3>1, IdsTyped
      <3>3. Ids(<<CutFrame>>, ResultFrame) = <<>>
        <4>1. Ids(Append(<<>>, CutFrame), ResultFrame) = Ids(<<>>, ResultFrame)
          BY <1>3, <1>c, <3>1, IdsAppend
        <4> QED
          BY <3>1, <3>2, <4>1
      <3> QED
        BY <1>5, <3>2, <3>3 DEF InFlight
    <2>3. InFlight' \in Seq(Nat) /\ InFlight = InFlight \o InFlight'
      BY <1>3, <2>2, ConcatEmptySeq
    <2>4. ResultsKept' /\ InOrder(Held', emitted')
      BY <1>1, <1>2, <1>3, <2>1, <2>3, WireDrops
    <2> QED
      BY <1>2, <2>1, <2>4 DEF ResultInv
  <1>6. CASE toHost # <<>> /\ setting.cuts /\ toHost' = <<CutFrame>> \o Tail(toHost)
    <2> DEFINE rest == Ids(Tail(toHost), ResultFrame)
               new == <<CutFrame>> \o Tail(toHost)
    <2>1. Tail(toHost) \in Seq(Reply) /\ Head(toHost).id \in Nat
      <3>1. Tail(toHost) \in Seq(Reply) /\ Head(toHost) \in Reply
        BY <1>3, <1>6, HeadTailProperties
      <3> QED
        BY <3>1 DEF Reply
    <2>2. /\ rest \in Seq(Nat)
          /\ InFlight = IF Head(toHost) \in ResultFrame THEN <<Head(toHost).id>> \o rest ELSE rest
      BY <1>3, <1>6, IdsTail DEF InFlight
    <2>3. new \in Seq(Reply) /\ new # <<>> /\ Head(new) = CutFrame /\ Tail(new) = Tail(toHost)
      BY <1>c, <2>1
    <2>4. InFlight' = rest
      <3> HIDE DEF new
      <3>1. Ids(new, ResultFrame) = Ids(Tail(new), ResultFrame)
        BY <1>3, <1>c, <2>3, IdsTail
      <3>2. toHost' = new
        BY <1>6 DEF new
      <3> QED
        BY <2>3, <3>1, <3>2 DEF InFlight
    <2> HIDE DEF rest, new
    <2>5. PICK d \in Seq(Nat) : InFlight = d \o rest
      <3>1. <<Head(toHost).id>> \in Seq(Nat) /\ <<>> \in Seq(Nat)
        BY <2>1
      <3>2. <<>> \o rest = rest
        BY <2>2, ConcatEmptySeq
      <3> QED
        BY <2>2, <3>1, <3>2
    <2>6. ResultsKept' /\ InOrder(Held', emitted')
      BY <1>1, <1>2, <1>6, <2>2, <2>4, <2>5, WireDrops
    <2> QED
      BY <1>2, <1>6, <2>6 DEF ResultInv
  <1> QED
    BY <1>1, <1>4, <1>5, <1>6 DEF AfterTimeout

\* The rest of a cut frame is no result.
LEMMA CutIsNoResult ==
    ASSUME NEW q \in Seq(Reply)
    PROVE  Ids(<<CutFrame>> \o q, ResultFrame) = Ids(q, ResultFrame)
  <1> DEFINE new == <<CutFrame>> \o q
  <1>1. CutFrame \in Reply /\ CutFrame \notin ResultFrame /\ WithId(Reply)
    BY DEF CutFrame, Reply, ResultFrame, WithId
  <1>2. new \in Seq(Reply) /\ new # <<>> /\ Head(new) = CutFrame /\ Tail(new) = q
    BY <1>1
  <1> HIDE DEF new
  <1>3. Ids(new, ResultFrame) = Ids(Tail(new), ResultFrame)
    BY <1>1, <1>2, IdsTail
  <1> QED
    BY <1>2, <1>3 DEF new

\* A read behind a cut frame loses the frame that it swallows.
LEMMA SkipBogusResults ==
    ASSUME HostInv, ResultInv, SkipBogus
    PROVE  ResultInv'
  <1> DEFINE tl == Tail(toHost)
             rest == Tail(tl)
             lost == IF Head(tl) \in ResultFrame THEN <<Head(tl).id>> ELSE <<>>
  <1>1. /\ toHost' \in {rest, <<CutFrame>> \o rest} /\ Len(toHost) > 1 /\ Head(toHost) = CutFrame
        /\ UNCHANGED <<setting, modules, emitted, calls, pending>>
    BY DEF SkipBogus, devVars
  <1>2. /\ Collected' = Collected /\ FreshInv'
        /\ (~setting.cuts => NoneIn(toHost', {"cut"})) => ReadInv'
    <2>1. \/ waiting = "discovery" /\ RetryDiscovery
          \/ UNCHANGED <<toDev, waiting, current, returned>>
      BY DEF SkipBogus
    <2> QED
      BY <1>1, <2>1, DiscoveryResults
  <1>3. toHost \in Seq(Reply) /\ WithId(Reply) /\ InFlight \in Seq(Nat)
    BY HeldTyped
  <1>4. toHost # <<>> /\ tl \in Seq(Reply) /\ tl # <<>>
    BY <1>1, <1>3, LongerThanOne
  <1>5. Head(tl) \in Reply /\ rest \in Seq(Reply)
    BY <1>4, HeadTailProperties
  <1>6. setting.cuts
    <2>1. ~NoneIn(toHost, {"cut"})
      <3>1. 1 \in DOMAIN toHost /\ Head(toHost) = toHost[1]
        BY <1>3, <1>4, HeadTailProperties, LenProperties, EmptySeq
      <3> QED
        BY <1>1, <3>1 DEF NoneIn, CutFrame
    <2> QED
      BY <2>1 DEF ResultInv, ReadInv
  <1>7. InFlight = Ids(tl, ResultFrame)
    <2>1. CutFrame \notin ResultFrame
      BY DEF CutFrame, ResultFrame
    <2> HIDE DEF tl
    <2>2. tl = Tail(toHost)
      BY DEF tl
    <2> QED
      BY <1>1, <1>3, <1>4, <2>1, <2>2, IdsTail DEF InFlight
  <1> HIDE DEF tl
  <1>8. /\ Ids(rest, ResultFrame) \in Seq(Nat)
        /\ Ids(tl, ResultFrame) = IF Head(tl) \in ResultFrame
              THEN <<Head(tl).id>> \o Ids(rest, ResultFrame) ELSE Ids(rest, ResultFrame)
    BY <1>3, <1>4, <1>5, IdsTail
  <1>9. InFlight' = Ids(rest, ResultFrame)
    <2>1. Ids(<<CutFrame>> \o rest, ResultFrame) = Ids(rest, ResultFrame)
      BY <1>5, CutIsNoResult
    <2> QED
      BY <1>1, <2>1 DEF InFlight
  <1>10. lost \in Seq(Nat) /\ InFlight = lost \o InFlight'
    <2>1. Head(tl).id \in Nat
      BY <1>5 DEF Reply
    <2>2. <<>> \o Ids(rest, ResultFrame) = Ids(rest, ResultFrame)
      BY <1>8, ConcatEmptySeq
    <2> QED
      BY <1>7, <1>8, <1>9, <2>1, <2>2
  <1> HIDE DEF rest, lost
  <1>11. ResultsKept' /\ InOrder(Held', emitted')
    BY <1>1, <1>2, <1>6, <1>8, <1>9, <1>10, WireDrops
  <1> QED
    BY <1>2, <1>6, <1>11 DEF ResultInv

\* Every step keeps the results.
LEMMA ResultStep == HostInv /\ ResultInv /\ [Next]_vars => ResultInv'
  <1> SUFFICES ASSUME HostInv, ResultInv, [Next]_vars PROVE ResultInv'
    OBVIOUS
  <1>1. CASE UNCHANGED vars
    <2>1. /\ UNCHANGED <<setting, toDev, toHost, modules, emitted, waiting, current, pending, calls, returned>>
      BY <1>1 DEF vars, devVars, hostVars
    <2>2. Held' = Held
      BY <2>1 DEF Held, Collected, InFlight
    <2>3. ReadInv' /\ FreshInv'
      BY <2>1, ReadFresh DEF ResultInv, ReadInv
    <2> QED
      BY <2>1, <2>2, <2>3, HeldKept DEF ResultInv
  <1>2. CASE Next
    BY <1>2, CallResults, PendingResultResults, ReadRoutedResults, ReadDiscoveryResults, TimeoutResults,
       SkipBogusResults,
       DeviceHandleResults, DeviceResultResults DEF Next, ReadNext, DeviceNext
  <1> QED
    BY <1>1, <1>2

\* The invariant that follows the results from the receiver to the calls.
THEOREM ResultInvariant == Spec => []ResultInv
  <1>1. Init => ResultInv
    <2> SUFFICES ASSUME Init PROVE ResultInv
      OBVIOUS
    <2>1. <<>> \in Seq(Reply) /\ <<>> \in Seq(Answer) /\ WithId(Reply) /\ WithId(Answer)
      BY DEF WithId, Reply, Answer
    <2>2. Collected = <<>>
      BY <2>1, IdsTyped DEF Collected, Init
    <2>3. InFlight = <<>>
      BY <2>1, IdsTyped DEF InFlight, Init
    <2>4. Held = <<>>
      BY <2>2, <2>3 DEF Held, Init
    <2>5. ResultsKept /\ InOrder(Held, emitted)
      BY <2>2, <2>3, <2>4 DEF ResultsKept, InOrder, Init
    <2>6. ReadInv /\ FreshInv
      BY DEF Init, ReadInv, FreshInv, NoneIn, NoCall, Waits, SyncLoads
    <2> QED
      BY <2>5, <2>6 DEF ResultInv
  <1> QED
    BY <1>1, ResultStep, HostInvariant, PTL DEF Spec

\* No result is lost while a stop or a query waits for its status reply: each
\* one is returned, stashed or on the wire, in the order it was written.
THEOREM ResultsAreKept == Spec => []ResultsKept
  <1>1. ResultInv => ResultsKept
    BY DEF ResultInv
  <1> QED
    BY <1>1, ResultInvariant, PTL

\* Whatever discoveries and timeouts drop, the results that the host has are in
\* the order the receiver wrote them, and none is there twice.
THEOREM HostResultsInOrder == Spec => []ResultsNotReordered
  <1>1. ResultInv => ResultsNotReordered
    <2> SUFFICES ASSUME ResultInv PROVE ResultsNotReordered
      OBVIOUS
    <2> DEFINE Written(id) == CHOOSE k \in DOMAIN emitted : emitted[k] = id
    <2>1. InOrder(Held, emitted)
      BY DEF ResultInv
    <2>2. \A i \in DOMAIN Held : Written(Held[i]) \in DOMAIN emitted /\ emitted[Written(Held[i])] = Held[i]
      BY <2>1 DEF InOrder
    <2> HIDE DEF Written
    <2>3. \A i, k \in DOMAIN Held : i < k => Written(Held[i]) < Written(Held[k])
      BY <2>1, <2>2 DEF InOrder
    <2> QED
      BY <2>3 DEF ResultsNotReordered, Held, Written
  <1> QED
    BY <1>1, ResultInvariant, PTL

=============================================================================
