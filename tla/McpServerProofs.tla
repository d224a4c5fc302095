--------------------------- MODULE McpServerProofs ---------------------------
(***************************************************************************)
(* MiloMcpServer and its DeviceRegistry, for any number of names, launches *)
(* and receivers: no launched process is forgotten, and a fleet operation  *)
(* that returns has reached the whole fleet.                               *)
(*                                                                         *)
(* The first needs one thing that the code does not check: that whoever    *)
(* answers on the port of a receiver just launched is that receiver.  With *)
(* an outsider on that port the spawn may fail after the process went into *)
(* _procs, and the next spawn of the name overwrites it.                   *)
(***************************************************************************)
EXTENDS McpServer, SequenceTheorems, TLAPS

DeviceEntry == [name : Names, recv : Receivers, connected : BOOLEAN]

TypeInv ==
    /\ life \in [Receivers -> {"none", "starting", "listening", "dead"}]
    /\ port \in [Receivers -> Nat]
    /\ procs \in [Names -> 0..launched]
    /\ launched \in 0..MaxSpawns /\ nextPort = launched + 1
    /\ pc \in {"serve", "wait", "register"}
    /\ op \in FleetOps \cup {DeviceOp, "none"}

\* A spawn is one request: no other is under way.
SpawnInv ==
    /\ pc # "serve" => op = "none" /\ spawning \in Names /\ launched > 0
    /\ op = "none" => todo = {}

\* The receivers launched have ports of their own.
PortInv ==
    /\ \A r \in Own : IF r <= launched THEN port[r] = r ELSE life[r] = "none"
    /\ \A r \in Outsiders : port[r] = OutsiderPort

\* Who is alive and not yet told to die is in _procs, or about to be entered;
\* and a name that is free to be spawned again has no live process there.
TrackInv ==
    up =>
      /\ \A r \in Own : Alive(r) =>
            r \in asked \/ (\E n \in Names : procs[n] = r) \/ (pc = "wait" /\ r = launched)
      /\ pc # "serve" => ~Registered(spawning)
      /\ pc = "register" => procs[spawning] = launched /\ life[launched] \in {"listening", "dead"}
      /\ \A n \in Names : procs[n] \in Own =>
            Registered(n) \/ life[procs[n]] = "dead" \/ (pc = "register" /\ n = spawning)

\* The names in a dict's items es are its keys.
Keys(es) ==
    /\ es \in Seq(DeviceEntry)
    /\ \A i, j \in DOMAIN es : es[i].name = es[j].name => i = j

\* A registered device's receiver was listening when it was registered.
EntryInv ==
    /\ Keys(entries)
    /\ \A i \in DOMAIN entries : life[entries[i].recv] \in {"listening", "dead"}

\* During a fleet operation: what has not been reached is still to be visited.
FleetInv ==
    op \in FleetOps =>
      /\ todo \subseteq AllNames
      /\ \/ raised /\ op \in WriteOnly
         \/ \A i \in DOMAIN entries : entries[i].connected /\ Served(entries[i]) =>
               entries[i].recv \in reached \/ entries[i].name \in todo

RegistryInv == TypeInv /\ SpawnInv /\ PortInv /\ EntryInv /\ FleetInv

-----------------------------------------------------------------------------
(* The registry's dict.                                                    *)

\* What del leaves of a dict.
LEMMA RemoveAtElements ==
    ASSUME NEW S, NEW s \in Seq(S), NEW i \in DOMAIN s
    PROVE  /\ RemoveAt(s, i) \in Seq(S)
           /\ DOMAIN RemoveAt(s, i) = 1..(Len(s) - 1)
           /\ \A k \in 1..(Len(s) - 1) : RemoveAt(s, i)[k] = IF k < i THEN s[k] ELSE s[k + 1]
  <1>1. /\ Len(s) \in Nat /\ DOMAIN s = 1..Len(s) /\ i \in 1..Len(s)
    BY LenProperties
  <1>2. /\ SubSeq(s, 1, i - 1) \in Seq(S) /\ Len(SubSeq(s, 1, i - 1)) = i - 1
        /\ \A k \in 1..(i - 1) : SubSeq(s, 1, i - 1)[k] = s[k]
    BY <1>1, SubSeqProperties
  <1>3. /\ SubSeq(s, i + 1, Len(s)) \in Seq(S) /\ Len(SubSeq(s, i + 1, Len(s))) = Len(s) - i
        /\ \A k \in 1..(Len(s) - i) : SubSeq(s, i + 1, Len(s))[k] = s[i + k]
    BY <1>1, SubSeqProperties
  <1> DEFINE p == SubSeq(s, 1, i - 1)
             q == SubSeq(s, i + 1, Len(s))
  <1>4. RemoveAt(s, i) = p \o q
    BY DEF RemoveAt
  <1> HIDE DEF p, q
  <1>5. /\ p \o q \in Seq(S) /\ Len(p \o q) = Len(s) - 1
        /\ \A k \in 1..(Len(s) - 1) : (p \o q)[k] = IF k <= Len(p) THEN p[k] ELSE q[k - Len(p)]
    <2>1. Len(p) + Len(q) = Len(s) - 1
      BY <1>1, <1>2, <1>3 DEF p, q
    <2>2. p \in Seq(S) /\ q \in Seq(S)
      BY <1>2, <1>3 DEF p, q
    <2> QED
      BY <2>1, <2>2, ConcatProperties
  <1>6. ASSUME NEW k \in 1..(Len(s) - 1)
        PROVE  (p \o q)[k] = IF k < i THEN s[k] ELSE s[k + 1]
    <2>1. CASE k < i
      <3>1. k \in 1..(i - 1) /\ k <= Len(p)
        BY <1>1, <1>2, <2>1 DEF p
      <3> QED
        BY <1>2, <1>5, <2>1, <3>1 DEF p
    <2>2. CASE ~(k < i)
      <3>1. k - (i - 1) \in 1..(Len(s) - i) /\ i + (k - (i - 1)) = k + 1 /\ ~(k <= i - 1)
        BY <1>1, <2>2
      <3>2. Len(p) = i - 1 /\ q[k - (i - 1)] = s[i + (k - (i - 1))]
        BY <1>2, <1>3, <3>1 DEF p, q
      <3> QED
        BY <1>5, <2>2, <3>1, <3>2
    <2> QED
      BY <2>1, <2>2
  <1> QED
    BY <1>4, <1>5, <1>6, LenProperties

\* A registered name has one entry, and Entry finds it.
LEMMA FindEntry ==
    ASSUME Keys(entries), NEW n, Registered(n)
    PROVE  /\ Index(n) \in DOMAIN entries /\ Entry(n) = entries[Index(n)]
           /\ Entry(n).name = n /\ Entry(n) \in DeviceEntry
           /\ \A i \in DOMAIN entries : entries[i].name = n => entries[i] = Entry(n)
  <1>1. PICK i \in DOMAIN entries : entries[i].name = n
    BY DEF Registered
  <1>2. Index(n) \in DOMAIN entries /\ entries[Index(n)].name = n
    BY <1>1 DEF Index
  <1>3. entries[Index(n)] \in DeviceEntry
    BY <1>2, ElementOfSeq, LenProperties DEF Keys
  <1> QED
    BY <1>2, <1>3 DEF Keys, Entry

\* register(): the other names stay, and the entry is the receiver's.
LEMMA RegisterKeeps ==
    ASSUME Keys(entries), NEW n \in Names, NEW r \in Receivers, Register(n, r)
    PROVE  /\ Keys(entries)'
           /\ \A m \in Names : Registered(m) => Registered(m)'
           /\ Registered(n)'
           /\ \A i \in DOMAIN entries' :
                 entries'[i].recv = r \/ \E j \in DOMAIN entries : entries'[i].recv = entries[j].recv
  <1> DEFINE e == [name |-> n, recv |-> r, connected |-> TRUE]
  <1>e. e \in DeviceEntry /\ e.name = n /\ e.recv = r
    BY DEF DeviceEntry
  <1>s. entries \in Seq(DeviceEntry) /\ Len(entries) \in Nat /\ DOMAIN entries = 1..Len(entries)
    BY LenProperties DEF Keys
  <1>d. DeviceEntry' = DeviceEntry
    BY DEF DeviceEntry
  <1>1. CASE Registered(n)
    <2>1. entries' = [i \in DOMAIN entries |-> IF entries[i].name = n THEN e ELSE entries[i]]
      BY <1>1 DEF Register
    <2> HIDE DEF e
    <2>2. /\ DOMAIN entries' = DOMAIN entries
          /\ \A i \in DOMAIN entries : entries'[i].name = entries[i].name
          /\ \A i \in DOMAIN entries : entries'[i] \in {e, entries[i]}
      BY <1>e, <2>1
    <2>3. \A i \in 1..Len(entries) : entries'[i] \in DeviceEntry
      BY <1>e, <1>s, <2>2, ElementOfSeq
    <2>4. entries' \in Seq(DeviceEntry)
      BY <1>s, <2>1, <2>2, <2>3, IsASeq
    <2> QED
      BY <1>1, <1>d, <1>e, <2>2, <2>4 DEF Keys, Registered
  <1>2. CASE ~Registered(n)
    <2>1. entries' = Append(entries, e)
      BY <1>2 DEF Register
    <2> HIDE DEF e
    <2>2. /\ entries' \in Seq(DeviceEntry) /\ DOMAIN entries' = 1..(Len(entries) + 1)
          /\ \A i \in 1..Len(entries) : entries'[i] = entries[i]
          /\ entries'[Len(entries) + 1] = e
      BY <1>e, <1>s, <2>1, AppendProperties, LenProperties
    <2>3. \A i \in 1..(Len(entries) + 1) : i \in DOMAIN entries \/ i = Len(entries) + 1
      BY <1>s
    <2>4. \A i \in DOMAIN entries : entries[i].name # n
      BY <1>2 DEF Registered
    <2>5. \A i \in DOMAIN entries : i \in DOMAIN entries' /\ entries'[i] = entries[i]
      BY <1>s, <2>2
    <2>6. Len(entries) + 1 \in DOMAIN entries'
      BY <1>s, <2>2
    <2>7. Keys(entries)'
      BY <1>d, <1>e, <1>s, <2>2, <2>3, <2>4, <2>5 DEF Keys
    <2> QED
      BY <1>e, <2>2, <2>3, <2>5, <2>6, <2>7 DEF Registered
  <1> QED
    BY <1>1, <1>2

\* unregister(): the other names stay.
LEMMA UnregisterKeeps ==
    ASSUME Keys(entries), NEW n \in Names, Registered(n), Unregister(n)
    PROVE  /\ Keys(entries)'
           /\ \A m \in Names : m # n /\ Registered(m) => Registered(m)'
           /\ \A i \in DOMAIN entries' : \E j \in DOMAIN entries : entries'[i].recv = entries[j].recv
  <1> DEFINE d == Index(n)
  <1>1. d \in DOMAIN entries /\ entries[d].name = n
    BY FindEntry
  <1>2. entries' = RemoveAt(entries, d)
    BY DEF Unregister
  <1>s. entries \in Seq(DeviceEntry) /\ Len(entries) \in Nat /\ DOMAIN entries = 1..Len(entries)
    BY LenProperties DEF Keys
  <1>d. DeviceEntry' = DeviceEntry
    BY DEF DeviceEntry
  <1> HIDE DEF d
  <1>3. /\ entries' \in Seq(DeviceEntry) /\ DOMAIN entries' = 1..(Len(entries) - 1)
        /\ \A k \in 1..(Len(entries) - 1) : entries'[k] = IF k < d THEN entries[k] ELSE entries[k + 1]
    BY <1>1, <1>2, <1>s, RemoveAtElements
  <1>4. /\ d \in 1..Len(entries)
        /\ \A k \in 1..(Len(entries) - 1) : k \in DOMAIN entries /\ k + 1 \in DOMAIN entries
    BY <1>1, <1>s
  <1>5. Keys(entries)'
    BY <1>d, <1>s, <1>3, <1>4 DEF Keys
  <1>6. ASSUME NEW m \in Names, m # n, Registered(m) PROVE Registered(m)'
    <2>1. PICK j \in DOMAIN entries : entries[j].name = m
      BY <1>6 DEF Registered
    <2>2. j # d
      BY <1>1, <1>6, <2>1
    <2>3. CASE j < d
      <3>1. j \in 1..(Len(entries) - 1) /\ entries'[j] = entries[j]
        BY <1>s, <1>3, <1>4, <2>3
      <3> QED
        BY <1>3, <2>1, <3>1 DEF Registered
    <2>4. CASE ~(j < d)
      <3>1. j - 1 \in 1..(Len(entries) - 1) /\ entries'[j - 1] = entries[j]
        BY <1>s, <1>3, <1>4, <2>2, <2>4
      <3> QED
        BY <1>3, <2>1, <3>1 DEF Registered
    <2> QED
      BY <2>3, <2>4
  <1> QED
    BY <1>3, <1>4, <1>5, <1>6

-----------------------------------------------------------------------------
(* The invariant is inductive.                                             *)

\* What a step may do to the receivers: those that listened still do or are
\* dead, and the server's own do not come to life.
Ageing ==
    /\ life' \in [Receivers -> {"none", "starting", "listening", "dead"}]
    /\ \A r \in Receivers : life[r] \in {"listening", "dead"} => life'[r] \in {life[r], "dead"}
    /\ \A r \in Own : (life[r] = "none" => life'[r] = "none") /\ (Alive(r)' => Alive(r))

\* Receivers that die, or that start to listen, disturb nothing the server keeps.
LEMMA AgeingKept ==
    ASSUME RegistryInv, Ageing, UNCHANGED <<port, asked, srvVars, regVars>>
    PROVE  RegistryInv' /\ (TrackInv => TrackInv')
  <1> USE ServerAssumption DEF RegistryInv, Ageing, srvVars, regVars, TypeInv
  <1>1. TypeInv' /\ SpawnInv'
    BY DEF SpawnInv
  <1>2. PortInv'
    BY DEF PortInv, Own, Outsiders
  <1>3. \A i \in DOMAIN entries : entries[i] \in DeviceEntry /\ entries[i].recv \in Receivers
    <2>1. \A i \in DOMAIN entries : entries[i] \in DeviceEntry
      BY ElementOfSeq, LenProperties DEF EntryInv, Keys
    <2> QED
      BY <2>1 DEF DeviceEntry
  <1>4. EntryInv'
    <2>1. Keys(entries)'
      BY DEF EntryInv, Keys, DeviceEntry
    <2> QED
      BY <1>3, <2>1 DEF EntryInv
  <1>5. \A i \in DOMAIN entries : Served(entries[i])' => Served(entries[i])
    BY <1>3 DEF Served, EntryInv
  <1>6. FleetInv'
    BY <1>5 DEF FleetInv, AllNames, FleetOps, Parallel, WriteOnly
  <1>7. TrackInv => TrackInv'
    <2>1. Own \subseteq Receivers /\ (launched > 0 => launched \in Receivers)
      BY DEF Own
    <2>2. \A r \in Own : life[r] = "dead" => life'[r] = "dead"
      BY <2>1
    <2>3. \A n : Registered(n)' = Registered(n)
      BY DEF Registered
    <2> QED
      BY <2>1, <2>2, <2>3 DEF TrackInv, SpawnInv
  <1> QED
    BY <1>1, <1>2, <1>4, <1>6, <1>7

\* A receiver starts, binds, crashes or dies of its SIGTERM.
LEMMA ReceiverStep ==
    ASSUME RegistryInv,
           OutsiderStarts \/ Bind \/ Crash \/ (\E r \in Own : Dies(r))
    PROVE  RegistryInv' /\ (TrackInv => TrackInv')
  <1> USE ServerAssumption
  <1>0. Own \subseteq Receivers /\ Own \cap Outsiders = {}
    BY DEF Own, Outsiders
  <1>t. life \in [Receivers -> {"none", "starting", "listening", "dead"}]
    BY DEF RegistryInv, TypeInv
  <1>1. Ageing /\ UNCHANGED <<port, asked, srvVars, regVars>>
    <2>1. CASE OutsiderStarts
      BY <1>0, <1>t, <2>1 DEF OutsiderStarts, Ageing, Alive, Outsiders
    <2>2. CASE Bind
      BY <1>0, <1>t, <2>2 DEF Bind, Ageing, Alive
    <2>3. CASE Crash
      BY <1>0, <1>t, <2>3 DEF Crash, Ageing, Alive
    <2>4. CASE \E r \in Own : Dies(r)
      BY <1>0, <1>t, <2>4 DEF Dies, Ageing, Alive
    <2> QED
      BY <2>1, <2>2, <2>3, <2>4
  <1> QED
    BY <1>1, AgeingKept

\* What RegistryInv says of one entry.
LEMMA EntryTyped ==
    ASSUME EntryInv, NEW i \in DOMAIN entries
    PROVE  /\ entries[i] \in DeviceEntry /\ entries[i].recv \in Receivers
           /\ entries[i].name \in Names /\ Registered(entries[i].name)
           /\ life[entries[i].recv] \in {"listening", "dead"}
  <1>1. entries[i] \in DeviceEntry
    BY ElementOfSeq, LenProperties DEF EntryInv, Keys
  <1> QED
    BY <1>1 DEF DeviceEntry, EntryInv, Registered

\* An exception of a device changes at most whether its entry is connected.
LEMMA VisitRaisesKeeps ==
    ASSUME EntryInv, VisitRaises, UNCHANGED life
    PROVE  /\ EntryInv'
           /\ DOMAIN entries' = DOMAIN entries
           /\ \A i \in DOMAIN entries :
                 /\ entries'[i].name = entries[i].name /\ entries'[i].recv = entries[i].recv
                 /\ entries'[i].connected => entries[i].connected
           /\ \A n \in Names : Registered(n)' = Registered(n)
  <1>1. /\ DOMAIN entries' = DOMAIN entries
        /\ \A i \in DOMAIN entries :
              entries'[i] = entries[i] \/ entries'[i] = [entries[i] EXCEPT !.connected = FALSE]
    BY DEF VisitRaises
  <1>2. \A i \in DOMAIN entries :
           /\ entries'[i] \in DeviceEntry
           /\ entries'[i].name = entries[i].name /\ entries'[i].recv = entries[i].recv
           /\ entries'[i].connected => entries[i].connected
    BY <1>1, EntryTyped, ZenonT(40) DEF DeviceEntry
  <1>3. entries' \in Seq(DeviceEntry)
    <2>1. entries \in Seq(DeviceEntry) /\ Len(entries) \in Nat /\ DOMAIN entries = 1..Len(entries)
      BY LenProperties DEF EntryInv, Keys
    <2>2. entries' = [i \in 1..Len(entries) |-> entries'[i]]
      <3>1. CASE entries' = entries
        BY <2>1, <3>1, SeqDef
      <3>2. CASE entries' # entries
        BY <2>1, <3>2 DEF VisitRaises
      <3> QED
        BY <3>1, <3>2
    <2> QED
      BY <1>2, <2>1, <2>2, IsASeq
  <1>4. DeviceEntry' = DeviceEntry
    BY DEF DeviceEntry
  <1>5. EntryInv'
    BY <1>1, <1>2, <1>3, <1>4 DEF EntryInv, Keys
  <1>6. \A n \in Names : Registered(n)' = Registered(n)
    BY <1>1, <1>2 DEF Registered
  <1> QED
    BY <1>1, <1>2, <1>5, <1>6

\* A name to visit next is one of those to visit.
LEMMA NextOfTodo == NextNames \subseteq todo
  BY DEF NextNames

\* The steps of an operation of the registry: only a visit that ends with the
\* device reached, or that ends the whole operation, drops it from the list.
LEMMA OpStepKeeps ==
    ASSUME RegistryInv, OpStep
    PROVE  RegistryInv'
  <1> USE DEF RegistryInv
  <1>n. "none" \notin FleetOps /\ DeviceOp \notin FleetOps /\ DeviceOp # "none"
    BY DEF FleetOps, Parallel, WriteOnly, DeviceOp
  <1>u. UNCHANGED <<life, port, up, procs, nextPort, launched, pc, spawning>>
    BY DEF OpStep, srvVars, procVars
  <1>o. op # "none" /\ UNCHANGED backlog
    BY <1>n, NextOfTodo DEF OpStep, Skip, VisitReturns, VisitRaises, EndOp, SpawnInv
  <1>1. TypeInv' /\ PortInv'
    BY <1>u DEF TypeInv, PortInv, OpStep, Skip, VisitReturns, VisitRaises, EndOp, Own, Outsiders
  <1>2. SpawnInv'
    BY <1>u, <1>o DEF SpawnInv, OpStep, Skip, VisitReturns, VisitRaises, EndOp
  <1>3. EntryInv'
    <2>1. CASE UNCHANGED entries
      BY <1>u, <2>1 DEF EntryInv, Keys, DeviceEntry
    <2>2. CASE VisitRaises
      BY <1>u, <2>2, VisitRaisesKeeps
    <2> QED
      BY <2>1, <2>2 DEF OpStep, Skip, VisitReturns, EndOp
  <1>4. FleetInv'
    <2> SUFFICES ASSUME op' \in FleetOps PROVE FleetInv!2'
      BY DEF FleetInv, FleetOps, Parallel, WriteOnly
    <2>e. ~EndOp
      BY <1>n DEF EndOp
    <2>1. op' = op /\ op \in FleetOps /\ todo \subseteq AllNames
      BY <2>e DEF OpStep, Skip, VisitReturns, VisitRaises, FleetInv
    <2>2. /\ \A n \in todo : Registered(n) /\ n \in Names
          /\ \A n \in todo : \A i \in DOMAIN entries : entries[i].name = n => entries[i] = Entry(n)
      <3>1. \A n \in todo : Registered(n) /\ n \in Names
        BY <2>1, EntryTyped DEF AllNames
      <3> QED
        BY <3>1, FindEntry DEF EntryInv
    <2>3. CASE Skip
      <3>1. PICK n \in NextNames : ~Entry(n).connected /\ todo' = todo \ {n}
        BY <2>3 DEF Skip
      <3>2. UNCHANGED <<entries, reached, raised>>
        BY <2>3 DEF Skip
      <3>3. \A i \in DOMAIN entries : Served(entries[i])' = Served(entries[i])
        BY <1>u, <1>o, <3>2 DEF Served
      <3> QED
        BY <2>1, <2>2, <3>1, <3>2, <3>3, NextOfTodo DEF FleetInv, AllNames
    <2>4. CASE VisitReturns
      <3>1. PICK n \in NextNames :
               /\ todo' = todo \ {n}
               /\ reached' = IF Served(Entry(n)) THEN reached \cup {Entry(n).recv} ELSE reached
               /\ UNCHANGED <<entries, raised>>
        BY <2>4 DEF VisitReturns
      <3>3. \A i \in DOMAIN entries : Served(entries[i])' = Served(entries[i])
        BY <1>u, <1>o, <3>1 DEF Served
      <3> QED
        BY <2>1, <2>2, <3>1, <3>3, NextOfTodo DEF FleetInv, AllNames
    <2>5. CASE VisitRaises
      <3>1. PICK n \in NextNames :
               /\ todo' = IF Aborts(op) THEN {} ELSE todo \ {n}
               /\ raised' = (op \in WriteOnly \cup {DeviceOp})
               /\ reached' = IF Served(Entry(n)) THEN reached \cup {Entry(n).recv} ELSE reached
        BY <2>5 DEF VisitRaises
      <3>2. /\ DOMAIN entries' = DOMAIN entries
            /\ \A i \in DOMAIN entries :
                  /\ entries'[i].name = entries[i].name /\ entries'[i].recv = entries[i].recv
                  /\ entries'[i].connected => entries[i].connected
        BY <1>u, <2>5, VisitRaisesKeeps
      <3>3. \A i \in DOMAIN entries : Served(entries[i])' = Served(entries[i])
        BY <1>u, <1>o, <3>2 DEF Served
      <3>4. AllNames' = AllNames
        BY <3>2 DEF AllNames
      <3>5. CASE op \in WriteOnly
        BY <2>1, <3>1, <3>4, <3>5 DEF Aborts
      <3>6. CASE op \notin WriteOnly
        <4>1. todo' = todo \ {n} /\ ~(raised /\ op \in WriteOnly)
          BY <3>1, <3>6 DEF Aborts
        <4>2. ASSUME NEW i \in DOMAIN entries, entries'[i].connected, Served(entries[i])'
              PROVE  entries'[i].recv \in reached' \/ entries'[i].name \in todo'
          <5>1. entries[i].connected /\ Served(entries[i])
            BY <3>2, <3>3, <4>2
          <5>2. entries[i].recv \in reached \/ entries[i].name \in todo
            BY <2>1, <4>1, <5>1 DEF FleetInv
          <5>3. entries[i].name = n => entries[i] = Entry(n)
            BY <2>2, NextOfTodo
          <5> QED
            BY <3>1, <3>2, <4>1, <5>1, <5>2, <5>3
        <4> QED
          BY <2>1, <3>2, <3>4, <4>1, <4>2
      <3> QED
        BY <3>5, <3>6
    <2> QED
      BY <2>e, <2>3, <2>4, <2>5 DEF OpStep
  <1> QED
    BY <1>1, <1>2, <1>3, <1>4

\* The server's steps between operations keep the invariant.
LEMMA ServerStepKeeps ==
    ASSUME RegistryInv,
           Spawn \/ PortUp \/ PortTimeout \/ SpawnRegisters \/ ConnectTcp
             \/ Disconnect \/ BeginOp
    PROVE  RegistryInv'
  <1> USE ServerAssumption DEF RegistryInv
  <1>n. "none" \notin FleetOps /\ DeviceOp \notin FleetOps
    BY DEF FleetOps, Parallel, WriteOnly, DeviceOp
  <1>o. op = "none" /\ todo = {}
    BY DEF Spawn, PortUp, PortTimeout, SpawnRegisters, ConnectTcp, Disconnect, BeginOp,
           Idle, SpawnInv, TypeInv
  <1>k. ASSUME UNCHANGED <<op, todo>> PROVE FleetInv'
    BY <1>k, <1>n, <1>o DEF FleetInv, FleetOps, Parallel, WriteOnly
  <1>e. ASSUME UNCHANGED entries,
               \A i \in DOMAIN entries : life'[entries[i].recv] \in {"listening", "dead"}
        PROVE  EntryInv'
    BY <1>e DEF EntryInv, Keys, DeviceEntry
  <1>r. ASSUME NEW n \in Names, NEW r \in Receivers, Register(n, r), UNCHANGED life
        PROVE  EntryInv'
    <2>1. life[r] = "listening"
      BY <1>r DEF Register
    <2>2. /\ Keys(entries)'
          /\ \A i \in DOMAIN entries' :
                entries'[i].recv = r \/ \E j \in DOMAIN entries : entries'[i].recv = entries[j].recv
      BY <1>r, RegisterKeeps DEF EntryInv
    <2> QED
      BY <1>r, <2>1, <2>2 DEF EntryInv
  <1>m. Own \subseteq Receivers /\ launched \in Nat /\ (launched > 0 => launched \in Own)
        /\ (launched < MaxSpawns => launched + 1 \in Own /\ life[launched + 1] = "none")
    BY DEF Own, TypeInv, PortInv
  <1>1. CASE Spawn
    <2>0. /\ launched < MaxSpawns /\ spawning' \in Names /\ launched' = launched + 1 /\ up
          /\ nextPort' = nextPort + 1 /\ pc' = "wait" /\ pc = "serve"
          /\ life' = [life EXCEPT ![launched + 1] = "starting"]
          /\ port' = [port EXCEPT ![launched + 1] = nextPort]
          /\ UNCHANGED <<up, procs, entries, op, todo>>
      BY <1>1 DEF Spawn, Idle, regVars
    <2>1. TypeInv' /\ SpawnInv'
      BY <1>o, <1>m, <2>0 DEF TypeInv, SpawnInv, FleetOps, Parallel, WriteOnly, DeviceOp
    <2>2. PortInv'
      <3>1. \A r \in Own : IF r <= launched + 1 THEN port'[r] = r ELSE life'[r] = "none"
        BY <1>m, <2>0 DEF PortInv, TypeInv, Own
      <3>2. \A r \in Outsiders : port'[r] = OutsiderPort
        BY <1>m, <2>0 DEF PortInv, TypeInv, Outsiders
      <3> QED
        BY <2>0, <3>1, <3>2 DEF PortInv, Own, Outsiders
    <2>3. EntryInv'
      BY <1>e, <1>m, <2>0, EntryTyped DEF TypeInv
    <2> QED
      BY <1>k, <2>0, <2>1, <2>2, <2>3
  <1>2. CASE PortUp \/ PortTimeout
    <2>0. /\ UNCHANGED <<life, port, launched, nextPort, entries, op, todo, up>>
          /\ procs' \in [Names -> 0..launched] /\ pc' \in {"serve", "register"}
          /\ pc = "wait" /\ (pc' = "register" => UNCHANGED spawning)
      BY <1>2, <1>m DEF PortUp, PortTimeout, regVars, procVars, TypeInv, Newest
    <2>1. TypeInv' /\ SpawnInv' /\ PortInv'
      BY <1>o, <2>0 DEF TypeInv, SpawnInv, PortInv, FleetOps, Parallel, WriteOnly, DeviceOp, Own, Outsiders
    <2> QED
      BY <1>e, <1>k, <2>0, <2>1, EntryTyped
  <1>3. CASE SpawnRegisters
    <2>0. /\ UNCHANGED <<life, port, launched, nextPort, op, todo, up, procs>>
          /\ pc' = "serve" /\ spawning \in Names
      BY <1>3 DEF SpawnRegisters, regVars, procVars, Register, SpawnInv
    <2>1. TypeInv' /\ SpawnInv' /\ PortInv'
      BY <1>o, <2>0 DEF TypeInv, SpawnInv, PortInv, FleetOps, Parallel, WriteOnly, DeviceOp, Own, Outsiders
    <2>2. EntryInv'
      <3>1. CASE UNCHANGED entries
        BY <1>e, <2>0, <3>1, EntryTyped
      <3>2. CASE \E r \in Listening(port[Newest]) : Register(spawning, r)
        BY <1>r, <2>0, <3>2 DEF Listening
      <3> QED
        BY <1>3, <3>1, <3>2 DEF SpawnRegisters, regVars
    <2> QED
      BY <1>k, <2>0, <2>1, <2>2
  <1>4. CASE ConnectTcp
    <2>0. UNCHANGED <<life, port, launched, nextPort, op, todo, up, procs, pc, spawning>>
      BY <1>4 DEF ConnectTcp, srvVars, procVars, Register
    <2>1. TypeInv' /\ SpawnInv' /\ PortInv'
      BY <1>o, <2>0 DEF TypeInv, SpawnInv, PortInv, FleetOps, Parallel, WriteOnly, DeviceOp, Own, Outsiders
    <2>2. EntryInv'
      BY <1>4, <1>r, <2>0 DEF ConnectTcp
    <2> QED
      BY <1>k, <2>0, <2>1, <2>2
  <1>5. CASE Disconnect
    <2>0. PICK n \in Names :
             /\ Registered(n) /\ Unregister(n)
             /\ procs' = [procs EXCEPT ![n] = NoReceiver]
             /\ life' = [r \in Receivers |-> IF r = procs[n] THEN "dead" ELSE life[r]]
      BY <1>5 DEF Disconnect
    <2>1. UNCHANGED <<port, launched, nextPort, op, todo, up, pc, spawning>>
      BY <1>5, <2>0 DEF Disconnect, Unregister
    <2>2. TypeInv' /\ SpawnInv'
      BY <1>o, <2>0, <2>1
         DEF TypeInv, SpawnInv, FleetOps, Parallel, WriteOnly, DeviceOp, NoReceiver
    <2>3. PortInv'
      <3>1. pc = "serve"
        BY <1>5 DEF Disconnect, Idle
      <3> QED
        BY <1>m, <2>0, <2>1, <3>1 DEF PortInv, TypeInv, Own, Outsiders
    <2>4. EntryInv'
      <3>1. /\ Keys(entries)'
            /\ \A i \in DOMAIN entries' : \E j \in DOMAIN entries : entries'[i].recv = entries[j].recv
        BY <2>0, UnregisterKeeps DEF EntryInv
      <3> QED
        BY <2>0, <3>1, EntryTyped DEF EntryInv
    <2> QED
      BY <1>k, <2>1, <2>2, <2>3, <2>4
  <1>6. CASE BeginOp
    <2>0. UNCHANGED <<life, port, launched, nextPort, entries, up, procs, pc, spawning, backlog>>
          /\ op' \in FleetOps \cup {DeviceOp}
      BY <1>6 DEF BeginOp, BeginFleetOp, BeginDeviceOp, srvVars, procVars
    <2>1. TypeInv' /\ PortInv'
      BY <2>0 DEF TypeInv, PortInv, FleetOps, Parallel, WriteOnly, DeviceOp, Own, Outsiders
    <2>2. SpawnInv'
      BY <1>n, <1>6, <2>0 DEF SpawnInv, BeginOp, Idle, DeviceOp
    <2>3. FleetInv'
      <3>1. CASE BeginFleetOp
        <4>1. /\ todo' \subseteq AllNames /\ AllNames' = AllNames
              /\ \A n \in AllNames : Entry(n).connected => n \in todo'
          BY <2>0, <3>1 DEF BeginFleetOp, AllNames
        <4>2. \A i \in DOMAIN entries :
                 entries[i].name \in AllNames /\ Entry(entries[i].name) = entries[i]
          BY EntryTyped, FindEntry DEF AllNames, EntryInv
        <4> QED
          BY <2>0, <4>1, <4>2 DEF FleetInv
      <3>2. CASE BeginDeviceOp
        BY <1>n, <3>2 DEF FleetInv, BeginDeviceOp, FleetOps, Parallel, WriteOnly
      <3> QED
        BY <1>6, <3>1, <3>2 DEF BeginOp
    <2> QED
      BY <1>e, <2>0, <2>1, <2>2, <2>3, EntryTyped
  <1> QED
    BY <1>1, <1>2, <1>3, <1>4, <1>5, <1>6

\* A shutdown keeps it, whatever it interrupts.
LEMMA ShutdownKeeps ==
    ASSUME RegistryInv, Shutdown
    PROVE  RegistryInv'
  <1> USE ServerAssumption DEF RegistryInv
  <1>0. /\ UNCHANGED <<life, port, launched, nextPort, pc, spawning>> /\ op' = "none" /\ todo' = {}
        /\ entries' = <<>> /\ procs' = [n \in Names |-> NoReceiver]
    BY DEF Shutdown, CloseAll
  <1>1. TypeInv' /\ SpawnInv' /\ PortInv'
    BY <1>0 DEF TypeInv, SpawnInv, PortInv, FleetOps, Parallel, WriteOnly, DeviceOp, Own,
                Outsiders, NoReceiver
  <1>2. EntryInv'
    BY <1>0, EmptySeq DEF EntryInv, Keys
  <1>3. FleetInv'
    BY <1>0 DEF FleetInv, FleetOps, Parallel, WriteOnly
  <1> QED
    BY <1>1, <1>2, <1>3

\* With the outsiders on other ports, who answers on the port of the newest
\* receiver is that receiver.
LEMMA NewestAnswers ==
    ASSUME RegistryInv, OutsiderPort \notin Own, launched > 0
    PROVE  Listening(port[launched]) = {r \in {launched} : life[r] = "listening"}
  <1> USE ServerAssumption DEF RegistryInv
  <1>1. launched \in Own /\ launched \in Receivers /\ port[launched] = launched
    BY DEF TypeInv, PortInv, Own
  <1>2. \A r \in Receivers : life[r] = "listening" /\ port[r] = launched => r = launched
    <2>1. \A r \in Own : life[r] = "listening" => port[r] = r
      BY DEF PortInv
    <2>2. \A r \in Outsiders : port[r] # launched
      BY <1>1 DEF PortInv
    <2> QED
      BY <2>1, <2>2 DEF Outsiders
  <1> QED
    BY <1>1, <1>2 DEF Listening

\* The server's steps lose no process.
LEMMA TrackStep ==
    ASSUME RegistryInv, TrackInv, OutsiderPort \notin Own, ServerNext
    PROVE  TrackInv'
  <1> USE ServerAssumption DEF RegistryInv
  <1>m. Own \subseteq Receivers /\ launched \in Nat /\ (launched > 0 => launched \in Own)
        /\ (launched < MaxSpawns => launched + 1 \in Own /\ life[launched + 1] = "none")
    BY DEF Own, TypeInv, PortInv
  <1>t. /\ life \in [Receivers -> {"none", "starting", "listening", "dead"}]
        /\ procs \in [Names -> 0..launched]
    BY DEF TypeInv
  <1>1. CASE Spawn
    <2>0. /\ launched < MaxSpawns /\ launched' = launched + 1 /\ up /\ pc' = "wait" /\ pc = "serve"
          /\ spawning' \in Names /\ ~Registered(spawning')
          /\ life' = [life EXCEPT ![launched + 1] = "starting"]
          /\ UNCHANGED <<up, procs, asked, entries>>
      BY <1>1 DEF Spawn, Idle, regVars
    <2>1. \A n : Registered(n)' = Registered(n)
      BY <2>0 DEF Registered
    <2>2. ~Registered(spawning)'
      BY <2>0 DEF Registered
    <2>3. \A r \in Own : Alive(r)' => r = launched' \/ Alive(r)
      BY <1>m, <1>t, <2>0 DEF Alive
    <2>4. \A r \in Own : life[r] = "dead" => life'[r] = "dead"
      BY <1>m, <1>t, <2>0
    <2> QED
      BY <2>0, <2>1, <2>2, <2>3, <2>4 DEF TrackInv
  <1>2. CASE PortUp
    <2>0. /\ pc = "wait" /\ pc' = "register" /\ up /\ launched > 0 /\ spawning \in Names
          /\ Listening(port[launched]) # {} /\ procs' = [procs EXCEPT ![spawning] = launched]
          /\ UNCHANGED <<up, launched, spawning, life, asked, entries>>
      BY <1>2 DEF PortUp, Newest, procVars, regVars, SpawnInv
    <2>1. life[launched] = "listening"
      BY <2>0, NewestAnswers
    <2>2. \A n : Registered(n)' = Registered(n)
      BY <2>0 DEF Registered
    <2>3. \A r : Alive(r)' = Alive(r)
      BY <2>0 DEF Alive
    <2>4. procs[spawning] \in Own => ~Alive(procs[spawning])
      BY <2>0 DEF TrackInv, Alive
    <2> QED
      BY <1>t, <2>0, <2>1, <2>2, <2>3, <2>4 DEF TrackInv
  <1>3. CASE PortTimeout
    <2>0. /\ pc = "wait" /\ pc' = "serve" /\ asked' = asked \cup {launched}
          /\ UNCHANGED <<up, procs, launched, life, entries>>
      BY <1>3 DEF PortTimeout, Newest, regVars
    <2>1. \A n : Registered(n)' = Registered(n)
      BY <2>0 DEF Registered
    <2>2. \A r : Alive(r)' = Alive(r)
      BY <2>0 DEF Alive
    <2> QED
      BY <2>0, <2>1, <2>2 DEF TrackInv
  <1>4. CASE SpawnRegisters
    <2>0. /\ pc = "register" /\ pc' = "serve" /\ up /\ launched > 0 /\ spawning \in Names
          /\ UNCHANGED <<up, procs, launched, life, asked>>
      BY <1>4 DEF SpawnRegisters, procVars, SpawnInv
    <2>1. \A r : Alive(r)' = Alive(r)
      BY <2>0 DEF Alive
    <2>2. CASE \E r \in Listening(port[Newest]) : Register(spawning, r)
      <3>0. PICK n \in Names, r \in Receivers : n = spawning /\ Register(n, r)
        BY <2>0, <2>2 DEF Listening
      <3>1. \A m \in Names : Registered(m) => Registered(m)'
        BY <3>0, RegisterKeeps DEF EntryInv
      <3>2. Registered(n)'
        BY <3>0, RegisterKeeps DEF EntryInv
      <3> QED
        BY <2>0, <2>1, <3>0, <3>1, <3>2 DEF TrackInv
    <2>3. CASE Listening(port[Newest]) = {} /\ UNCHANGED regVars
      <3>1. life[launched] = "dead" /\ procs[spawning] = launched
        BY <2>0, <2>3, NewestAnswers DEF Newest, TrackInv
      <3>2. \A n : Registered(n)' = Registered(n)
        BY <2>3 DEF Registered, regVars
      <3> QED
        BY <2>0, <2>1, <3>1, <3>2 DEF TrackInv
    <2> QED
      BY <1>4, <2>2, <2>3 DEF SpawnRegisters
  <1>5. CASE ConnectTcp
    <2>0. pc = "serve" /\ UNCHANGED <<up, procs, launched, life, asked, pc, spawning>>
      BY <1>5 DEF ConnectTcp, srvVars, procVars, Idle
    <2>1. \A r : Alive(r)' = Alive(r)
      BY <2>0 DEF Alive
    <2>2. \A m \in Names : Registered(m) => Registered(m)'
      BY <1>5, RegisterKeeps DEF ConnectTcp, EntryInv
    <2> QED
      BY <2>0, <2>1, <2>2 DEF TrackInv
  <1>6. CASE Disconnect
    <2>0. PICK n \in Names :
             /\ Registered(n) /\ Unregister(n)
             /\ procs' = [procs EXCEPT ![n] = NoReceiver]
             /\ life' = [r \in Receivers |-> IF r = procs[n] THEN "dead" ELSE life[r]]
      BY <1>6 DEF Disconnect
    <2>1. pc = "serve" /\ UNCHANGED <<up, launched, asked, pc, spawning>>
      BY <1>6 DEF Disconnect, Idle
    <2>2. \A m \in Names : m # n /\ Registered(m) => Registered(m)'
      BY <2>0, UnregisterKeeps DEF EntryInv
    <2>3. \A r \in Own : Alive(r)' => Alive(r) /\ r # procs[n]
      BY <1>m, <2>0 DEF Alive
    <2>4. \A m \in Names : m # n => procs'[m] = procs[m]
      BY <1>t, <2>0
    <2>5. procs'[n] \notin Own
      BY <1>t, <2>0 DEF Own, NoReceiver
    <2>6. \A r \in Own : life[r] = "dead" => life'[r] = "dead"
      BY <1>m, <2>0
    <2> QED
      BY <2>1, <2>2, <2>3, <2>4, <2>5, <2>6 DEF TrackInv
  <1>7. CASE BeginOp \/ OpStep
    <2>0. UNCHANGED <<up, procs, launched, life, asked, pc, spawning>>
      BY <1>7 DEF BeginOp, OpStep, srvVars, procVars
    <2>1. \A r : Alive(r)' = Alive(r)
      BY <2>0 DEF Alive
    <2>2. \A m \in Names : Registered(m)' = Registered(m)
      <3>1. CASE UNCHANGED entries
        BY <3>1 DEF Registered
      <3>2. CASE VisitRaises
        BY <2>0, <3>2, VisitRaisesKeeps
      <3> QED
        BY <1>7, <3>1, <3>2
           DEF BeginOp, OpStep, BeginFleetOp, BeginDeviceOp, Skip, VisitReturns, EndOp
    <2>3. pc # "serve" => (Registered(spawning)' = Registered(spawning))
      BY <2>0, <2>2 DEF SpawnInv, Registered
    <2> QED
      BY <2>0, <2>1, <2>2, <2>3 DEF TrackInv
  <1>8. CASE Shutdown
    BY <1>8 DEF Shutdown, TrackInv
  <1> QED
    BY <1>1, <1>2, <1>3, <1>4, <1>5, <1>6, <1>7, <1>8 DEF ServerNext

-----------------------------------------------------------------------------
\* The invariant holds at the start.
LEMMA InitInv ==
    ASSUME Init
    PROVE  RegistryInv /\ TrackInv
  <1> USE ServerAssumption DEF Init, RegInit
  <1>1. TypeInv /\ SpawnInv /\ PortInv
    BY DEF TypeInv, SpawnInv, PortInv, FleetOps, Parallel, WriteOnly, DeviceOp, Own, Outsiders, NoReceiver
  <1>2. EntryInv /\ FleetInv
    BY EmptySeq DEF EntryInv, Keys, FleetInv, FleetOps, Parallel, WriteOnly
  <1>3. TrackInv
    BY DEF TrackInv, Alive, Own, NoReceiver
  <1> QED
    BY <1>1, <1>2, <1>3 DEF RegistryInv

\* Every step keeps it.
LEMMA NextInv ==
    ASSUME RegistryInv, [Next]_vars
    PROVE  RegistryInv' /\ (OutsiderPort \notin Own /\ TrackInv => TrackInv')
  <1>1. CASE OpStep
    BY <1>1, OpStepKeeps, TrackStep DEF ServerNext
  <1>2. CASE ServerNext /\ ~OpStep
    BY <1>2, ServerStepKeeps, ShutdownKeeps, TrackStep DEF ServerNext
  <1>3. CASE OutsiderStarts \/ Bind \/ Crash \/ (\E r \in Own : Dies(r))
    BY <1>3, ReceiverStep
  <1>4. CASE UNCHANGED vars
    <2>1. Ageing /\ UNCHANGED <<port, asked, srvVars, regVars>>
      BY <1>4, ServerAssumption DEF vars, procVars, srvVars, regVars, Ageing, RegistryInv, TypeInv, Alive, Own
    <2> QED
      BY <2>1, AgeingKept
  <1> QED
    BY <1>1, <1>2, <1>3, <1>4 DEF Next, ServerNext

\* The registry under the server: entries are the keys of a dict, their
\* receivers were live when they were registered, one request runs at a time
\* and a fleet operation still has to visit whom it has not reached.
THEOREM ServerInvariant == Spec => []RegistryInv
  <1>1. Init => RegistryInv
    BY InitInv
  <1>2. RegistryInv /\ [Next]_vars => RegistryInv'
    BY NextInv
  <1> QED
    BY <1>1, <1>2, PTL DEF Spec

\* "A slow or dead device must not stall the rest of the fleet"
\* (registry.py:98): with any number of devices, deaths and registrations, a
\* fleet operation that returns has reached each that is connected and served.
THEOREM FleetOpsReachAll == Spec => []FleetOpReachesAll
  <1>1. RegistryInv => FleetOpReachesAll
    BY DEF RegistryInv, FleetInv, FleetOpReachesAll
  <1> QED
    BY <1>1, ServerInvariant, PTL

\* Whatever fails during a spawn, a disconnect or a registration over an
\* existing name, the server has each live receiver it launched in _procs or
\* has terminated it, as long as nobody else listens on the ports it picks.
THEOREM ServerKeepsTrack == OutsiderPort \notin Own => (Spec => []NoOrphans)
  <1> SUFFICES ASSUME OutsiderPort \notin Own PROVE Spec => []NoOrphans
    OBVIOUS
  <1>1. Init => RegistryInv /\ TrackInv
    BY InitInv
  <1>2. (RegistryInv /\ TrackInv) /\ [Next]_vars => (RegistryInv /\ TrackInv)'
    BY NextInv
  <1>3. RegistryInv /\ TrackInv => NoOrphans
    BY DEF TrackInv, NoOrphans
  <1> QED
    BY <1>1, <1>2, <1>3, PTL DEF Spec

=============================================================================
