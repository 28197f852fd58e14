------------------------- MODULE StreamDemos_proofs -------------------------
(* What holds of the stream programs for every set of them that is run     *)
(* together, however often they are killed, whatever fails and whatever    *)
(* the network does.                                                       *)
EXTENDS StreamDemos, SequenceTheorems, TLAPS

(* The programs as the proofs see them: the streams of each, and that only *)
(* sending streams are added to a bridge.                                  *)
Own(r) ==
    CASE r = "sender" -> {"s1", "s2"}
      [] r = "receiver" -> {"r1", "r2"}
      [] r = "internal" -> {"i1", "i2", "i3"}
      [] r = "same" -> {"e1", "e2"}
      [] r = "threads" -> {"t1", "t2"}

LEMMA OwnStreams == ASSUME NEW r \in Programs PROVE Streams(r) \subseteq Own(r)
<1>1. CASE r = "sender"
  BY <1>1 DEF Streams, Steps, SenderSteps, Own
<1>2. CASE r = "receiver"
  BY <1>2 DEF Streams, Steps, ReceiverSteps, Own
<1>3. CASE r = "internal"
  BY <1>3 DEF Streams, Steps, InternalSteps, Own
<1>4. CASE r = "same"
  BY <1>4 DEF Streams, Steps, SameSteps, Own
<1>5. CASE r = "threads"
  BY <1>5 DEF Streams, Steps, ThreadsSteps, Own
<1> QED BY <1>1, <1>2, <1>3, <1>4, <1>5 DEF Programs

LEMMA StreamsDisjoint ==
    ASSUME NEW r \in Programs, NEW q \in Programs,
           NEW s \in Streams(r), s \in Streams(q)
    PROVE  r = q
<1>1. s \in Own(r) /\ s \in Own(q)
  BY OwnStreams
<1> QED BY <1>1 DEF Own, Programs

LEMMA AtOwn ==
    ASSUME NEW r \in Programs, NEW op, NEW s, At(r, op, s)
    PROVE  s \in Streams(r)
  BY DEF At, Streams

LEMMA AddsEncoders ==
    ASSUME NEW r \in Programs, NEW s, At(r, "add", s)
    PROVE  s \in Encoders
<1>1. CASE r = "sender"
  BY <1>1 DEF At, Steps, SenderSteps, Encoders
<1>2. CASE r = "receiver"
  BY <1>2 DEF At, Steps, ReceiverSteps, Encoders
<1>3. CASE r = "internal"
  BY <1>3 DEF At, Steps, InternalSteps, Encoders
<1>4. CASE r = "same"
  BY <1>4 DEF At, Steps, SameSteps, Encoders
<1>5. CASE r = "threads"
  BY <1>5 DEF At, Steps, ThreadsSteps, Encoders
<1> QED BY <1>1, <1>2, <1>3, <1>4, <1>5 DEF Programs

(* Only playing streams are given to a device. *)
LEMMA DevicesDecode ==
    ASSUME NEW r \in Programs, NEW s, At(r, "device", s)
    PROVE  s \in Decoders
<1>1. CASE r = "sender"
  BY <1>1 DEF At, Steps, SenderSteps, Decoders
<1>2. CASE r = "receiver"
  BY <1>2 DEF At, Steps, ReceiverSteps, Decoders
<1>3. CASE r = "internal"
  BY <1>3 DEF At, Steps, InternalSteps, Decoders
<1>4. CASE r = "same"
  BY <1>4 DEF At, Steps, SameSteps, Decoders
<1>5. CASE r = "threads"
  BY <1>5 DEF At, Steps, ThreadsSteps, Decoders
<1> QED BY <1>1, <1>2, <1>3, <1>4, <1>5 DEF Programs

(* At most one call at a time. *)
LEMMA AtOne ==
    ASSUME NEW r, NEW op, NEW s, NEW op2, NEW s2,
           At(r, op, s), At(r, op2, s2)
    PROVE  op = op2 /\ s = s2
  BY DEF At

-----------------------------------------------------------------------------
(* The inductive invariant, part by part.                                  *)

Types ==
    /\ pc \in [Programs -> Int]
    /\ conf \in [Programs -> Seq(Encoders)]
    /\ routes \in [Programs -> SUBSET Int]
    /\ device \subseteq Decoders
    /\ heard \in [Decoders -> SUBSET Ids]
    /\ RtpTypeOK

(* A bridge's slot 0 feeds only slots that are in use. *)
RoutesInUse == \A r \in Programs : routes[r] \subseteq 0..Len(conf[r])

(* A port is bound by a stream it is for. *)
OwnPorts == \A p \in UdpPorts : \A s \in Ids : owner[p] = s => p = Local(s)

(* Whatever is under way goes where its stream sends, however old it is.   *)
Addressed ==
    \A pkt \in wire : pkt.from \in Encoders /\ pkt.to = Remote[pkt.from]

IInv == /\ Types /\ RoutesInUse /\ OwnPorts /\ Addressed
        /\ NoOrphanTransport /\ NoCrosstalk

LEMMA Ports ==
    /\ \A s \in Ids : Local(s) \in UdpPorts /\ s # "free" /\ s # "other"
    /\ \A s \in Encoders : Remote[s] \in UdpPorts /\ s \in Ids
    /\ Decoders \subseteq Ids
<1>1. \A s \in Ids : Local(s) \in UdpPorts
  BY UdpPortsAssumption
<1>2. \A s \in Ids : s # "free" /\ s # "other"
  BY IdsAssumption DEF Encoders, Decoders
<1>3. Encoders \subseteq Ids /\ Decoders \subseteq Ids
  BY IdsAssumption
<1>4. 6070 \in UdpPorts /\ 6072 \in UdpPorts
  <2>1. "r1" \in Ids /\ "r2" \in Ids
    BY <1>3 DEF Decoders
  <2>2. Local("r1") = 6070 /\ Local("r2") = 6072
    BY DEF Local
  <2> QED BY <1>1, <2>1, <2>2
<1>5. \A s \in Encoders : Remote[s] \in UdpPorts
  BY <1>4 DEF Remote
<1> QED BY <1>1, <1>2, <1>3, <1>5

LEMMA Initially == Init => IInv
<1> SUFFICES ASSUME Init PROVE IInv
  OBVIOUS
<1> USE DEF Init, RtpInit
<1>1. Types
  BY DEF Types, RtpTypeOK
<1>2. RoutesInUse
  BY DEF RoutesInUse
<1>3. OwnPorts /\ NoOrphanTransport
  <2>1. \A p \in UdpPorts : \A s \in Ids : owner[p] # s
    BY Ports
  <2>2. \A r \in Programs : Streams(r) \subseteq Ids
    BY OwnStreams, IdsAssumption DEF Own, Programs, Encoders, Decoders
  <2> QED BY <2>1, <2>2 DEF OwnPorts, NoOrphanTransport
<1>4. Addressed
  BY DEF Addressed
<1>5. NoCrosstalk
  BY DEF NoCrosstalk
<1> QED BY <1>1, <1>2, <1>3, <1>4, <1>5 DEF IInv

-----------------------------------------------------------------------------
(* A process that leaves. *)
LEMMA LeavesKeeps ==
    ASSUME IInv, NEW r \in Programs, NEW n \in Int, Leaves(r, n)
    PROVE  IInv'
<1> USE DEF IInv, Leaves, Gone
<1>1. Types'
  BY DEF Types, RtpTypeOK
<1>2. RoutesInUse'
  <2> SUFFICES ASSUME NEW q \in Programs
               PROVE  routes'[q] \subseteq 0..Len(conf'[q])
    BY DEF RoutesInUse
  <2>1. CASE q = r
    <3>1. routes'[q] = {}
      BY <2>1 DEF Types
    <3> QED BY <3>1
  <2>2. CASE q # r
    <3>1. routes'[q] = routes[q] /\ conf'[q] = conf[q]
      BY <2>2 DEF Types
    <3> QED BY <3>1 DEF RoutesInUse
  <2> QED BY <2>1, <2>2
<1>3. OwnPorts'
  BY Ports DEF OwnPorts
<1>4. Addressed'
  BY DEF Addressed
<1>5. NoOrphanTransport'
  <2> SUFFICES ASSUME NEW p \in UdpPorts, NEW q \in Programs,
                      NEW s \in Streams(q), owner'[p] = s
               PROVE  stream'[s] # "null" \/ At(q, "create", s)'
    BY DEF NoOrphanTransport
  <2>0. s \in Ids
    BY OwnStreams, IdsAssumption DEF Own, Programs, Encoders, Decoders
  <2>1. owner[p] = s /\ s \notin Streams(r)
    BY <2>0, Ports
  <2>2. q # r
    BY <2>1
  <2>3. stream'[s] = stream[s] /\ pc'[q] = pc[q]
    BY <2>0, <2>1, <2>2 DEF Types
  <2>4. stream[s] # "null" \/ At(q, "create", s)
    BY <2>1 DEF NoOrphanTransport
  <2> QED BY <2>3, <2>4 DEF At
<1>6. NoCrosstalk'
  BY DEF NoCrosstalk
<1> QED BY <1>1, <1>2, <1>3, <1>4, <1>5, <1>6

(* A program that goes on from anything but a creation orphans no port.    *)
LEMMA AdvanceKeepsOwners ==
    ASSUME IInv, NEW r \in Programs, NEW op, NEW x, At(r, op, x),
           op # "create", pc' = [pc EXCEPT ![r] = @ + 1], owner' = owner,
           \A s \in Ids : stream[s] # "null" => stream'[s] # "null"
    PROVE  NoOrphanTransport'
<1> SUFFICES ASSUME NEW p \in UdpPorts, NEW q \in Programs,
                    NEW s \in Streams(q), owner[p] = s
             PROVE  stream'[s] # "null" \/ At(q, "create", s)'
  BY DEF NoOrphanTransport
<1>1. s \in Ids
  BY OwnStreams, IdsAssumption DEF Own, Programs, Encoders, Decoders
<1>2. stream[s] # "null" \/ At(q, "create", s)
  BY DEF IInv, NoOrphanTransport
<1>3. CASE stream[s] # "null"
  BY <1>1, <1>3
<1>4. CASE At(q, "create", s)
  <2>1. q # r
    BY <1>4, AtOne
  <2>2. pc'[q] = pc[q]
    BY <2>1 DEF IInv, Types
  <2> QED BY <1>4, <2>2 DEF At
<1> QED BY <1>2, <1>3, <1>4

(* A step counts on. *)
LEMMA CountsOn ==
    ASSUME Types, NEW r \in Programs, pc' = [pc EXCEPT ![r] = @ + 1]
    PROVE  pc' \in [Programs -> Int]
<1>1. pc \in [Programs -> Int]
  BY Zenon DEF Types
<1> QED BY <1>1

(* The steps of a program that touch neither its ports nor its streams.    *)
LEMMA BridgeStepKeeps ==
    ASSUME IInv, NEW r \in Programs, NEW s \in Ids,
           \/ Add(r, s) \/ Connect(r, s) \/ StartClock(r, s)
           \/ OpenDevice(r, s) \/ StartStream(r, s)
    PROVE  IInv'
<1> USE DEF IInv, Advance, Bridge, Output, rtpVars
<1>1. CASE Add(r, s)
  <2> USE DEF Add
  <2>1. s \in Encoders
    BY <1>1, AddsEncoders
  <2>2. /\ conf' \in [Programs -> Seq(Encoders)]
        /\ \A q \in Programs : Len(conf[q]) <= Len(conf'[q])
    <3>1. \A q \in Programs : Len(conf[q]) \in Nat
      BY DEF Types
    <3>2. CASE conf' = conf
      BY <3>1, <3>2 DEF Types
    <3>3. CASE conf' = [conf EXCEPT ![r] = Append(@, s)]
      BY <2>1, <3>1, <3>3 DEF Types
    <3>4. conf' = conf \/ conf' = [conf EXCEPT ![r] = Append(@, s)]
      BY <1>1
    <3> HIDE DEF Add
    <3> QED BY <3>2, <3>3, <3>4, Zenon
  <2>3. Types'
    <3>1. pc' = [pc EXCEPT ![r] = @ + 1]
      BY <1>1, Zenon
    <3>2. UNCHANGED <<routes, device, heard, owner, stream, wire>>
      BY <1>1, Zenon
    <3>3. pc' \in [Programs -> Int]
      BY <3>1, CountsOn, Zenon
    <3> QED BY <2>2, <3>2, <3>3, Zenon DEF Types, RtpTypeOK
  <2>4. RoutesInUse'
    <3> SUFFICES ASSUME NEW q \in Programs, NEW m \in routes[q]
                 PROVE  m \in 0..Len(conf'[q])
      BY <1>1 DEF RoutesInUse
    <3>1. m \in 0..Len(conf[q])
      BY DEF RoutesInUse
    <3>2. Len(conf[q]) \in Nat /\ Len(conf'[q]) \in Nat
      BY <2>2 DEF Types
    <3> QED BY <2>2, <3>1, <3>2
  <2>5. OwnPorts' /\ Addressed' /\ NoCrosstalk'
    BY <1>1 DEF OwnPorts, Addressed, NoCrosstalk
  <2>6. NoOrphanTransport'
    BY <1>1, AdvanceKeepsOwners
  <2> QED BY <2>3, <2>4, <2>5, <2>6
<1>2. CASE Connect(r, s)
  <2> USE DEF Connect
  <2>1. PICK m \in Slot(r, s) :
            routes' = [routes EXCEPT ![r] = @ \cup ({m} \cap 0..Len(conf[r]))]
    BY <1>2
  <2>2. routes' \in [Programs -> SUBSET Int] /\ RoutesInUse'
    BY <1>2, <2>1 DEF Types, RoutesInUse
  <2>3. Types'
    BY <1>2, <2>2 DEF Types, RtpTypeOK
  <2>4. OwnPorts' /\ Addressed' /\ NoCrosstalk'
    BY <1>2 DEF OwnPorts, Addressed, NoCrosstalk
  <2>5. NoOrphanTransport'
    BY <1>2, AdvanceKeepsOwners
  <2> QED BY <2>2, <2>3, <2>4, <2>5
<1>3. CASE StartClock(r, s)
  <2> USE DEF StartClock
  <2>1. Types' /\ RoutesInUse'
    BY <1>3 DEF Types, RtpTypeOK, RoutesInUse
  <2>2. OwnPorts' /\ Addressed' /\ NoCrosstalk'
    BY <1>3 DEF OwnPorts, Addressed, NoCrosstalk
  <2>3. NoOrphanTransport'
    BY <1>3, AdvanceKeepsOwners
  <2> QED BY <2>1, <2>2, <2>3
<1>4. CASE OpenDevice(r, s)
  <2> USE DEF OpenDevice
  <2>2. device' \subseteq Decoders
    BY <1>4, DevicesDecode DEF Types
  <2>3. Types' /\ RoutesInUse'
    BY <1>4, <2>2 DEF Types, RtpTypeOK, RoutesInUse
  <2>4. OwnPorts' /\ Addressed' /\ NoCrosstalk'
    BY <1>4 DEF OwnPorts, Addressed, NoCrosstalk
  <2>5. NoOrphanTransport'
    BY <1>4, AdvanceKeepsOwners
  <2> QED BY <2>3, <2>4, <2>5
<1>5. CASE StartStream(r, s)
  <2> USE DEF StartStream, Start
  <2>1. Types' /\ RoutesInUse'
    BY <1>5 DEF Types, RtpTypeOK, RoutesInUse
  <2>2. OwnPorts' /\ Addressed' /\ NoCrosstalk'
    BY <1>5 DEF OwnPorts, Addressed, NoCrosstalk
  <2>3. \A z \in Ids : stream[z] # "null" => stream'[z] # "null"
    BY <1>5 DEF Types, RtpTypeOK
  <2>4. NoOrphanTransport'
    BY <1>5, <2>3, AdvanceKeepsOwners
  <2> QED BY <2>1, <2>2, <2>4
<1> QED BY <1>1, <1>2, <1>3, <1>4, <1>5

(* create_stream(), its first call ...                                     *)
LEMMA TransportKeeps ==
    ASSUME IInv, NEW r \in Programs, NEW s \in Ids, CreateTransport(r, s)
    PROVE  IInv'
<1> USE DEF IInv, Bridge, Output, rtpVars
<1>1. At(r, "create", s) /\ owner[Local(s)] # s
  BY DEF CreateTransport
<1>2. UNCHANGED <<conf, routes, device, heard, stream, wire>>
  BY DEF CreateTransport, Bind, BindRefused
<1>3. RoutesInUse' /\ Addressed' /\ NoCrosstalk'
  BY <1>2 DEF RoutesInUse, Addressed, NoCrosstalk
<1>4. CASE Bind(s, Local(s)) /\ UNCHANGED <<session, pc, kills>>
  <2>1. owner' = [owner EXCEPT ![Local(s)] = s] /\ pc' = pc
    BY <1>4 DEF Bind
  <2>2. Types' /\ OwnPorts'
    BY <1>2, <2>1, Ports DEF Types, RtpTypeOK, OwnPorts
  <2>3. NoOrphanTransport'
    <3> SUFFICES ASSUME NEW p \in UdpPorts, NEW q \in Programs,
                        NEW z \in Streams(q), owner'[p] = z
                 PROVE  stream'[z] # "null" \/ At(q, "create", z)'
      BY DEF NoOrphanTransport
    <3>1. CASE p = Local(s)
      <4>1. z = s
        BY <2>1, <3>1 DEF Types, RtpTypeOK
      <4>2. q = r
        BY <1>1, <4>1, AtOwn, StreamsDisjoint
      <4> QED BY <1>1, <2>1, <4>1, <4>2 DEF At
    <3>2. CASE p # Local(s)
      <4>1. owner[p] = z
        BY <2>1, <3>2 DEF Types, RtpTypeOK
      <4>2. stream[z] # "null" \/ At(q, "create", z)
        BY <4>1 DEF NoOrphanTransport
      <4> QED BY <1>2, <2>1, <4>2 DEF At
    <3> QED BY <3>1, <3>2
  <2> QED BY <1>3, <2>2, <2>3
<1>5. CASE BindRefused(Local(s)) /\ Advance(r)
  <2>1. owner' = owner /\ pc' = [pc EXCEPT ![r] = @ + 1]
    BY <1>5 DEF BindRefused, Advance
  <2>2. Types' /\ OwnPorts'
    BY <1>2, <2>1 DEF Types, RtpTypeOK, OwnPorts
  <2>3. NoOrphanTransport'
    <3> SUFFICES ASSUME NEW p \in UdpPorts, NEW q \in Programs,
                        NEW z \in Streams(q), owner[p] = z
                 PROVE  stream[z] # "null" \/ At(q, "create", z)'
      BY <1>2, <2>1 DEF NoOrphanTransport
    <3>1. z \in Ids
      BY OwnStreams, IdsAssumption DEF Own, Programs, Encoders, Decoders
    <3>2. p = Local(z)
      BY <3>1 DEF OwnPorts
    <3>3. stream[z] # "null" \/ At(q, "create", z)
      BY DEF NoOrphanTransport
    <3>4. CASE q = r
      <4>1. ~At(q, "create", z)
        BY <1>1, <3>2, <3>4, AtOne
      <4> QED BY <3>3, <4>1
    <3>5. CASE q # r
      <4>1. pc'[q] = pc[q]
        BY <2>1, <3>5 DEF Types
      <4> QED BY <3>3, <4>1 DEF At
    <3> QED BY <3>4, <3>5
  <2> QED BY <1>3, <2>2, <2>3
<1> QED BY <1>4, <1>5 DEF CreateTransport

(* ... and its second.                                                     *)
LEMMA StreamKeeps ==
    ASSUME IInv, NEW r \in Programs, NEW s \in Ids, CreateStream(r, s)
    PROVE  IInv'
<1> USE DEF IInv, Bridge, Output, rtpVars
<1>1. /\ At(r, "create", s)
      /\ pc' = [pc EXCEPT ![r] = @ + 1]
      /\ UNCHANGED <<conf, routes, device, heard, wire>>
  BY DEF CreateStream, Make, MakeFails, Advance
<1>2. RoutesInUse' /\ Addressed' /\ NoCrosstalk'
  BY <1>1 DEF RoutesInUse, Addressed, NoCrosstalk
<1>3. \/ owner' = owner /\ stream' = [stream EXCEPT ![s] = "paused"]
      \/ /\ owner' = [p \in UdpPorts |-> IF owner[p] = s THEN "free"
                                         ELSE owner[p]]
         /\ stream' = stream
  BY DEF CreateStream, Make, MakeFails
<1>4. Types' /\ OwnPorts'
  BY <1>1, <1>3, Ports DEF Types, RtpTypeOK, OwnPorts
<1>5. NoOrphanTransport'
  <2> SUFFICES ASSUME NEW p \in UdpPorts, NEW q \in Programs,
                      NEW z \in Streams(q), owner'[p] = z
               PROVE  stream'[z] # "null" \/ At(q, "create", z)'
    BY DEF NoOrphanTransport
  <2>1. z \in Ids
    BY OwnStreams, IdsAssumption DEF Own, Programs, Encoders, Decoders
  <2>2. owner[p] = z
    BY <1>3, <2>1, Ports
  <2>3. stream[z] # "null" \/ At(q, "create", z)
    BY <2>2 DEF NoOrphanTransport
  <2>4. CASE z = s
    <3>1. stream'[s] = "paused"
      BY <1>3, <2>1, <2>2, <2>4, Ports DEF Types, RtpTypeOK
    <3> QED BY <2>4, <3>1
  <2>5. CASE z # s
    <3>1. stream'[z] = stream[z]
      BY <1>3, <2>1, <2>5 DEF Types, RtpTypeOK
    <3>2. CASE q = r
      BY <1>1, <2>3, <2>5, <3>1, <3>2, AtOne
    <3>3. CASE q # r
      <4>1. pc'[q] = pc[q]
        BY <1>1, <3>3 DEF Types
      <4> QED BY <2>3, <3>1, <4>1 DEF At
    <3> QED BY <3>2, <3>3
  <2> QED BY <2>4, <2>5
<1> QED BY <1>2, <1>4, <1>5

-----------------------------------------------------------------------------
(* The clocks, the network and the devices.                                *)
LEMMA WireKeeps ==
    ASSUME IInv, wire' \subseteq wire, wire' \in SUBSET Packets,
           UNCHANGED <<pc, conf, routes, device, heard, owner, stream>>
    PROVE  IInv'
<1> USE DEF IInv
<1>1. Types'
  BY DEF Types, RtpTypeOK
<1>2. RoutesInUse' /\ OwnPorts' /\ NoCrosstalk'
  BY DEF RoutesInUse, OwnPorts, NoCrosstalk
<1>3. Addressed'
  BY DEF Addressed
<1>4. NoOrphanTransport'
  BY DEF NoOrphanTransport, At
<1> QED BY <1>1, <1>2, <1>3, <1>4

LEMMA TickKeeps == ASSUME IInv, NEW r \in Programs, Tick(r) PROVE IInv'
<1> USE DEF IInv, Tick, Send, own, Bridge, Output
<1> DEFINE fed == {conf[r][slot] : slot \in routes[r] \ {0}}
           sent == {[to |-> Remote[s], from |-> s] :
                        s \in {x \in fed : stream[x] = "started"}}
<1>1. fed \subseteq Encoders
  <2> SUFFICES ASSUME NEW slot \in routes[r] \ {0}
               PROVE  conf[r][slot] \in Encoders
    OBVIOUS
  <2>1. slot \in 0..Len(conf[r]) /\ slot # 0
    BY DEF RoutesInUse
  <2>2. conf[r] \in Seq(Encoders) /\ Len(conf[r]) \in Nat
    BY DEF Types
  <2>3. slot \in 1..Len(conf[r])
    BY <2>1, <2>2
  <2> QED BY <2>2, <2>3
<1>2. wire' = wire \cup sent
  OBVIOUS
<1> HIDE DEF fed
<1>3. \A pkt \in sent : /\ pkt \in Packets
                        /\ pkt.from \in Encoders
                        /\ pkt.to = Remote[pkt.from]
  BY <1>1, Ports DEF Packets
<1> HIDE DEF sent
<1>4. Types'
  BY <1>2, <1>3 DEF Types, RtpTypeOK
<1>5. RoutesInUse' /\ OwnPorts' /\ NoCrosstalk'
  BY DEF RoutesInUse, OwnPorts, NoCrosstalk
<1>6. Addressed'
  BY <1>2, <1>3 DEF Addressed
<1>7. NoOrphanTransport'
  BY DEF NoOrphanTransport, At
<1> QED BY <1>4, <1>5, <1>6, <1>7

(* The packet a stream plays was sent to the port the stream has bound,    *)
(* and the ports of the first streams are not those of the second ones.    *)
LEMMA PlayKeeps == ASSUME IInv, NEW d \in Decoders, Play(d) PROVE IInv'
<1> USE DEF IInv, Bridge
<1>1. PICK pkt \in wire :
          /\ Receives(d, pkt)
          /\ heard' = [heard EXCEPT ![d] = @ \cup {pkt.from}]
  BY DEF Play
<1>2. UNCHANGED <<pc, conf, routes, device, owner, stream>>
  BY <1>1 DEF Play, Receives
<1>3. wire' \subseteq wire
  BY <1>1 DEF Receives
<1>4. /\ pkt \in Packets /\ pkt.from \in Encoders
      /\ pkt.to = Remote[pkt.from] /\ pkt.to = Local(d)
  BY <1>1, Ports DEF Types, RtpTypeOK, Receives, Addressed, OwnPorts, Packets
<1>5. pkt.from \in Ids
  BY <1>4, Ports
<1>6. pkt.from \in (IF d \in First THEN First ELSE Ids \ First)
  <2>1. Remote[pkt.from] = Local(d)
    BY <1>4
  <2>2. pkt.from \in {"s2", "i2", "t2"} <=> d \in {"r2", "e2"}
    <3>1. Remote[pkt.from] =
              IF pkt.from \in {"s2", "i2", "t2"} THEN 6072 ELSE 6070
      BY <1>4 DEF Remote
    <3>2. Local(d) = IF d \in {"r2", "e2"} THEN 6072 ELSE 6070
      BY DEF Local, Decoders
    <3> HIDE DEF IInv, Bridge
    <3>3. CASE d \in {"r2", "e2"}
      <4>1. Remote[pkt.from] = 6072
        BY <2>1, <3>2, <3>3
      <4> QED BY <3>1, <3>3, <4>1
    <3>4. CASE d \notin {"r2", "e2"}
      <4>1. Remote[pkt.from] = 6070
        BY <2>1, <3>2, <3>4
      <4> QED BY <3>1, <3>4, <4>1
    <3> QED BY <3>3, <3>4
  <2>3. pkt.from \in First <=> pkt.from \notin {"s2", "i2", "t2"}
    BY <1>4 DEF First, Encoders
  <2>4. d \in First <=> d \notin {"r2", "e2"}
    BY DEF First, Decoders
  <2> QED BY <1>5, <2>2, <2>3, <2>4
<1>7. Types'
  BY <1>1, <1>2, <1>3, <1>5 DEF Types, RtpTypeOK
<1>8. RoutesInUse' /\ OwnPorts'
  BY <1>2 DEF RoutesInUse, OwnPorts
<1>9. Addressed'
  BY <1>3 DEF Addressed
<1>10. NoOrphanTransport'
  BY <1>2 DEF NoOrphanTransport, At
<1>11. NoCrosstalk'
  <2> SUFFICES ASSUME NEW e \in Decoders
               PROVE  heard'[e] \subseteq
                          (IF e \in First THEN First ELSE Ids \ First)
    BY DEF NoCrosstalk
  <2>1. CASE e = d
    <3>1. heard'[e] = heard[d] \cup {pkt.from}
      BY <1>1, <2>1 DEF Types
    <3> QED BY <1>6, <2>1, <3>1 DEF NoCrosstalk
  <2>2. CASE e # d
    <3>1. heard'[e] = heard[e]
      BY <1>1, <2>2 DEF Types
    <3> QED BY <3>1 DEF NoCrosstalk
  <2> QED BY <2>1, <2>2
<1> QED BY <1>7, <1>8, <1>9, <1>10, <1>11

LEMMA StepKeeps == IInv /\ [Next]_vars => IInv'
<1> SUFFICES ASSUME IInv, [Next]_vars PROVE IInv'
  OBVIOUS
<1>1. ASSUME NEW r \in Programs, Main(r) PROVE IInv'
  <2> PICK s \in Ids :
          \/ CreateTransport(r, s) \/ CreateStream(r, s) \/ Add(r, s)
          \/ Connect(r, s) \/ StartClock(r, s) \/ StartCheckedClock(r, s)
          \/ OpenDevice(r, s) \/ StartStream(r, s) \/ JoinUnset(r, s)
    BY <1>1 DEF Main
  <2>1. CASE CreateTransport(r, s)
    BY <2>1, TransportKeeps
  <2>2. CASE CreateStream(r, s)
    BY <2>2, StreamKeeps
  <2>3. CASE Add(r, s) \/ Connect(r, s) \/ StartClock(r, s)
             \/ OpenDevice(r, s) \/ StartStream(r, s)
    BY <2>3, BridgeStepKeeps
  <2>4. CASE StartCheckedClock(r, s) \/ JoinUnset(r, s)
    <3>1. CASE Leaves(r, 0)
      BY <3>1, LeavesKeeps
    <3>2. CASE ~Leaves(r, 0)
      <4>1. /\ Advance(r)
            /\ UNCHANGED <<conf, routes, device, heard, rtpVars>>
        BY <2>4, <3>2 DEF StartCheckedClock, JoinUnset, Bridge, Output
      <4>2. \E op : op # "create" /\ At(r, op, s)
        BY <2>4 DEF StartCheckedClock, JoinUnset
      <4>3. NoOrphanTransport'
        BY <4>1, <4>2, AdvanceKeepsOwners DEF Advance, rtpVars
      <4>4. Types'
        BY <4>1 DEF IInv, Types, RtpTypeOK, Advance, rtpVars
      <4>5. RoutesInUse' /\ OwnPorts' /\ Addressed' /\ NoCrosstalk'
        BY <4>1 DEF IInv, RoutesInUse, OwnPorts, Addressed, NoCrosstalk,
                    rtpVars
      <4> QED BY <4>3, <4>4, <4>5 DEF IInv
    <3> QED BY <3>1, <3>2
  <2> QED BY <2>1, <2>2, <2>3, <2>4
<1>2. ASSUME NEW r \in Programs, Tick(r) PROVE IInv'
  BY <1>2, TickKeeps
<1>3. ASSUME NEW r \in Programs, Kill(r) PROVE IInv'
  BY <1>3, LeavesKeeps DEF Kill
<1>4. ASSUME NEW d \in Decoders, Play(d) PROVE IInv'
  BY <1>4, PlayKeeps
<1>5. CASE Loss
  <2>1. wire' \subseteq wire
    BY <1>5 DEF Loss, Lose
  <2>2. UNCHANGED <<pc, conf, routes, device, heard, owner, stream>>
    BY <1>5 DEF Loss, Lose, own, Bridge, Output
  <2>3. wire' \in SUBSET Packets
    BY <2>1 DEF IInv, Types, RtpTypeOK
  <2> QED BY <2>1, <2>2, <2>3, WireKeeps
<1>6. CASE Sleep \/ UNCHANGED vars
  <2>1. UNCHANGED <<pc, conf, routes, device, heard, owner, stream, wire>>
    BY <1>6 DEF Sleep, vars, own, Bridge, Output, rtpVars
  <2>2. wire' \in SUBSET Packets
    BY <2>1 DEF IInv, Types, RtpTypeOK
  <2> QED BY <2>1, <2>2, WireKeeps
<1> QED BY <1>1, <1>2, <1>3, <1>4, <1>5, <1>6 DEF Next

(* The inductive invariant: who owns a port, where a packet goes and what  *)
(* a bridge feeds, for every set of programs and any number of kills.      *)
THEOREM Inductive == Spec => []IInv
<1> QED BY Initially, StepKeeps, PTL DEF Spec

(* No player plays the other player's sound.                               *)
THEOREM CrosstalkTheorem == Spec => []NoCrosstalk
<1>1. IInv => NoCrosstalk
  BY DEF IInv
<1> QED BY <1>1, Inductive, PTL

(* No port is kept by a transport that has no stream.                      *)
THEOREM OrphanTheorem == Spec => []NoOrphanTransport
<1>1. IInv => NoOrphanTransport
  BY DEF IInv
<1> QED BY <1>1, Inductive, PTL

-----------------------------------------------------------------------------
(* The rest of the type invariant: where a program can be, and that its    *)
(* bridge never holds more than its two streams.                           *)
AddsAt(r, k) == k \in DOMAIN Steps(r) /\ Steps(r)[k][1] = "add"

(* As many slots as the program has made calls for, at most: with a call   *)
(* to come there is one at most, with two there is none.                   *)
InSlots(r) ==
    /\ Len(conf[r]) <= 2
    /\ \A j : AddsAt(r, j) /\ j >= pc[r] =>
          /\ Len(conf[r]) <= 1
          /\ \A k : AddsAt(r, k) /\ k > j => Len(conf[r]) = 0

Shape ==
    /\ session \in Sessions /\ clock \subseteq Programs
    /\ kills \in 0..MaxKills
    /\ \A r \in Programs : pc[r] \in 0..(Len(Steps(r)) + 1) /\ InSlots(r)

LEMMA StepsTexts ==
    ASSUME NEW r \in Programs
    PROVE  /\ Len(Steps(r)) \in Nat /\ DOMAIN Steps(r) = 1..Len(Steps(r))
           /\ ~ \E i, j, k : /\ AddsAt(r, i) /\ AddsAt(r, j) /\ AddsAt(r, k)
                             /\ i < j /\ j < k
<1> USE DEF AddsAt
<1>1. CASE r = "sender"
  <2>1. Steps(r) = SenderSteps
    BY <1>1 DEF Steps
  <2> QED BY <2>1, SMTT(30) DEF SenderSteps
<1>2. CASE r = "receiver"
  <2>1. Steps(r) = ReceiverSteps
    BY <1>2 DEF Steps
  <2> QED BY <2>1, SMTT(30) DEF ReceiverSteps
<1>3. CASE r = "internal"
  <2>1. Steps(r) = InternalSteps
    BY <1>3 DEF Steps
  <2> QED BY <2>1, SMTT(30) DEF InternalSteps
<1>4. CASE r = "same"
  <2>1. Steps(r) = SameSteps
    BY <1>4 DEF Steps
  <2> QED BY <2>1, SMTT(30) DEF SameSteps
<1>5. CASE r = "threads"
  <2>1. Steps(r) = ThreadsSteps
    BY <1>5 DEF Steps
  <2> QED BY <2>1, SMTT(30) DEF ThreadsSteps
<1> QED BY <1>1, <1>2, <1>3, <1>4, <1>5 DEF Programs

(* A program moves on by one step, with a stream added or not ...          *)
LEMMA AdvanceShapes ==
    ASSUME IInv, Shape, NEW r \in Programs, NEW op, NEW s, At(r, op, s),
           Advance(r),
           \/ conf' = conf
           \/ op = "add" /\ conf' = [conf EXCEPT ![r] = Append(@, s)],
           clock' \subseteq Programs
    PROVE  Shape'
<1>1. /\ pc' = [pc EXCEPT ![r] = @ + 1] /\ session' = session
      /\ kills' = kills
  BY DEF Advance
<1>2. /\ pc[r] \in 1..Len(Steps(r)) /\ pc'[r] = pc[r] + 1
      /\ Len(Steps(r)) \in Nat
  BY <1>1, StepsTexts DEF At, IInv, Types
<1>3. Len(conf[r]) \in Nat
  BY DEF IInv, Types
<1>4. InSlots(r)'
  <2>1. ASSUME NEW j, AddsAt(r, j), j >= pc'[r] PROVE j >= pc[r] /\ j > pc[r]
    BY <1>2, <2>1, StepsTexts DEF AddsAt
  <2>2. CASE conf' = conf
    BY <2>1, <2>2 DEF InSlots, Shape
  <2>3. CASE op = "add" /\ conf' = [conf EXCEPT ![r] = Append(@, s)]
    <3>1. Len(conf'[r]) = Len(conf[r]) + 1
      BY <2>3 DEF IInv, Types
    <3>2. AddsAt(r, pc[r])
      BY <2>3 DEF At, AddsAt
    <3>3. pc[r] >= pc[r]
      BY <1>2
    <3>4. /\ Len(conf[r]) <= 1
          /\ \A k : AddsAt(r, k) /\ k > pc[r] => Len(conf[r]) = 0
      BY <3>2, <3>3 DEF Shape, InSlots
    <3>5. ASSUME NEW j, AddsAt(r, j), j >= pc'[r]
          PROVE  /\ Len(conf'[r]) <= 1
                 /\ \A k : ~(AddsAt(r, k) /\ k > j)
      <4>1. Len(conf[r]) = 0
        BY <2>1, <3>4, <3>5
      <4>2. ASSUME NEW k, AddsAt(r, k), k > j PROVE FALSE
        <5>1. pc[r] < j /\ j < k
          BY <1>2, <2>1, <3>5, <4>2, StepsTexts DEF AddsAt
        <5> QED BY <3>2, <3>5, <4>2, <5>1, StepsTexts
      <4> QED BY <3>1, <4>1, <4>2
    <3>6. Len(conf'[r]) <= 2
      BY <1>3, <3>1, <3>4
    <3> QED BY <3>5, <3>6, Zenon DEF InSlots, AddsAt
  <2> QED BY <2>2, <2>3
<1>5. ASSUME NEW q \in Programs, q # r
      PROVE  pc'[q] = pc[q] /\ InSlots(q)'
  <2>1. pc'[q] = pc[q] /\ conf'[q] = conf[q]
    BY <1>1, <1>5 DEF IInv, Types
  <2> QED BY <2>1, Zenon DEF Shape, InSlots, AddsAt
<1>6. ASSUME NEW q \in Programs
      PROVE  pc'[q] \in 0..(Len(Steps(q)) + 1) /\ InSlots(q)'
  <2>1. CASE q = r
    BY <1>2, <1>4, <2>1
  <2>2. CASE q # r
    BY <1>5, <2>2 DEF Shape
  <2> QED BY <2>1, <2>2
<1> QED BY <1>1, <1>6, Zenon DEF Shape, Steps

(* ... or leaves, and its bridge is empty.                                 *)
LEMMA LeavesShapes ==
    ASSUME IInv, Shape, NEW r \in Programs, NEW n \in {0, 1}, Leaves(r, n),
           kills' \in 0..MaxKills
    PROVE  Shape'
<1>1. /\ pc' = [pc EXCEPT ![r] = n] /\ conf' = [conf EXCEPT ![r] = <<>>]
      /\ session' = session /\ clock' \subseteq clock
  BY DEF Leaves
<1>2. ASSUME NEW q \in Programs
      PROVE  pc'[q] \in 0..(Len(Steps(q)) + 1) /\ InSlots(q)'
  <2>1. CASE q = r
    <3>1. pc'[q] = n /\ conf'[q] = <<>>
      BY <1>1, <2>1 DEF IInv, Types
    <3>2. n \in 0..(Len(Steps(q)) + 1)
      BY StepsTexts
    <3> QED BY <3>1, <3>2 DEF InSlots
  <2>2. CASE q # r
    <3>1. pc'[q] = pc[q] /\ conf'[q] = conf[q]
      BY <1>1, <2>2 DEF IInv, Types
    <3> QED BY <3>1, Zenon DEF Shape, InSlots, AddsAt
  <2> QED BY <2>1, <2>2
<1> QED BY <1>1, <1>2 DEF Shape

LEMMA StepShapes == IInv /\ Shape /\ [Next]_vars => Shape'
<1> SUFFICES ASSUME IInv, Shape, [Next]_vars PROVE Shape'
  OBVIOUS
<1> USE DEF Bridge, Output, rtpVars
<1>1. ASSUME NEW r \in Programs, Main(r) PROVE Shape'
  <2> PICK s \in Ids :
          \/ CreateTransport(r, s) \/ CreateStream(r, s) \/ Add(r, s)
          \/ Connect(r, s) \/ StartClock(r, s) \/ StartCheckedClock(r, s)
          \/ OpenDevice(r, s) \/ StartStream(r, s) \/ JoinUnset(r, s)
    BY <1>1 DEF Main
  <2> clock \subseteq Programs /\ clock \cup {r} \subseteq Programs
    BY DEF Shape
  <2>1. CASE CreateTransport(r, s) /\ ~Advance(r)
    <3>1. UNCHANGED <<session, pc, kills, conf, clock>>
      BY <2>1 DEF CreateTransport
    <3> QED BY <3>1, Zenon DEF Shape, InSlots, AddsAt
  <2>2. CASE (\/ CreateTransport(r, s) \/ CreateStream(r, s)
              \/ Connect(r, s) \/ OpenDevice(r, s) \/ StartStream(r, s)
              \/ JoinUnset(r, s)) /\ Advance(r)
    <3>1. \/ conf' = conf /\ clock' = clock
          \/ Leaves(r, 0) /\ kills' = kills
      BY <2>2 DEF CreateTransport, CreateStream, Connect, OpenDevice,
                  StartStream, JoinUnset
    <3>2. \E op : At(r, op, s)
      BY <2>2 DEF CreateTransport, CreateStream, Connect, OpenDevice,
                  StartStream, JoinUnset
    <3>3. CASE conf' = conf /\ clock' = clock
      BY <2>2, <3>2, <3>3, AdvanceShapes
    <3>4. CASE Leaves(r, 0) /\ kills' = kills
      BY <3>4, LeavesShapes DEF Shape
    <3> QED BY <3>1, <3>3, <3>4
  <2>3. CASE Add(r, s)
    <3>1. conf' = conf \/ conf' = [conf EXCEPT ![r] = Append(@, s)]
      BY <2>3 DEF Add
    <3> QED BY <2>3, <3>1, AdvanceShapes DEF Add
  <2>4. CASE StartClock(r, s)
    BY <2>4, AdvanceShapes DEF StartClock
  <2>5. CASE StartCheckedClock(r, s) /\ Advance(r)
    <3>1. CASE conf' = conf /\ clock' = clock \cup {r}
      BY <2>5, <3>1, AdvanceShapes DEF StartCheckedClock
    <3>2. CASE Leaves(r, 0) /\ kills' = kills
      BY <3>2, LeavesShapes DEF Shape
    <3> QED BY <2>5, <3>1, <3>2 DEF StartCheckedClock
  <2>6. CASE Leaves(r, 0) /\ kills' = kills
    BY <2>6, LeavesShapes DEF Shape
  <2> QED
    BY <2>1, <2>2, <2>3, <2>4, <2>5, <2>6
    DEF CreateTransport, CreateStream, Connect, OpenDevice, StartStream,
        JoinUnset, StartCheckedClock
<1>2. ASSUME NEW r \in Programs, Kill(r) PROVE Shape'
  <2>1. kills' \in 0..MaxKills /\ Leaves(r, 1)
    BY <1>2, MaxKillsAssumption DEF Kill, Shape
  <2> QED BY <2>1, LeavesShapes
<1>3. CASE UNCHANGED <<session, pc, conf, clock, kills>>
  BY <1>3, Zenon DEF Shape, InSlots, AddsAt
<1>4. ASSUME NEW r \in Programs, Tick(r)
      PROVE  UNCHANGED <<session, pc, conf, clock, kills>>
  BY <1>4 DEF Tick, own
<1>5. ASSUME NEW d \in Decoders, Play(d)
      PROVE  UNCHANGED <<session, pc, conf, clock, kills>>
  BY <1>5 DEF Play
<1>6. CASE Loss \/ Sleep \/ UNCHANGED vars
  BY <1>3, <1>6 DEF Loss, Sleep, vars, own
<1> QED BY <1>1, <1>2, <1>3, <1>4, <1>5, <1>6 DEF Next

LEMMA InitialShape == Init => Shape
<1> SUFFICES ASSUME Init PROVE Shape
  OBVIOUS
<1>1. ASSUME NEW r \in Programs
      PROVE  pc[r] \in 0..(Len(Steps(r)) + 1) /\ InSlots(r)
  <2>1. conf[r] = <<>> /\ pc[r] \in {0, 1}
    BY DEF Init
  <2> QED BY <2>1, StepsTexts DEF InSlots
<1> QED BY <1>1, MaxKillsAssumption DEF Init, Shape

(* Every variable keeps its shape; no bridge is ever given a third stream, *)
(* however often its program is run again.                                 *)
THEOREM TypeTheorem == Spec => []TypeOK
<1>1. IInv /\ Shape => TypeOK
  <2> SUFFICES ASSUME IInv, Shape PROVE TypeOK
    OBVIOUS
  <2>1. ASSUME NEW r \in Programs
        PROVE  /\ \E m \in 0..2 : conf[r] \in [1..m -> Encoders]
               /\ routes[r] \subseteq 0..Len(conf[r])
    <3>1. conf[r] \in Seq(Encoders) /\ Len(conf[r]) <= 2
      BY DEF IInv, Types, Shape, InSlots
    <3>2. Len(conf[r]) \in 0..2
      <4>1. Len(conf[r]) \in Nat
        BY <3>1, LenProperties
      <4>2. \A n \in Nat : n <= 2 => n \in 0..2
        OBVIOUS
      <4> QED BY <3>1, <4>1, <4>2, Zenon
    <3>3. conf[r] \in [1..Len(conf[r]) -> Encoders]
      BY <3>1, LenProperties
    <3> QED BY <3>2, <3>3 DEF IInv, RoutesInUse
  <2> QED BY <2>1, Zenon DEF IInv, Types, Shape, TypeOK
<1> QED BY <1>1, Inductive, InitialShape, StepShapes, PTL DEF Spec
=============================================================================
