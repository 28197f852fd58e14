----------------------------- MODULE RtpStream -----------------------------
(***************************************************************************)
(* RTP streams over UDP transports, and create_stream(), which the test    *)
(* programs share word for word: it binds a local port, makes a stream on  *)
(* it, and closes the transport again when the stream cannot be made.  A   *)
(* stream is born paused: it sends and plays nothing until it is started.  *)
(* The network may lose, duplicate and reorder packets.                    *)
(***************************************************************************)
CONSTANTS
    Ids,        \* the streams
    UdpPorts    \* the local ports (each stands for its RTP/RTCP pair)

VARIABLES
    owner,   \* the stream whose transport has bound each port, or
             \* "free", or "other" for another program
    stream,  \* "null", "paused" or "started"
    wire     \* the packets under way: the port they go to, the stream
             \* they come from

rtpVars == <<owner, stream, wire>>

Packets == [to : UdpPorts, from : Ids]

RtpInit ==
    /\ owner \in [UdpPorts -> {"free", "other"}]
    /\ stream = [s \in Ids |-> "null"]
    /\ wire = {}

RtpTypeOK ==
    /\ owner \in [UdpPorts -> {"free", "other"} \cup Ids]
    /\ stream \in [Ids -> {"null", "paused", "started"}]
    /\ wire \subseteq Packets

(* pjmedia_transport_udp_create, in its two outcomes. *)
Bind(s, p) ==
    /\ owner[p] = "free"
    /\ owner' = [owner EXCEPT ![p] = s]
    /\ UNCHANGED <<stream, wire>>

BindRefused(p) == owner[p] # "free" /\ UNCHANGED rtpVars

(* pjmedia_stream_create. *)
Make(s) ==
    /\ stream' = [stream EXCEPT ![s] = "paused"]
    /\ UNCHANGED <<owner, wire>>

(* A slip: the transport stays open. *)
MakeFailsOpen(s) == UNCHANGED rtpVars

(* It fails: the transport is closed. *)
MakeFails(s) ==
    /\ owner' = [p \in UdpPorts |-> IF owner[p] = s THEN "free" ELSE owner[p]]
    /\ UNCHANGED <<stream, wire>>

(* pjmedia_stream_start, which refuses a NULL stream. *)
Start(s) ==
    /\ stream' = [stream EXCEPT ![s] = IF @ = "null" THEN @ ELSE "started"]
    /\ UNCHANGED <<owner, wire>>

(* A frame is put into every stream of `ss'; what is started sends it. *)
Send(ss, dest) ==
    /\ wire' = wire \cup {[to |-> dest[s], from |-> s] :
                             s \in {r \in ss : stream[r] = "started"}}
    /\ UNCHANGED <<owner, stream>>

Lose(pkt) == wire' = wire \ {pkt} /\ UNCHANGED <<owner, stream>>

(* Who may play a packet: a started stream on the port it comes to.  It    *)
(* may be a copy: the packet can still be under way afterwards.            *)
Receives(s, pkt) ==
    /\ pkt \in wire
    /\ owner[pkt.to] = s /\ stream[s] = "started"
    /\ wire' \in {wire, wire \ {pkt}}
    /\ UNCHANGED <<owner, stream>>

(* A process is gone: the system closes its sockets. *)
Gone(ss) ==
    /\ owner' = [p \in UdpPorts |-> IF owner[p] \in ss THEN "free" ELSE owner[p]]
    /\ stream' = [s \in Ids |-> IF s \in ss THEN "null" ELSE stream[s]]
    /\ UNCHANGED wire
=============================================================================
