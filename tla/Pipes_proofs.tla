---------------------------- MODULE Pipes_proofs ----------------------------
(* The pipes, for every number of frames, every size of buffer and every   *)
(* subset of the programs: they crash only on a failure of their own, no   *)
(* output plays another source, and nothing is skipped that a buffer had   *)
(* room for.                                                               *)
(*                                                                         *)
(* What the proofs need of the programs' texts comes first, as facts about *)
(* constants, each shown program by program; the rest speaks of any of     *)
(* them.                                                                   *)
EXTENDS Pipes, TLAPS

(* The calls that make the thing they name. *)
MakeOps == {"make", "player", "reverse"}

(* The calls that lay the pipe. *)
Settles == {"route", "reverse", "channel"}

(* The programs whose pipe a master port drives; elsewhere a device does.  *)
Mastered == {"one_file", "pjsua_file", "ring", "phone"}

(* In p, a call before the k-th makes z. *)
MadeBefore(p, k, z) ==
    \E j \in 1..(k - 1) : Steps[p][j][1] \in MakeOps /\ Steps[p][j][2] = z

(* The calls are made in an order in which every handle comes before its   *)
(* use.                                                                    *)
Supplied(p) ==
    \A k \in DOMAIN Steps[p] : \A x, y, z :
       /\ \A op \in MakeOps :
             Steps[p][k] = <<op, x, y>> /\ z \in Needs(p, x)
                => MadeBefore(p, k, z)
       /\ Steps[p][k] = <<"channel", x, y>> /\ z \in {"sc", x}
             => MadeBefore(p, k, z)
       /\ Steps[p][k] = <<"add", x, y>> /\ z \in {"pool", x, y}
             => MadeBefore(p, k, z)
       /\ Steps[p][k] = <<"plug", x, y>> /\ z \in {x, y}
             => MadeBefore(p, k, z)
       /\ Steps[p][k] = <<"start", x, y>> /\ z = "master"
             => MadeBefore(p, k, z)
       /\ Steps[p][k] = <<"call", x, y>> /\ z = "account"
             => MadeBefore(p, k, z)

(* A port is added to a bridge once, and before it is connected.           *)
AddsOnce(p) ==
    \A j, k \in DOMAIN Steps[p] : \A x, y, b :
        Steps[p][j] = <<"add", x, b>> =>
            /\ Steps[p][k] = <<"add", x, b>> => j = k
            /\ Steps[p][k] # <<"player", x, b>>
            /\ Steps[p][k] \in {<<"route", x, y>>, <<"route", y, x>>} => j < k

(* Where the clocks come in: a master port is started last; a device that  *)
(* drives a pipe is plugged in when the pipe is laid, but for confbridge.c *)
(* and sc_1file_to_left_right.c.                                           *)
Layout(p) ==
    /\ Len(Steps[p]) \in Nat /\ DOMAIN Steps[p] = 1..Len(Steps[p])
    /\ \A k \in DOMAIN Steps[p] : \A x, y :
          /\ Steps[p][k] = <<"start", x, y>> =>
                p \in Mastered /\ k = Len(Steps[p])
          /\ Steps[p][k] = <<"call", x, y>> => p \in {"phone", "sip"}
          /\ Steps[p][k] = <<"route", x, y>> =>
                p # "sip" /\ (p = "mic" => k = Len(Steps[p]))
          /\ Steps[p][k] = <<"plug", x, y>> =>
                /\ p \in Mastered =>
                      <<x, y>> \in {<<"dev1", "rev1">>, <<"dev2", "rev2">>}
                /\ p \notin Mastered =>
                      /\ y = IF p \in {"ics", "left_right"} THEN "sc"
                             ELSE IF p = "pjsua_sound" THEN "pjsua" ELSE "conf"
                      /\ p \notin {"mic", "left_right"} =>
                            \A j \in (k + 1)..Len(Steps[p]) :
                                Steps[p][j][1] \notin Settles

(* What the sides of a splitter can be. *)
Channels(p) ==
    p # "left_right" =>
    \A k \in DOMAIN Steps[p] : \A x :
       /\ Steps[p][k] \in {<<"reverse", x, 0>>, <<"channel", x, 0>>}
             => x = "rev1"
       /\ Steps[p][k] \in {<<"reverse", x, 1>>, <<"channel", x, 1>>}
             => x = IF p = "ics" THEN "pjsua" ELSE "rev2"

(* The tables the model gives by cases. *)
LEMMA NeedsTable ==
    ASSUME NEW p
    PROVE  /\ Needs(p, "pjsua") = {}
           /\ \A x \in {"ring", "account"} : Needs(p, x) = {"pjsua"}
           /\ Needs(p, "pool") = IF p \in {"ics", "pjsua_sound", "sip"}
                                 THEN {"pjsua"} ELSE {}
           /\ Needs(p, "file") = IF p \in {"ics", "pjsua_sound"}
                                 THEN {"pjsua"} ELSE {"pool"}
           /\ \A x \in {"file2", "conf", "mic"} : Needs(p, x) = {"pool"}
           /\ \A x \in {"dev1", "dev2", "sc"} :
                 Needs(p, x) = {"pool"} \cup Info(p)
           /\ \A x \in {"rev1", "rev2"} : Needs(p, x) = {"pool", "sc"}
           /\ Needs(p, "master") = {"pool", "conf", Upstream(p)}
  BY DEF Needs, Revs, Devices

LEMMA InfoTable ==
    ASSUME NEW p
    PROVE  Info(p) = IF p \in {"phone", "mic", "pjsua_sound"} THEN {}
                     ELSE IF p = "left_right" THEN {"conf"}
                     ELSE IF p = "ics" THEN {"pjsua"} ELSE {"file"}
  BY DEF Info

LEMMA ArgcTable ==
    ASSUME NEW p
    PROVE  MinArgc(p) = IF p \in {"sound_conf", "mic", "sip"} THEN 1
                        ELSE IF p = "ics" THEN 2
                        ELSE IF p = "ring" THEN 4 ELSE 3
  BY DEF MinArgc

LEMMA ArgumentTable ==
    ASSUME NEW p, NEW d
    PROVE  Argument(p, d) =
              IF p = "mic" THEN 0
              ELSE IF p = "phone" THEN IF d = "dev1" THEN 1 ELSE 2
              ELSE IF p = "splitcomb" THEN 3
              ELSE IF d = "dev1" THEN 2 ELSE 3
  BY DEF Argument

LEMMA PlaysTable ==
    Plays = IF prog \in {"one_file", "pjsua_file"}
            THEN [one |-> {"file"}, two |-> {"file"}]
            ELSE IF prog = "ring" THEN [one |-> {"ring"}, two |-> {"ring"}]
            ELSE IF prog = "phone" THEN [one |-> {"call"}, two |-> {"call"}]
            ELSE IF prog = "splitcomb"
                 THEN [one |-> {"file"}, two |-> {"file2"}]
            ELSE IF prog \in {"ics", "sound_conf", "pjsua_sound"}
                 THEN [one |-> {"file"}, two |-> {}]
            ELSE IF prog = "mic" THEN [one |-> {"mic"}, two |-> {}]
            ELSE [one |-> {}, two |-> {}]
  BY SMTT(60) DEF Plays

LEMMA SuppliedTexts == ASSUME NEW p \in DOMAIN Steps PROVE Supplied(p)
<1> USE NeedsTable, InfoTable
         DEF Supplied, Steps, Make, MadeBefore, MakeOps, Upstream
<1>1. CASE p = "one_file"
  BY <1>1, SMTT(60) DEF OneFile, SplitInTwo, PlayBoth
<1>2. CASE p = "pjsua_file"
  BY <1>2, SMTT(60) DEF PjsuaFile, SplitInTwo, PlayBoth
<1>3. CASE p = "ring"
  BY <1>3, SMTT(60) DEF Ring, SplitInTwo, PlayBoth
<1>4. CASE p = "phone"
  BY <1>4, SMTT(60) DEF PhoneToSound, SplitInTwo, PlayBoth
<1>5. CASE p = "splitcomb"
  BY <1>5, SMTT(60) DEF SplitComb
<1>6. CASE p = "left_right"
  BY <1>6, SMTT(60) DEF LeftRight
<1>7. CASE p = "ics"
  BY <1>7, SMTT(60) DEF Ics
<1>8. CASE p = "sound_conf"
  BY <1>8, SMTT(60) DEF SoundConf
<1>9. CASE p = "pjsua_sound"
  BY <1>9, SMTT(60) DEF PjsuaSound
<1>10. CASE p = "mic"
  BY <1>10, SMTT(60) DEF Mic
<1>11. CASE p = "sip"
  BY <1>11, SMTT(60) DEF SipStreamer
<1> QED
  BY <1>1, <1>2, <1>3, <1>4, <1>5, <1>6, <1>7, <1>8, <1>9, <1>10, <1>11,
     Zenon

LEMMA AddsOnceTexts == ASSUME NEW p \in DOMAIN Steps PROVE AddsOnce(p)
<1> USE DEF AddsOnce, Steps, Make
<1>1. CASE p = "one_file"
  BY <1>1, SMTT(60) DEF OneFile, SplitInTwo, PlayBoth
<1>2. CASE p = "pjsua_file"
  BY <1>2, SMTT(60) DEF PjsuaFile, SplitInTwo, PlayBoth
<1>3. CASE p = "ring"
  BY <1>3, SMTT(60) DEF Ring, SplitInTwo, PlayBoth
<1>4. CASE p = "phone"
  BY <1>4, SMTT(60) DEF PhoneToSound, SplitInTwo, PlayBoth
<1>5. CASE p = "splitcomb"
  BY <1>5, SMTT(60) DEF SplitComb
<1>6. CASE p = "left_right"
  BY <1>6, SMTT(60) DEF LeftRight
<1>7. CASE p = "ics"
  BY <1>7, SMTT(60) DEF Ics
<1>8. CASE p = "sound_conf"
  BY <1>8, SMTT(60) DEF SoundConf
<1>9. CASE p = "pjsua_sound"
  BY <1>9, SMTT(60) DEF PjsuaSound
<1>10. CASE p = "mic"
  BY <1>10, SMTT(60) DEF Mic
<1>11. CASE p = "sip"
  BY <1>11, SMTT(60) DEF SipStreamer
<1> QED
  BY <1>1, <1>2, <1>3, <1>4, <1>5, <1>6, <1>7, <1>8, <1>9, <1>10, <1>11,
     Zenon

LEMMA LayoutTexts == ASSUME NEW p \in DOMAIN Steps PROVE Layout(p)
<1> USE DEF Layout, Steps, Make, Mastered, Settles
<1>1. CASE p = "one_file"
  BY <1>1, SMTT(60) DEF OneFile, SplitInTwo, PlayBoth
<1>2. CASE p = "pjsua_file"
  BY <1>2, SMTT(60) DEF PjsuaFile, SplitInTwo, PlayBoth
<1>3. CASE p = "ring"
  BY <1>3, SMTT(60) DEF Ring, SplitInTwo, PlayBoth
<1>4. CASE p = "phone"
  BY <1>4, SMTT(60) DEF PhoneToSound, SplitInTwo, PlayBoth
<1>5. CASE p = "splitcomb"
  BY <1>5, SMTT(60) DEF SplitComb
<1>6. CASE p = "left_right"
  BY <1>6, SMTT(60) DEF LeftRight
<1>7. CASE p = "ics"
  BY <1>7, SMTT(60) DEF Ics
<1>8. CASE p = "sound_conf"
  BY <1>8, SMTT(60) DEF SoundConf
<1>9. CASE p = "pjsua_sound"
  BY <1>9, SMTT(60) DEF PjsuaSound
<1>10. CASE p = "mic"
  BY <1>10, SMTT(60) DEF Mic
<1>11. CASE p = "sip"
  BY <1>11, SMTT(60) DEF SipStreamer
<1> QED
  BY <1>1, <1>2, <1>3, <1>4, <1>5, <1>6, <1>7, <1>8, <1>9, <1>10, <1>11

LEMMA ChannelsTexts == ASSUME NEW p \in DOMAIN Steps PROVE Channels(p)
<1> USE DEF Channels, Steps, Make
<1>1. CASE p = "one_file"
  BY <1>1, SMTT(60) DEF OneFile, SplitInTwo, PlayBoth
<1>2. CASE p = "pjsua_file"
  BY <1>2, SMTT(60) DEF PjsuaFile, SplitInTwo, PlayBoth
<1>3. CASE p = "ring"
  BY <1>3, SMTT(60) DEF Ring, SplitInTwo, PlayBoth
<1>4. CASE p = "phone"
  BY <1>4, SMTT(60) DEF PhoneToSound, SplitInTwo, PlayBoth
<1>5. CASE p = "splitcomb"
  BY <1>5, SMTT(60) DEF SplitComb
<1>6. CASE p = "left_right"
  BY <1>6, SMTT(60) DEF LeftRight
<1>7. CASE p = "ics"
  BY <1>7, SMTT(60) DEF Ics
<1>8. CASE p = "sound_conf"
  BY <1>8, SMTT(60) DEF SoundConf
<1>9. CASE p = "pjsua_sound"
  BY <1>9, SMTT(60) DEF PjsuaSound
<1>10. CASE p = "mic"
  BY <1>10, SMTT(60) DEF Mic
<1>11. CASE p = "sip"
  BY <1>11, SMTT(60) DEF SipStreamer
<1> QED
  BY <1>1, <1>2, <1>3, <1>4, <1>5, <1>6, <1>7, <1>8, <1>9, <1>10, <1>11

(* What each program connects is what its outputs are there to play. *)
Tuned ==
    \A k \in DOMAIN Steps[prog] : \A s \in Sources : \A y :
        Steps[prog][k] = <<"route", s, y>> =>
            /\ y = "rev1" => s \in Plays["one"] \/ prog = "left_right"
            /\ y = "rev2" => s \in Plays["two"]
            /\ y \in Bridges =>
                  /\ prog # "ics"
                  /\ s \in Plays["one"]
                  /\ prog \in Mastered => s \in Plays["two"]
LEMMA TunedTexts == ASSUME prog \in DOMAIN Steps PROVE Tuned
<1> USE PlaysTable DEF Tuned, Steps, Make, Mastered, Bridges, Sources
<1>1. CASE prog = "one_file"
  BY <1>1, SMTT(60) DEF OneFile, SplitInTwo, PlayBoth
<1>2. CASE prog = "pjsua_file"
  BY <1>2, SMTT(60) DEF PjsuaFile, SplitInTwo, PlayBoth
<1>3. CASE prog = "ring"
  BY <1>3, SMTT(60) DEF Ring, SplitInTwo, PlayBoth
<1>4. CASE prog = "phone"
  BY <1>4, SMTT(60) DEF PhoneToSound, SplitInTwo, PlayBoth
<1>5. CASE prog = "splitcomb"
  BY <1>5, SMTT(60) DEF SplitComb
<1>6. CASE prog = "left_right"
  BY <1>6, SMTT(60) DEF LeftRight
<1>7. CASE prog = "ics"
  BY <1>7, SMTT(60) DEF Ics
<1>8. CASE prog = "sound_conf"
  BY <1>8, SMTT(60) DEF SoundConf
<1>9. CASE prog = "pjsua_sound"
  BY <1>9, SMTT(60) DEF PjsuaSound
<1>10. CASE prog = "mic"
  BY <1>10, SMTT(60) DEF Mic
<1>11. CASE prog = "sip"
  BY <1>11, SMTT(60) DEF SipStreamer
<1> QED
  BY <1>1, <1>2, <1>3, <1>4, <1>5, <1>6, <1>7, <1>8, <1>9, <1>10, <1>11,
     Zenon

(* Where a slot number may be unset and yet do no harm: of the sources in  *)
(* its bridge the one to be connected is the only one, and it is connected *)
(* to a port whose number is known.                                        *)
Harmless(p) ==
    p \notin {"splitcomb", "left_right", "ics"} =>
    \A j, k \in DOMAIN Steps[p] : \A x, y, b : \A u \in Sources :
       Steps[p][j] = <<"route", x, y>> =>
          /\ /\ Steps[p][k] \in {<<"add", u, b>>, <<"player", u, b>>}
             /\ \E l \in DOMAIN Steps[p] : Steps[p][l] = <<"add", x, b>>
             => u = x
          /\ x = u => Steps[p][k] # <<"add", y, b>>
LEMMA HarmlessTexts == ASSUME NEW p \in DOMAIN Steps PROVE Harmless(p)
<1> USE DEF Harmless, Steps, Make, Sources
<1>1. CASE p = "one_file"
  BY <1>1, SMTT(60) DEF OneFile, SplitInTwo, PlayBoth
<1>2. CASE p = "pjsua_file"
  BY <1>2, SMTT(60) DEF PjsuaFile, SplitInTwo, PlayBoth
<1>3. CASE p = "ring"
  BY <1>3, SMTT(60) DEF Ring, SplitInTwo, PlayBoth
<1>4. CASE p = "phone"
  BY <1>4, SMTT(60) DEF PhoneToSound, SplitInTwo, PlayBoth
<1>5. CASE p \in {"splitcomb", "left_right", "ics"}
  BY <1>5
<1>8. CASE p = "sound_conf"
  BY <1>8, SMTT(60) DEF SoundConf
<1>9. CASE p = "pjsua_sound"
  BY <1>9, SMTT(60) DEF PjsuaSound
<1>10. CASE p = "mic"
  BY <1>10, SMTT(60) DEF Mic
<1>11. CASE p = "sip"
  BY <1>11, SMTT(60) DEF SipStreamer
<1> QED
  BY <1>1, <1>2, <1>3, <1>4, <1>5, <1>8, <1>9, <1>10, <1>11, Zenon

(* What simple_ics.c adds is a thing whose creation it checks. *)
LEMMA IcsAdds ==
    ASSUME prog = "ics", NEW k \in DOMAIN Steps[prog], NEW x, NEW b,
           Steps[prog][k] = <<"add", x, b>>
    PROVE  x \in Checked(prog)
<1>1. x = "rev1"
  BY SMTT(60) DEF Steps, Ics, Make
<1> QED
  BY <1>1 DEF Checked

(* Only a device that the program makes needs an argument, and only        *)
(* sip_streamer.c ends in its call.                                        *)
Numbered(p) ==
    \A k \in DOMAIN Steps[p] : \A x :
       /\ Steps[p][k] = <<"make", x, "-">> /\ x \in Devices =>
             /\ p # "sip"
             /\ p \in {"ics", "sound_conf", "left_right", "pjsua_sound",
                       "splitcomb", "mic"} => x = "dev1"
       /\ Steps[p][k] = <<"call", x, "-">> /\ p = "sip" =>
             k = Len(SipStreamer)
LEMMA NumberedTexts == ASSUME NEW p \in DOMAIN Steps PROVE Numbered(p)
<1> USE DEF Numbered, Steps, Make, Devices
<1>1. CASE p = "one_file"
  BY <1>1, SMTT(60) DEF OneFile, SplitInTwo, PlayBoth
<1>2. CASE p = "pjsua_file"
  BY <1>2, SMTT(60) DEF PjsuaFile, SplitInTwo, PlayBoth
<1>3. CASE p = "ring"
  BY <1>3, SMTT(60) DEF Ring, SplitInTwo, PlayBoth
<1>4. CASE p = "phone"
  BY <1>4, SMTT(60) DEF PhoneToSound, SplitInTwo, PlayBoth
<1>5. CASE p = "splitcomb"
  BY <1>5, SMTT(60) DEF SplitComb
<1>6. CASE p = "left_right"
  BY <1>6, SMTT(60) DEF LeftRight
<1>7. CASE p = "ics"
  BY <1>7, SMTT(60) DEF Ics
<1>8. CASE p = "sound_conf"
  BY <1>8, SMTT(60) DEF SoundConf
<1>9. CASE p = "pjsua_sound"
  BY <1>9, SMTT(60) DEF PjsuaSound
<1>10. CASE p = "mic"
  BY <1>10, SMTT(60) DEF Mic
<1>11. CASE p = "sip"
  BY <1>11, SMTT(60) DEF SipStreamer
<1> QED
  BY <1>1, <1>2, <1>3, <1>4, <1>5, <1>6, <1>7, <1>8, <1>9, <1>10, <1>11

-----------------------------------------------------------------------------
(* The invariant. *)

(* The call the program is at, and what it has said before. *)
Here == Steps[prog][pc]
Said(op, x, y) ==
    \E k \in DOMAIN Steps[prog] : k < pc /\ Steps[prog][k] = <<op, x, y>>

Frames == [no : Nat, from : SUBSET Sources]

Types ==
    /\ prog \in Programs /\ argc \in 1..4
    /\ pc \in 0..(Len(Steps[prog]) + 1)
    /\ ended \in {"no", "returned", "crashed"} /\ failed \in BOOLEAN
    /\ slots \in [Bridges -> SUBSET Things]
    /\ chan \in [{0, 1} -> Things \cup {"-"}]
    /\ plugged \in [Devices -> Things \cup {"-"}]
    /\ running \in BOOLEAN
    /\ n \in Nat
    /\ buf \in [Revs -> Seq(Frames)]
    /\ dropped \in [Revs -> Nat]
    /\ last \in [Outputs -> Nat]
    /\ heard \in [Outputs -> SUBSET Sources]

(* While no call has failed, every thing that was to be made is made. *)
SoFar ==
    /\ pc >= 1 => argc >= MinArgc(prog)
    /\ ended = "no" /\ ~failed =>
          \A j \in 1..(pc - 1) :
             Steps[prog][j][1] \in MakeOps => Steps[prog][j][2] \in made

(* What is laid, plugged in and started was said to be. *)
Laid ==
    /\ \A c \in {0, 1} : chan[c] # "-" =>
          Said("reverse", chan[c], c) \/ Said("channel", chan[c], c)
    /\ \A d \in Devices : plugged[d] # "-" =>
          prog # "left_right" /\ Said("plug", d, plugged[d])
    /\ running => Said("start", "master", "-")
    /\ routes # {} => \E x, y : Said("route", x, y)
    /\ call # "none" => \E x, y : Said("call", x, y)

(* The reverse channel of an output, and the other way round. *)
Own(o) == IF o = "one" THEN "rev1" ELSE "rev2"
OutOf(r) == IF r = "rev1" THEN "one" ELSE "two"

(* Only ports that the program adds are in a bridge, and simple_ics.c goes *)
(* on only when its port is.                                               *)
Added ==
    /\ \A b \in Bridges : \A x \in slots[b] :
          Said("add", x, b) \/ Said("player", x, b)
    /\ prog = "ics" => ~Refused

(* The sources are connected as the program says, unless a port was        *)
(* refused in one of the two programs where that matters; of these, only   *)
(* splitcomb_file2sound.c can be heard.  There every frame on its way is   *)
(* of a source of its output.                                              *)
Kept == ~Refused \/ prog \notin {"splitcomb", "left_right"}
Excused == prog = "splitcomb" /\ Refused
AsSaid ==
    /\ Kept => \A e \in routes :
                  e[1] \in Sources => Said("route", e[1], e[2])
    /\ ~Excused =>
          /\ \A o \in Outputs : heard[o] \subseteq Plays[o]
          /\ \A r \in Revs : \A i \in DOMAIN buf[r] :
                buf[r][i].from \subseteq Plays[OutOf(r)]

(* The pipe is laid. *)
Settled ==
    \A k \in DOMAIN Steps[prog] : k >= pc => Steps[prog][k][1] \notin Settles

(* The reverse channels that sound is given to, the outputs it is given to *)
(* straight, and those that take it from a reverse channel.                *)
Routed(y) == {s \in Sources : <<s, y>> \in routes}
Feeds(r) ==
    IF prog \in Mastered
    THEN /\ <<"conf", "sc">> \in routes /\ r \in {chan[0], chan[1]}
         /\ prog = "one_file" \/ Routed("pjsua") # {}
    ELSE Routed(r) # {}
TheBridge == IF prog = "pjsua_sound" THEN "pjsua" ELSE "conf"
Direct(o) ==
    /\ prog \notin Mastered
    /\ IF prog = "ics" THEN Sides[o] \in Bridges /\ Routed(Sides[o]) # {}
       ELSE o = "one" /\ Routed(TheBridge) # {}
Takes(o) == prog = "ics" \/ <<"sc", TheBridge>> \in routes

(* Frames in a row, from the one after the lo-th. *)
Row(s, lo) == \A i \in 1..Len(s) : s[i].no = lo + i

(* A buffer holds the frames after the last one it dropped or its output   *)
(* has played, up to the newest while it is fed.                           *)
Low(r) ==
    IF dropped[r] > last[OutOf(r)] THEN dropped[r] ELSE last[OutOf(r)]
Lined(r) ==
    /\ Row(buf[r], Low(r))
    /\ Low(r) + Len(buf[r]) <= n
    /\ Feeds(r) => Low(r) + Len(buf[r]) = n

(* An output that is given sound straight has played the newest frame; its *)
(* buffer, if it takes from it at all, holds no other one.                 *)
Ahead(r) ==
    /\ last[OutOf(r)] = n /\ dropped[r] <= n
    /\ \A i \in 1..Len(buf[r]) : buf[r][i].no <= n
    /\ Sides[OutOf(r)] = r /\ Takes(OutOf(r)) =>
          /\ Len(buf[r]) <= 1
          /\ \A i \in 1..Len(buf[r]) : buf[r][i].no = n
    /\ buf[r] # <<>> => Feeds(r)

(* Sound only moves through a pipe that is laid. *)
Clocked ==
    /\ n = 0 => \A r \in Revs :
          buf[r] = <<>> /\ dropped[r] = 0 /\ last[OutOf(r)] = 0
    /\ n > 0 => Settled /\ (prog \in Mastered => running)
    /\ \A r \in Revs : IF Direct(OutOf(r)) THEN Ahead(r) ELSE Lined(r)

IInv ==
    /\ Types /\ SoFar /\ Laid /\ Added /\ AsSaid /\ Clocked
    /\ CrashNeedsFailure

-----------------------------------------------------------------------------
(* What a step of main() can do: leave, look at its arguments, or make one *)
(* of its calls, of which the rest of the proof needs no more than this.   *)
Leaves ==
    /\ ended' \in {"returned", "crashed"}
    /\ failed' \in {failed, TRUE}
    /\ UNCHANGED <<program, pc, graph, call, sound>>

Begins ==
    /\ pc = 0 /\ pc' = 1 /\ argc >= MinArgc(prog)
    /\ UNCHANGED <<program, ended, failed, graph, call, sound>>

Advances ==
    /\ ended = "no" /\ pc \in DOMAIN Steps[prog] /\ pc' = pc + 1
    /\ UNCHANGED <<program, ended, sound>>
    /\ failed' \in {failed, TRUE}
    /\ made \subseteq made'
    /\ Here[1] \in MakeOps => failed' = TRUE \/ Here[2] \in made'
    /\ \/ slots' = slots
       \/ \E x \in Things, b \in Things :
             /\ Here \in {<<"add", x, b>>, <<"player", x, b>>}
             /\ slots' = [slots EXCEPT ![b] = @ \cup {x}]
    /\ \/ routes' = routes
       \/ \E x \in Things, y \in Things :
             /\ Here = <<"route", x, y>> /\ slots' = slots
             /\ \E u \in Slot(x, BridgeOf(x, y)), v \in Slot(y, BridgeOf(x, y)) :
                   routes' = routes \cup {<<u, v>>}
    /\ \/ chan' = chan
       \/ \E x \in Things, c \in {0, 1} :
             /\ Here \in {<<"reverse", x, c>>, <<"channel", x, c>>}
             /\ chan' = [chan EXCEPT ![c] = x]
    /\ \/ plugged' = plugged
       \/ \E d \in Things :
             /\ Here = <<"unplug", d, "-">>
             /\ plugged' = [plugged EXCEPT ![d] = "-"]
       \/ \E d \in Things, y \in Things :
             /\ Here = <<"plug", d, y>> /\ prog # "left_right"
             /\ plugged' = [plugged EXCEPT ![d] = y]
    /\ \/ running' = running
       \/ Here = <<"start", "master", "-">> /\ running' = TRUE
    /\ \/ call' = call
       \/ \E x, y : Here = <<"call", x, y>>

Proceeds == Leaves \/ Begins \/ Advances

(* A call that fails, or has no effect on the rest, only moves on. *)
Passes ==
    /\ ended = "no" /\ pc \in DOMAIN Steps[prog] /\ pc' = pc + 1
    /\ UNCHANGED <<program, ended, sound>>
    /\ failed' \in {failed, TRUE}

LEMMA FailureMoves ==
    ASSUME Passes, UNCHANGED <<graph, call>>,
           failed' = TRUE \/ Here[1] \notin MakeOps
    PROVE  Advances
<1> UNCHANGED <<made, slots, routes, chan, plugged, running, call>>
  BY Zenon DEF graph
<1> QED
  BY Zenon DEF Advances, Passes

LEMMA MainMoves == ASSUME Main PROVE Proceeds
<1> USE FailureMoves DEF At
<1>1. CASE CheckArgs
  BY <1>1, Zenon DEF CheckArgs, Goto, Leave, Leaves, Begins, Proceeds
<1>2. CASE Start
  <2>1. CASE /\ Passes /\ Here = <<"start", "master", "-">>
             /\ running' = TRUE
             /\ UNCHANGED <<made, slots, routes, chan, plugged, call>>
    BY <2>1 DEF Advances, Passes, MakeOps, Proceeds
  <2> QED
    BY <1>2, <2>1, Zenon
    DEF Proceeds, Start, Calls, Goto, Leave, Leaves, Passes, Here
<1>5. ASSUME NEW x \in Things, Create(x)
       PROVE  Leaves \/ Advances
  <2>1. CASE /\ Passes /\ Here = <<"make", x, "-">>
             /\ made' = made \cup {x}
             /\ UNCHANGED <<slots, routes, chan, plugged, running, call>>
    BY <2>1 DEF Advances, Passes, MakeOps
  <2> QED
    BY <1>5, <2>1, Zenon
    DEF Create, Creates, Calls, Goto, Leave, Leaves, Passes, Here
<1>7. ASSUME NEW x \in Things, CreatePlayer(x)
       PROVE  Leaves \/ Advances
  <2>1. CASE /\ Passes /\ Here = <<"player", x, "pjsua">>
             /\ made' = made \cup {x}
             /\ slots' = [slots EXCEPT !["pjsua"] = @ \cup {x}]
             /\ UNCHANGED <<routes, chan, plugged, running, call>>
    BY <2>1 DEF Advances, Passes, MakeOps, Things, Bridges
  <2> QED
    BY <1>7, <2>1, Zenon
    DEF CreatePlayer, Creates, Calls, Goto, Leave, Leaves, Passes, Here
<1>10. ASSUME NEW x \in Things, NEW c \in {0, 1},
              CreateReverse(x, c)
       PROVE  Leaves \/ Advances
  <2>1. CASE /\ Passes /\ Here = <<"reverse", x, c>>
             /\ made' = made \cup {x}
             /\ chan' = [chan EXCEPT ![c] = x]
             /\ UNCHANGED <<slots, routes, plugged, running, call>>
    BY <2>1 DEF Advances, Passes, MakeOps
  <2> QED
    BY <1>10, <2>1, Zenon
    DEF CreateReverse, Calls, Goto, Leave, Leaves, Passes, Here
<1>11. ASSUME NEW x \in Things, NEW c \in {0, 1},
              SetChannel(x, c)
       PROVE  Leaves \/ Advances
  <2>1. CASE /\ Passes /\ Here = <<"channel", x, c>>
             /\ chan' = [chan EXCEPT ![c] = x]
             /\ UNCHANGED <<made, slots, routes, plugged, running, call>>
    BY <2>1 DEF Advances, Passes, MakeOps
  <2> QED
    BY <1>11, <2>1, Zenon
    DEF SetChannel, Calls, Goto, Leave, Leaves, Passes, Here
<1>12. ASSUME NEW x \in Things, NEW y \in Things, AddPort(x, y)
       PROVE  Leaves \/ Advances
  <2>1. CASE /\ Passes /\ Here = <<"add", x, y>>
             /\ slots' = [slots EXCEPT ![y] = @ \cup {x}]
             /\ UNCHANGED <<made, routes, chan, plugged, running, call>>
    BY <2>1 DEF Advances, Passes, MakeOps
  <2> QED
    BY <1>12, <2>1, Zenon
    DEF AddPort, Calls, Goto, Leave, Leaves, Passes, Here
<1>14. ASSUME NEW x \in Things, NEW y \in Things, Plug(x, y)
       PROVE  Leaves \/ Advances
  <2>1. CASE /\ Passes /\ Here = <<"plug", x, y>>
             /\ prog # "left_right"
             /\ plugged' = [plugged EXCEPT ![x] = y]
             /\ UNCHANGED <<made, slots, routes, chan, running, call>>
    BY <2>1 DEF Advances, Passes, MakeOps
  <2> QED
    BY <1>14, <2>1, Zenon
    DEF Plug, Fits, Calls, Goto, Leave, Leaves, Passes, Here
<1>3. CASE MakeCall
  <2>1. CASE /\ Passes /\ Here = <<"call", "call", "-">>
             /\ UNCHANGED <<made, slots, routes, chan, plugged, running>>
    BY <2>1 DEF Advances, Passes, MakeOps, Proceeds
  <2> QED
    BY <1>3, <2>1, Zenon
    DEF Proceeds, MakeCall, Calls, Goto, Leave, Leaves, Passes, Here, graph
<1>4. CASE Return
  BY <1>4, Zenon DEF Return, Leave, Leaves, Proceeds
<1>6. ASSUME NEW x \in Things, ReadsNoArgument(x)
      PROVE  Leaves
  BY <1>6, Zenon DEF ReadsNoArgument, Leave, Leaves
<1>8. ASSUME NEW x \in Things, Unplug(x)
      PROVE  Leaves \/ Advances
  <2>1. CASE /\ Passes /\ Here = <<"unplug", x, "-">>
             /\ plugged' = [plugged EXCEPT ![x] = "-"]
             /\ UNCHANGED <<made, slots, routes, chan, running, call>>
    BY <2>1 DEF Advances, Passes, MakeOps
  <2> QED
    BY <1>8, <2>1, Zenon
    DEF Unplug, Goto, Leave, Leaves, Passes, Here
<1>9. ASSUME NEW x \in Things, CheckStatus(x)
      PROVE  Leaves \/ Advances
  <2>1. CASE /\ Passes /\ Here = <<"check", x, "-">>
             /\ UNCHANGED <<graph, call>>
    <3>1. Here[1] \notin MakeOps
      BY <2>1 DEF MakeOps
    <3> QED
      BY <2>1, <3>1, FailureMoves, Zenon
  <2> QED
    BY <1>9, <2>1, Zenon
    DEF CheckStatus, Goto, Leave, Leaves, Passes, Here
<1>13. ASSUME NEW x \in Things, NEW y \in Things, Connect(x, y)
       PROVE  Advances
  <2>1. CASE /\ Passes /\ Here = <<"route", x, y>>
             /\ \/ routes' = routes
                \/ \E u \in Slot(x, BridgeOf(x, y)),
                      v \in Slot(y, BridgeOf(x, y)) :
                      routes' = routes \cup {<<u, v>>}
             /\ UNCHANGED <<made, slots, chan, plugged, running, call>>
    <3>1. Here[1] \notin MakeOps
      BY <2>1 DEF MakeOps
    <3> QED
      BY <2>1, <3>1, Zenon DEF Advances, Passes
  <2> QED
    BY <1>13, <2>1, Zenon DEF Connect, Goto, Passes, Here
<1> QED
  BY <1>1, <1>2, <1>3, <1>4, <1>5, <1>6, <1>7, <1>8, <1>9, <1>10, <1>11,
     <1>12, <1>13, <1>14, Zenon DEF Main, Proceeds

-----------------------------------------------------------------------------
(* The facts about the texts hold of the program that runs.                *)
LEMMA Texts ==
    ASSUME Types
    PROVE  /\ prog \in DOMAIN Steps
           /\ Supplied(prog) /\ AddsOnce(prog) /\ Layout(prog)
           /\ Channels(prog) /\ Tuned /\ Numbered(prog) /\ Harmless(prog)
<1>1. prog \in DOMAIN Steps
  BY ProgramsAssumption, Zenon DEF Types
<1> QED
  BY <1>1, SuppliedTexts, AddsOnceTexts, LayoutTexts, ChannelsTexts,
     TunedTexts, NumberedTexts, HarmlessTexts, Zenon

(* The texts are not looked into any more. *)
LEMMA Indices ==
    ASSUME Types
    PROVE  /\ Len(Steps[prog]) \in Nat
           /\ DOMAIN Steps[prog] = 1..Len(Steps[prog])
  BY Texts, Zenon DEF Layout

(* A port that a bridge has refused stays out of it. *)
LEMMA RefusedStays ==
    ASSUME Types, Advances, Refused
    PROVE  Refused'
<1>1. PICK k \in 1..(pc - 1), x \in Things, b \in Bridges :
         /\ k \in DOMAIN Steps[prog] /\ Steps[prog][k] = <<"add", x, b>>
         /\ x \notin slots[b]
  BY Zenon DEF Refused
<1>2. k < pc /\ k \in 1..(pc' - 1)
  BY <1>1 DEF Advances, Types
<1>3. x \notin slots'[b]
  <2>1. CASE slots' = slots
    BY <1>1, <2>1
  <2>2. ASSUME NEW y \in Things, NEW c \in Things,
               Here \in {<<"add", y, c>>, <<"player", y, c>>},
               slots' = [slots EXCEPT ![c] = @ \cup {y}]
        PROVE  x \notin slots'[b]
    <3>1. pc \in DOMAIN Steps[prog] /\ k # pc
      BY <1>2 DEF Advances, Types
    <3>2. /\ Steps[prog][pc] # <<"add", x, b>>
          /\ Steps[prog][pc] # <<"player", x, b>>
      BY Texts, <1>1, <3>1, Zenon DEF AddsOnce
    <3>3. ~(y = x /\ c = b)
      BY <2>2, <3>2 DEF Here
    <3> QED
      BY <1>1, <2>2, <3>3 DEF Types
  <2> QED
    BY <2>1, <2>2, Zenon DEF Advances
<1> QED
  BY <1>1, <1>2, <1>3, Zenon DEF Refused, Advances, program

LEMMA BridgeChosen ==
    ASSUME NEW x, NEW y
    PROVE  BridgeOf(x, y) \in Bridges
<1>1. CASE {x, y} \cap Bridges # {}
  <2>1. \E b \in Bridges : b \in {x, y}
    BY <1>1, Zenon
  <2> QED
    BY <1>1, <2>1, Zenon DEF BridgeOf
<1>2. CASE {x, y} \cap Bridges = {}
  BY <1>2 DEF BridgeOf, Bridges
<1> QED
  BY <1>1, <1>2

(* When no port was refused, a connection is made between the two ports    *)
(* that the program names.                                                 *)
LEMMA SlotSaid ==
    ASSUME Types, ~Refused, pc \in DOMAIN Steps[prog],
           NEW x \in Things, NEW y \in Things, NEW b \in Bridges,
           Here \in {<<"route", x, y>>, <<"route", y, x>>},
           NEW u \in Slot(x, b)
    PROVE  u = x
<1>1. ASSUME NEW k \in DOMAIN Steps[prog], Steps[prog][k] = <<"add", x, b>>
      PROVE  x \in slots[b]
  <2>1. k < pc
    BY Texts, <1>1, Zenon DEF AddsOnce, Here
  <2>2. k \in 1..(pc - 1)
    BY <2>1, Indices DEF Types
  <2> QED
    BY <1>1, <2>2, Zenon DEF Refused
<1> QED
  BY <1>1, Zenon DEF Slot

(* A refused port misleads a source in two programs only. *)
LEMMA SourceKept ==
    ASSUME Types, Added, Kept, pc \in DOMAIN Steps[prog],
           NEW x \in Things, NEW y \in Things, NEW b \in Bridges,
           Here = <<"route", x, y>>,
           NEW u \in Slot(x, b), u \in Sources, NEW v \in Slot(y, b)
    PROVE  u = x /\ v = y
<1>1. CASE ~Refused
  BY <1>1, SlotSaid, Zenon
<1>2. CASE prog \notin {"splitcomb", "left_right", "ics"}
  <2>1. ASSUME NEW z, NEW w \in Slot(z, b), w # z
        PROVE  /\ w \in slots[b] \cup {b}
               /\ \E k \in DOMAIN Steps[prog] :
                     Steps[prog][k] = <<"add", z, b>>
    BY <2>1, Zenon DEF Slot
  <2>2. u # b
    BY DEF Sources, Bridges
  <2>5. Harmless(prog) /\ Steps[prog][pc] = <<"route", x, y>>
    BY Texts, Zenon DEF Here
  <2>6. \A k \in DOMAIN Steps[prog] :
           /\ /\ Steps[prog][k] \in {<<"add", u, b>>, <<"player", u, b>>}
              /\ \E l \in DOMAIN Steps[prog] :
                    Steps[prog][l] = <<"add", x, b>>
              => u = x
           /\ x = u => Steps[prog][k] # <<"add", y, b>>
    <3>1. \A j, k \in DOMAIN Steps[prog] : \A p, q, c : \A w \in Sources :
             Steps[prog][j] = <<"route", p, q>> =>
                /\ /\ Steps[prog][k] \in {<<"add", w, c>>, <<"player", w, c>>}
                   /\ \E l \in DOMAIN Steps[prog] :
                         Steps[prog][l] = <<"add", p, c>>
                   => w = p
                /\ p = w => Steps[prog][k] # <<"add", q, c>>
      BY <1>2, <2>5, Zenon DEF Harmless
    <3>2. TAKE k \in DOMAIN Steps[prog]
    <3>3. \A p, q, c : \A w \in Sources :
             Steps[prog][pc] = <<"route", p, q>> =>
                /\ /\ Steps[prog][k] \in {<<"add", w, c>>, <<"player", w, c>>}
                   /\ \E l \in DOMAIN Steps[prog] :
                         Steps[prog][l] = <<"add", p, c>>
                   => w = p
                /\ p = w => Steps[prog][k] # <<"add", q, c>>
      BY <3>1, Zenon
    <3> QED
      BY <2>5, <3>3
  <2>3. ASSUME u # x PROVE FALSE
    <3>1. /\ u \in slots[b]
          /\ \E l \in DOMAIN Steps[prog] : Steps[prog][l] = <<"add", x, b>>
      BY <2>1, <2>2, <2>3, Zenon
    <3>2. PICK k \in DOMAIN Steps[prog] :
             Steps[prog][k] \in {<<"add", u, b>>, <<"player", u, b>>}
      BY <3>1, Zenon DEF Added, Said
    <3> QED
      BY <2>3, <2>6, <3>1, <3>2, Zenon
  <2>4. ASSUME v # y PROVE FALSE
    <3>1. PICK k \in DOMAIN Steps[prog] : Steps[prog][k] = <<"add", y, b>>
      BY <2>1, <2>4, Zenon
    <3> QED
      BY <2>3, <2>6, <3>1, Zenon
  <2> QED
    BY <2>3, <2>4
<1> QED
  BY <1>1, <1>2, Zenon DEF Kept, Added

-----------------------------------------------------------------------------
(* main() keeps the invariant.                                             *)
LEMMA MainTypes ==
    ASSUME Types, Proceeds
    PROVE  Types'
<1> USE DEF Types, program, graph, sound
<1>1. CASE Leaves
  BY <1>1 DEF Leaves
<1>2. CASE Begins
  BY <1>2, Indices DEF Begins
<1>3. CASE Advances
  <2>1. pc' \in 0..(Len(Steps[prog]) + 1)
    BY <1>3, Indices DEF Advances
  <2>2. slots' \in [Bridges -> SUBSET Things]
    <3>1. \/ slots' = slots
          \/ \E x \in Things, b \in Things :
                slots' = [slots EXCEPT ![b] = @ \cup {x}]
      BY <1>3, Zenon DEF Advances
    <3> QED
      BY <3>1
  <2>3. chan' \in [{0, 1} -> Things \cup {"-"}]
    <3>1. \/ chan' = chan
          \/ \E x \in Things, c \in {0, 1} : chan' = [chan EXCEPT ![c] = x]
      BY <1>3, Zenon DEF Advances
    <3> QED
      BY <3>1
  <2>4. plugged' \in [Devices -> Things \cup {"-"}]
    <3>1. \/ plugged' = plugged
          \/ \E d \in Things, y \in Things \cup {"-"} :
                plugged' = [plugged EXCEPT ![d] = y]
      BY <1>3, Zenon DEF Advances
    <3> QED
      BY <3>1
  <2>5. running' \in BOOLEAN /\ failed' \in BOOLEAN
    BY <1>3, Zenon DEF Advances
  <2> QED
    BY <1>3, <2>1, <2>2, <2>3, <2>4, <2>5, Zenon DEF Advances
<1> QED
  BY <1>1, <1>2, <1>3 DEF Proceeds

LEMMA MainSoFar ==
    ASSUME Types, SoFar, Proceeds
    PROVE  SoFar'
<1> USE DEF SoFar, program, graph
<1>1. CASE Leaves
  BY <1>1 DEF Leaves
<1>2. CASE Begins
  BY <1>2 DEF Begins
<1>3. CASE Advances
  <2> USE DEF Advances
  <2>1. pc' >= 1 => argc' >= MinArgc(prog)'
    BY <1>3, Indices
  <2>2. ASSUME ended' = "no", ~failed', NEW j \in 1..(pc' - 1),
               Steps[prog][j][1] \in MakeOps
        PROVE  Steps[prog][j][2] \in made'
    <3>1. ~failed
      BY <1>3, <2>2, Zenon DEF Types
    <3>2. CASE j = pc
      BY <1>3, <2>2, <3>2, Zenon DEF Here
    <3>3. CASE j # pc
      <4>1. j \in 1..(pc - 1)
        BY <1>3, <2>2, <3>3, Indices
      <4> QED
        BY <1>3, <2>2, <3>1, <4>1, Zenon
    <3> QED
      BY <3>2, <3>3
  <2> QED
    BY <1>3, <2>1, <2>2, Zenon
<1> QED
  BY <1>1, <1>2, <1>3 DEF Proceeds

LEMMA SaidStays ==
    ASSUME Types, NEW op, NEW x, NEW y, Said(op, x, y),
           UNCHANGED prog, pc' \in {pc, pc + 1}
    PROVE  Said(op, x, y)'
<1>1. PICK k \in DOMAIN Steps[prog] : k < pc /\ Steps[prog][k] = <<op, x, y>>
  BY Zenon DEF Said
<1>2. k < pc'
  BY <1>1, Indices DEF Types
<1> QED
  BY <1>1, <1>2, Zenon DEF Said

LEMMA SaysHere ==
    ASSUME Types, Advances, NEW op, NEW x, NEW y, Here = <<op, x, y>>
    PROVE  Said(op, x, y)'
<1>1. pc < pc'
  BY DEF Advances, Types
<1> QED
  BY <1>1, Zenon DEF Advances, Said, Here, program

LEMMA MainLaid ==
    ASSUME Types, Laid, Proceeds
    PROVE  Laid'
<1> USE DEF program, graph
<1>1. CASE Leaves
  BY <1>1, Zenon DEF Leaves, Laid, Said
<1>2. CASE Begins
  <2>1. /\ UNCHANGED <<prog, chan, plugged, running, routes, call>>
        /\ pc' = pc + 1
    BY <1>2 DEF Begins
  <2> QED
    BY <2>1, SaidStays, Zenon DEF Laid
<1>3. CASE Advances
  <2>1. UNCHANGED prog /\ pc' = pc + 1
    BY <1>3, Zenon DEF Advances
  <2>2. ASSUME NEW c \in {0, 1}, chan'[c] # "-"
        PROVE  Said("reverse", chan[c], c)' \/ Said("channel", chan[c], c)'
    <3>1. CASE chan'[c] = chan[c]
      BY <2>1, <2>2, <3>1, SaidStays, Zenon DEF Laid
    <3>2. ASSUME chan'[c] # chan[c]
          PROVE  Here \in {<<"reverse", chan'[c], c>>,
                           <<"channel", chan'[c], c>>}
      <4>1. PICK x \in Things, a \in {0, 1} :
               /\ Here \in {<<"reverse", x, a>>, <<"channel", x, a>>}
               /\ chan' = [chan EXCEPT ![a] = x]
        BY <1>3, <3>2, Zenon DEF Advances
      <4> QED
        BY <3>2, <4>1 DEF Types
    <3>3. CASE chan'[c] # chan[c]
      BY <1>3, <3>2, <3>3, SaysHere, Zenon
    <3> QED
      BY <3>1, <3>3
  <2>3. ASSUME NEW d \in Devices, plugged'[d] # "-"
        PROVE  prog # "left_right" /\ Said("plug", d, plugged[d])'
    <3>1. CASE plugged'[d] = plugged[d]
      BY <2>1, <2>3, <3>1, SaidStays, Zenon DEF Laid
    <3>2. ASSUME plugged'[d] # plugged[d]
          PROVE  prog # "left_right" /\ Here = <<"plug", d, plugged'[d]>>
      <4>1. PICK x \in Things, y \in Things :
               /\ Here = <<"plug", x, y>> /\ prog # "left_right"
               /\ plugged' = [plugged EXCEPT ![x] = y]
        BY <1>3, <2>3, <3>2, SMTT(30) DEF Advances, Types
      <4> QED
        BY <3>2, <4>1 DEF Types
    <3>3. CASE plugged'[d] # plugged[d]
      BY <1>3, <3>2, <3>3, SaysHere, Zenon
    <3> QED
      BY <3>1, <3>3
  <2>4. running' => Said("start", "master", "-")'
    BY <1>3, <2>1, SaidStays, SaysHere, Zenon DEF Laid, Advances
  <2>5. ASSUME routes' # {}
        PROVE  \E x, y : Said("route", x, y)'
    <3>1. CASE routes' = routes
      BY <2>1, <2>5, <3>1, SaidStays, Zenon DEF Laid
    <3>2. CASE routes' # routes
      BY <1>3, <3>2, SaysHere, Zenon DEF Advances
    <3> QED
      BY <3>1, <3>2
  <2>6. ASSUME call' # "none"
        PROVE  \E x, y : Said("call", x, y)'
    BY <1>3, <2>1, <2>6, SaidStays, SaysHere, Zenon DEF Laid, Advances
  <2> QED
    BY <2>1, <2>2, <2>3, <2>4, <2>5, <2>6, Zenon DEF Laid
<1> QED
  BY <1>1, <1>2, <1>3 DEF Proceeds

LEMMA PlaysStay == ASSUME UNCHANGED prog PROVE Plays' = Plays
  BY Zenon DEF Plays

(* A port that is in its bridge has been added to it. *)
LEMMA SlotsAdded ==
    ASSUME Types, Added, Advances, NEW b \in Bridges, NEW x \in slots'[b]
    PROVE  Said("add", x, b)' \/ Said("player", x, b)'
<1>1. UNCHANGED prog /\ pc' = pc + 1
  BY Zenon DEF Advances, program
<1>2. CASE x \in slots[b]
  BY <1>1, <1>2, SaidStays, Zenon DEF Added
<1>3. CASE x \notin slots[b]
  <2>1. PICK y \in Things, c \in Things :
           /\ Here \in {<<"add", y, c>>, <<"player", y, c>>}
           /\ slots' = [slots EXCEPT ![c] = @ \cup {y}]
    BY <1>3, Zenon DEF Advances
  <2>2. x = y /\ b = c
    BY <1>3, <2>1 DEF Types
  <2> QED
    BY <2>1, <2>2, SaysHere, Zenon
<1> QED
  BY <1>2, <1>3

(* A port is added by AddPort only. *)
LEMMA AddsPort ==
    ASSUME Types, Main, pc \in DOMAIN Steps[prog],
           NEW x, NEW b, Here = <<"add", x, b>>
    PROVE  AddPort(x, b)
<1>1. \A op, y, z : At(op, y, z) => op = "add" /\ y = x /\ z = b
  BY DEF At, Here
<1>2. pc # 0
  BY Indices
<1>3. ~CheckArgs
  BY <1>2, Zenon DEF CheckArgs
<1>4. ~Start /\ ~MakeCall /\ ~Return
  <2>1. \A op, y, z : At(op, y, z) => op = "add"
    BY <1>1, Zenon
  <2>2. "add" # "start" /\ "add" # "call" /\ "add" # "return"
    OBVIOUS
  <2> QED
    BY <2>1, <2>2, Zenon DEF Start, MakeCall, Return
<1>5. \A y : ~Create(y) /\ ~ReadsNoArgument(y)
  <2>1. \A z, w : ~At("make", z, w)
    BY <1>1
  <2> QED
    BY <2>1, Zenon DEF Create, ReadsNoArgument
<1>6. \A y : ~CreatePlayer(y) /\ ~Unplug(y) /\ ~CheckStatus(y)
  <2>1. \A z, w : /\ ~At("player", z, w) /\ ~At("unplug", z, w)
                  /\ ~At("check", z, w)
    BY <1>1
  <2> QED
    BY <2>1, Zenon DEF CreatePlayer, Unplug, CheckStatus
<1>7. \A y, c : ~CreateReverse(y, c) /\ ~SetChannel(y, c)
  <2>1. \A z, w : ~At("reverse", z, w) /\ ~At("channel", z, w)
    BY <1>1
  <2> QED
    BY <2>1, Zenon DEF CreateReverse, SetChannel
<1>8. \A y, c : ~Connect(y, c) /\ ~Plug(y, c)
  <2>1. \A z, w : ~At("route", z, w) /\ ~At("plug", z, w)
    BY <1>1
  <2> QED
    BY <2>1, Zenon DEF Connect, Plug
<1>9. \A y, c : AddPort(y, c) => y = x /\ c = b
  <2>1. \A y, c : AddPort(y, c) => At("add", y, c)
    BY Zenon DEF AddPort
  <2> QED
    BY <1>1, <2>1
<1>10. \E y, c : AddPort(y, c)
  BY <1>3, <1>4, <1>5, <1>6, <1>7, <1>8, Zenon DEF Main
<1> QED
  BY <1>9, <1>10, Zenon

LEMMA MainAdded ==
    ASSUME Types, Added, Main
    PROVE  Added'
<1>1. CASE Leaves
  <2>1. UNCHANGED <<prog, pc, slots>>
    BY <1>1, Zenon DEF Leaves, program, graph
  <2> QED
    BY <2>1, Zenon DEF Added, Refused, Said
<1>2. CASE Begins
  <2>1. UNCHANGED <<prog, slots>> /\ pc = 0 /\ pc' = 1
    BY <1>2, Zenon DEF Begins, program, graph
  <2>2. ~Refused'
    BY <2>1 DEF Refused
  <2> QED
    BY <2>1, <2>2, SaidStays DEF Added
<1>3. CASE Advances
  <2>1. UNCHANGED prog /\ ended = "no" /\ ended' = "no" /\ pc' = pc + 1
        /\ pc \in DOMAIN Steps[prog]
    BY <1>3, Zenon DEF Advances, program
  <2>2. ASSUME prog = "ics", Refused' PROVE FALSE
    <3>1. PICK k \in 1..pc, x \in Things, b \in Bridges :
             /\ k \in DOMAIN Steps[prog] /\ Steps[prog][k] = <<"add", x, b>>
             /\ x \notin slots'[b]
      <4>1. pc' - 1 = pc
        BY <2>1, Indices
      <4> QED
        BY <2>1, <2>2, <4>1, Zenon DEF Refused
    <3>2. x \notin slots[b]
      <4>1. \/ slots' = slots
            \/ \E y \in Things, c \in Things :
                  slots' = [slots EXCEPT ![c] = @ \cup {y}]
        BY <1>3, Zenon DEF Advances
      <4> QED
        BY <3>1, <4>1 DEF Types
    <3>3. k = pc
      <4>1. k \notin 1..(pc - 1)
        BY <2>2, <3>1, <3>2, Zenon DEF Added, Refused
      <4> QED
        BY <2>1, <4>1, Indices
    <3>4. AddPort(x, b)
      BY <2>1, <3>1, <3>3, AddsPort, Zenon DEF Here
    <3>5. x \in Checked(prog)
      BY <2>2, <3>1, IcsAdds, Zenon
    <3>6. slots' = [slots EXCEPT ![b] = @ \cup {x}]
      BY <2>1, <3>4, <3>5 DEF AddPort, Calls, Leave
    <3> QED
      BY <3>1, <3>6 DEF Types
  <2> QED
    BY <1>3, <2>1, <2>2, SlotsAdded, Zenon DEF Added
<1> QED
  BY <1>1, <1>2, <1>3, MainMoves, Zenon DEF Proceeds

LEMMA MainAsSaid ==
    ASSUME Types, Laid, Added, AsSaid, Proceeds
    PROVE  AsSaid'
<1> USE DEF program, graph, sound
<1>1. CASE Leaves
  <2>1. /\ UNCHANGED <<prog, pc, slots, routes, heard, buf>>
    BY <1>1, Zenon DEF Leaves
  <2> QED
    BY <2>1, PlaysStay, Zenon DEF AsSaid, Kept, Excused, Refused, Said
<1>2. CASE Begins
  <2>1. UNCHANGED <<prog, routes, slots, heard, buf>> /\ pc' = pc + 1 /\ pc = 0
    BY <1>2 DEF Begins
  <2>2. ~Refused
    BY <2>1 DEF Refused
  <2> QED
    BY <2>1, <2>2, PlaysStay, SaidStays, Zenon DEF AsSaid, Kept, Excused
<1>3. CASE Advances
  <2>1. UNCHANGED <<prog, heard, buf>> /\ pc' = pc + 1
    BY <1>3, Zenon DEF Advances
  <2>2. (Kept' => Kept) /\ (~Excused' => ~Excused)
    BY <1>3, <2>1, RefusedStays, Zenon DEF Kept, Excused
  <2>3. ASSUME Kept', NEW e \in routes', e[1] \in Sources
        PROVE  Said("route", e[1], e[2])'
    <3>1. CASE e \in routes
      BY <2>1, <2>2, <2>3, <3>1, SaidStays, Zenon DEF AsSaid
    <3>2. CASE e \notin routes
      <4>1. PICK x \in Things, y \in Things :
               /\ Here = <<"route", x, y>>
               /\ \E u \in Slot(x, BridgeOf(x, y)),
                     v \in Slot(y, BridgeOf(x, y)) :
                     routes' = routes \cup {<<u, v>>}
        BY <1>3, <2>3, <3>2, Zenon DEF Advances
      <4>2. PICK u \in Slot(x, BridgeOf(x, y)),
                 v \in Slot(y, BridgeOf(x, y)) : e = <<u, v>>
        BY <2>3, <3>2, <4>1
      <4>3. pc \in DOMAIN Steps[prog]
        BY <1>3, Zenon DEF Advances
      <4>4. e[1] = u /\ e[2] = v
        BY <4>2
      <4>7. Kept /\ u \in Sources /\ BridgeOf(x, y) \in Bridges
        BY <2>2, <2>3, <4>4, BridgeChosen, Zenon
      <4>8. Here = <<"route", x, y>>
        BY <4>1
      <4>5. u = x /\ v = y
        BY <4>3, <4>7, <4>8, SourceKept
      <4>6. Said("route", x, y)'
        BY <1>3, <4>1, SaysHere, Zenon
      <4> QED
        BY <4>4, <4>5, <4>6, Zenon
    <3> QED
      BY <3>1, <3>2
  <2>4. ASSUME ~Excused'
        PROVE  /\ \A o \in Outputs : heard[o] \subseteq Plays[o]
               /\ \A r \in Revs : \A i \in DOMAIN buf[r] :
                     buf[r][i].from \subseteq Plays[OutOf(r)]
    BY <2>2, <2>4, Zenon DEF AsSaid
  <2> QED
    BY <2>1, <2>3, <2>4, PlaysStay, Zenon DEF AsSaid, OutOf
<1> QED
  BY <1>1, <1>2, <1>3 DEF Proceeds

(* Before the first frame the buffers are empty, however the pipe is laid. *)
LEMMA ClocksUnstarted ==
    ASSUME Types, Clocked, UNCHANGED sound, n = 0
    PROVE  Clocked'
<1> UNCHANGED <<n, buf, dropped, last, heard>>
  BY Zenon DEF sound
<1>1. \A r \in Revs : buf[r] = <<>> /\ dropped[r] = 0 /\ last[OutOf(r)] = 0
  BY Zenon DEF Clocked
<1>2. ASSUME NEW r \in Revs PROVE Ahead(r)'
  BY <1>1, SMTT(30) DEF Ahead, OutOf
<1>3. ASSUME NEW r \in Revs PROVE Lined(r)'
  BY <1>1, SMTT(30) DEF Lined, Low, OutOf, Row
<1>4. n' = 0 /\ ~(n' > 0)
  OBVIOUS
<1>5. (\A r \in Revs :
          buf[r] = <<>> /\ dropped[r] = 0 /\ last[OutOf(r)] = 0)'
  BY <1>1, Zenon DEF OutOf
<1> QED
  BY <1>2, <1>3, <1>4, <1>5, Zenon DEF Clocked

LEMMA ClocksStay ==
    ASSUME Types, Clocked, UNCHANGED <<prog, routes, chan, sound>>,
           n > 0 => (Settled /\ (prog \in Mastered => running))'
    PROVE  Clocked'
<1> UNCHANGED <<n, buf, dropped, last, heard>>
  BY Zenon DEF sound
<1>1. ASSUME NEW y PROVE Routed(y)' = Routed(y)
  BY Zenon DEF Routed
<1>2. ASSUME NEW r \in Revs
      PROVE  /\ Feeds(r)' <=> Feeds(r)
             /\ Direct(OutOf(r))' <=> Direct(OutOf(r))
             /\ Takes(OutOf(r))' <=> Takes(OutOf(r))
             /\ Sides' = Sides /\ Low(r)' = Low(r)
  BY <1>1, Zenon DEF Feeds, Direct, Takes, OutOf, Sides, TheBridge, Low
<1>3. ASSUME NEW r \in Revs, Ahead(r) PROVE Ahead(r)'
  BY <1>2, <1>3, Zenon DEF Ahead, OutOf
<1>4. ASSUME NEW r \in Revs, Lined(r) PROVE Lined(r)'
  BY <1>2, <1>4, Zenon DEF Lined, Row
<1>5. (\A r \in Revs : IF Direct(OutOf(r)) THEN Ahead(r) ELSE Lined(r))'
  BY <1>2, <1>3, <1>4, Zenon DEF Clocked
<1> QED
  BY <1>5, Zenon DEF Clocked, OutOf

LEMMA MainClocked ==
    ASSUME Types, Clocked, Proceeds
    PROVE  Clocked'
<1> USE DEF program, graph
<1>1. CASE Leaves
  <2>1. UNCHANGED <<prog, pc, routes, chan, running, sound>>
    BY <1>1, Zenon DEF Leaves
  <2>2. n > 0 => (Settled /\ (prog \in Mastered => running))'
    BY <2>1, Zenon DEF Clocked, Settled
  <2> QED
    BY <2>1, <2>2, ClocksStay, Zenon
<1>2. CASE Begins
  <2>1. UNCHANGED <<prog, routes, chan, running, sound>> /\ pc = 0 /\ pc' = 1
    BY <1>2, Zenon DEF Begins
  <2>2. ASSUME Settled PROVE Settled'
    BY <2>1, <2>2, Indices DEF Settled, Types
  <2>3. n > 0 => (Settled /\ (prog \in Mastered => running))'
    BY <2>1, <2>2, Zenon DEF Clocked
  <2> QED
    BY <2>1, <2>3, ClocksStay, Zenon
<1>3. CASE Advances /\ n > 0
  <2>1. UNCHANGED <<prog, sound>> /\ pc' = pc + 1 /\ pc \in DOMAIN Steps[prog]
    BY <1>3, Zenon DEF Advances
  <2>2. Settled /\ (prog \in Mastered => running)
    BY <1>3, Zenon DEF Clocked
  <2>3. Here[1] \notin Settles
    BY <2>1, <2>2, Indices DEF Settled, Here, Types
  <2>4. UNCHANGED <<routes, chan>>
    BY <1>3, <2>3 DEF Advances, Settles
  <2>5. Settled'
    BY <2>1, <2>2, Indices DEF Settled, Types
  <2>6. running => running'
    BY <1>3, Zenon DEF Advances
  <2> QED
    BY <2>1, <2>2, <2>4, <2>5, <2>6, ClocksStay, Zenon
<1>4. CASE Advances /\ ~(n > 0)
  <2>1. n = 0
    BY <1>4 DEF Types
  <2> QED
    BY <1>4, <2>1, ClocksUnstarted, Zenon DEF Advances
<1> QED
  BY <1>1, <1>2, <1>3, <1>4 DEF Proceeds

-----------------------------------------------------------------------------
(* Handles that were to be made before a call are made, unless a call has  *)
(* failed.                                                                 *)
LEMMA HandlesMade ==
    ASSUME Types, SoFar, ended = "no", ~failed, pc \in DOMAIN Steps[prog],
           NEW z, MadeBefore(prog, pc, z)
    PROVE  z \in made
  BY Zenon DEF SoFar, MadeBefore

(* A crash needs a failure, as main()'s steps go.                          *)
LEMMA MainCrash ==
    ASSUME Types, SoFar, CrashNeedsFailure, Main
    PROVE  CrashNeedsFailure'
<1> DEFINE Blamed ==
       \/ failed
       \/ prog \in {"one_file", "pjsua_file", "splitcomb"} /\ argc = 3
       \/ prog \in {"ics", "sound_conf"} /\ argc <= 2
       \/ prog = "sip" /\ pc = Len(SipStreamer)
<1> SUFFICES ASSUME ended' = "crashed"
             PROVE  Blamed'
  BY Zenon DEF CrashNeedsFailure
(* What a call is given is made before it; so it crashes on a handle only  *)
(* when some call has failed.                                              *)
<1>1. ASSUME NEW op, NEW x, NEW y, At(op, x, y), NEW needs,
             \A z \in needs : MadeBefore(prog, pc, z),
             ~(needs \subseteq made), failed' = failed
      PROVE  Blamed'
  BY <1>1, HandlesMade, Zenon DEF At
<1>2. ASSUME NEW x, NEW op \in MakeOps, NEW y, At(op, x, y)
      PROVE  \A z \in Needs(prog, x) : MadeBefore(prog, pc, z)
  BY <1>2, Texts, Zenon DEF At, Supplied
<1>3. ASSUME NEW x, NEW y
      PROVE  /\ At("channel", x, y) =>
                   \A z \in {"sc", x} : MadeBefore(prog, pc, z)
             /\ At("add", x, y) =>
                   \A z \in {"pool", x, y} : MadeBefore(prog, pc, z)
             /\ At("plug", x, y) =>
                   \A z \in {x, y} : MadeBefore(prog, pc, z)
             /\ At("start", x, y) =>
                   \A z \in {"master"} : MadeBefore(prog, pc, z)
             /\ At("call", x, y) =>
                   \A z \in {"account"} : MadeBefore(prog, pc, z)
  BY Texts, Zenon DEF At, Supplied
<1> USE DEF Goto, Leave, Calls
<1>5. CASE CheckArgs
  BY <1>5, Zenon DEF CheckArgs
<1>6. CASE Start
  BY <1>1, <1>3, <1>6, Zenon DEF Start, At
<1>7. CASE MakeCall
  <2>1. CASE prog = "sip"
    BY <1>7, <2>1, Texts, Zenon DEF MakeCall, At, Numbered, program
  <2>2. CASE prog # "sip"
    BY <1>1, <1>3, <1>7, <2>2, Zenon DEF MakeCall, At
  <2> QED
    BY <2>1, <2>2
<1>8. CASE Return
  BY <1>8 DEF Return
<1>9. ASSUME NEW x \in Things, Create(x) PROVE Blamed'
  BY <1>1, <1>2, <1>9, Zenon DEF Create, At, MakeOps
<1>10. ASSUME NEW x \in Things, ReadsNoArgument(x) PROVE Blamed'
  <2>1. /\ x \in Devices /\ ~(argc > Argument(prog, x))
        /\ Steps[prog][pc] = <<"make", x, "-">>
        /\ pc \in DOMAIN Steps[prog] /\ UNCHANGED <<prog, argc>>
    BY <1>10, Zenon DEF ReadsNoArgument, HasArgument, At, program
  <2>2. argc >= MinArgc(prog) /\ argc \in 1..4 /\ prog \in DOMAIN Steps
    BY <2>1, Indices, Texts DEF SoFar, Types
  <2>3. /\ prog # "sip"
        /\ prog \in {"ics", "sound_conf", "left_right", "pjsua_sound",
                     "splitcomb", "mic"} => x = "dev1"
    BY <2>1, Texts, Zenon DEF Numbered
  <2>4. \/ prog \in {"one_file", "pjsua_file", "splitcomb"} /\ argc = 3
        \/ prog \in {"ics", "sound_conf"} /\ argc <= 2
    <3>1. argc <= Argument(prog, x)
      BY <2>1, <2>2, ArgumentTable, SMT DEF Devices
    <3> QED
      BY <3>1, <2>1, <2>2, <2>3, ArgcTable, ArgumentTable DEF Steps, Devices
  <2> QED
    BY <2>1, <2>4, Zenon
<1>11. ASSUME NEW x \in Things, CreatePlayer(x) PROVE Blamed'
  BY <1>1, <1>2, <1>11, Zenon DEF CreatePlayer, At, MakeOps
<1>12. ASSUME NEW x \in Things, NEW c \in {0, 1}, CreateReverse(x, c)
       PROVE  Blamed'
  BY <1>1, <1>2, <1>12, Zenon DEF CreateReverse, At, MakeOps
<1>13. ASSUME NEW x \in Things, NEW c \in {0, 1}, SetChannel(x, c)
       PROVE  Blamed'
  BY <1>1, <1>3, <1>13, Zenon DEF SetChannel, At
<1>14. ASSUME NEW x \in Things, NEW y \in Things, AddPort(x, y)
       PROVE  Blamed'
  BY <1>1, <1>3, <1>14, Zenon DEF AddPort, At
<1>15. ASSUME NEW x \in Things, NEW y \in Things, Plug(x, y)
       PROVE  Blamed'
  BY <1>1, <1>3, <1>15, Zenon DEF Plug, At
<1>16. ASSUME NEW x \in Things, NEW y \in Things, Connect(x, y)
       PROVE  Blamed'
  BY <1>16, Zenon DEF Connect, At
<1>17. ASSUME NEW x \in Things, CheckStatus(x) PROVE Blamed'
  BY <1>17, Zenon DEF CheckStatus, At
<1>18. ASSUME NEW x \in Things, Unplug(x) PROVE Blamed'
  BY <1>18, Zenon DEF Unplug, At
<1> QED
  BY <1>5, <1>6, <1>7, <1>8, <1>9, <1>10, <1>11, <1>12, <1>13, <1>14,
     <1>15, <1>16, <1>17, <1>18, Zenon DEF Main

-----------------------------------------------------------------------------
(* What the threads of the clocks rest on.                                 *)

(* No program gives a side of its splitter the other side's channel.       *)
LEMMA SidesOwn ==
    ASSUME Types, Laid, prog # "left_right", NEW o \in Outputs
    PROVE  Sides[o] \in Revs => Sides[o] = Own(o)
<1>1. ASSUME NEW c \in {0, 1}, chan[c] \in Revs
      PROVE  chan[c] = IF c = 0 THEN "rev1" ELSE "rev2"
  <2>1. PICK k \in DOMAIN Steps[prog] :
           Steps[prog][k] \in {<<"reverse", chan[c], c>>,
                               <<"channel", chan[c], c>>}
    <3>1. chan[c] # "-"
      BY <1>1 DEF Revs
    <3>2. Said("reverse", chan[c], c) \/ Said("channel", chan[c], c)
      BY <3>1, Zenon DEF Laid
    <3> QED
      BY <3>2, Zenon DEF Said
  <2>2. CASE c = 0
    BY <2>1, <2>2, Texts, Zenon DEF Channels
  <2>3. CASE c = 1
    BY <1>1, <2>1, <2>3, Texts DEF Channels, Revs
  <2> QED
    BY <2>2, <2>3
<1> QED
  BY <1>1 DEF Sides, Own, Outputs

(* A master port is started when nothing is left to be laid.               *)
LEMMA MasterSettles ==
    ASSUME Types, Laid, running
    PROVE  prog \in Mastered /\ Settled
<1>1. PICK k \in DOMAIN Steps[prog] :
         k < pc /\ Steps[prog][k] = <<"start", "master", "-">>
  BY Zenon DEF Laid, Said
<1>2. prog \in Mastered /\ k = Len(Steps[prog])
  BY <1>1, Texts, Zenon DEF Layout
<1> QED
  BY <1>1, <1>2, Indices DEF Settled, Types

(* A device plays a side of a splitter, a splitter or a bridge, as its     *)
(* program has it; and sound only moves when the pipe is laid.             *)
LEMMA DeviceSettles ==
    ASSUME Types, Laid, NEW d \in Devices, plugged[d] # "-"
    PROVE  /\ prog # "left_right"
           /\ prog \in Mastered =>
                 plugged[d] = Own(IF d = "dev1" THEN "one" ELSE "two")
           /\ prog \notin Mastered =>
                 /\ plugged[d] = IF prog = "ics" THEN "sc" ELSE TheBridge
                 /\ routes # {} => Settled
<1>1. PICK k \in DOMAIN Steps[prog] :
         k < pc /\ Steps[prog][k] = <<"plug", d, plugged[d]>>
  BY Zenon DEF Laid, Said
<1>2. prog # "left_right"
  BY Zenon DEF Laid
<1>3. prog \in Mastered =>
         <<d, plugged[d]>> \in {<<"dev1", "rev1">>, <<"dev2", "rev2">>}
  BY <1>1, Texts, Zenon DEF Layout
<1>4. prog \notin Mastered =>
         /\ plugged[d] = IF prog \in {"ics", "left_right"} THEN "sc"
                         ELSE IF prog = "pjsua_sound" THEN "pjsua" ELSE "conf"
         /\ prog \notin {"mic", "left_right"} =>
               \A j \in (k + 1)..Len(Steps[prog]) :
                  Steps[prog][j][1] \notin Settles
  BY <1>1, Texts, Zenon DEF Layout
<1>5. ASSUME prog \notin Mastered, routes # {}
      PROVE  Settled
  <2>1. CASE prog = "mic"
    <3>1. PICK j \in DOMAIN Steps[prog] :
             j < pc /\ \E x, y : Steps[prog][j] = <<"route", x, y>>
      BY <1>5, Zenon DEF Laid, Said
    <3>2. j = Len(Steps[prog])
      BY <2>1, <3>1, Texts, Zenon DEF Layout
    <3> QED
      BY <3>1, <3>2, Indices DEF Settled, Types
  <2>2. CASE prog # "mic"
    <3>1. \A j \in DOMAIN Steps[prog] :
             j >= pc => j \in (k + 1)..Len(Steps[prog])
      BY <1>1, Indices DEF Types
    <3> QED
      BY <1>2, <1>4, <1>5, <2>2, <3>1, Zenon DEF Settled
  <2> QED
    BY <2>1, <2>2
<1> QED
  BY <1>2, <1>3, <1>4, <1>5 DEF Own, TheBridge

(* Every turn of a clock is one like this: an output takes from its own    *)
(* reverse channel, if from any; sound is given wherever a connection      *)
(* leads, or nowhere, once the sources have ended; and what is given to an *)
(* output is what it is there to play.                                     *)
Turn(taken, given, direct) ==
    /\ Carry(taken, given, direct)
    /\ given \in [Revs -> SUBSET Sources]
    /\ direct \in [Outputs -> SUBSET Sources]
    /\ \A o \in Outputs : taken[o] \in Revs => taken[o] = Own(o)
    /\ \/ /\ \A r \in Revs : given[r] = {}
          /\ \A o \in Outputs : direct[o] = {}
       \/ /\ \A r \in Revs : given[r] # {} <=> Feeds(r)
          /\ \A o \in Outputs : direct[o] # {} <=> Direct(o)
          /\ Settled /\ (prog \in Mastered => running)
    /\ \A o \in Outputs : Direct(o) =>
          (taken[o] = Own(o) <=> Takes(o) /\ Sides[o] = Own(o))
    /\ \A o \in Outputs : direct[o] = {} \/ Direct(o)
    /\ ~Excused => /\ \A r \in Revs : given[r] \subseteq Plays[OutOf(r)]
                   /\ \A o \in Outputs : direct[o] \subseteq Plays[o]

LEMMA Audible ==
    ASSUME Types, AsSaid, ~Excused, prog # "left_right",
           NEW y, NEW s \in Routed(y)
    PROVE  /\ y = "rev1" => s \in Plays["one"]
           /\ y = "rev2" => s \in Plays["two"]
           /\ y \in Bridges =>
                 /\ prog # "ics"
                 /\ s \in Plays["one"]
                 /\ prog \in Mastered => s \in Plays["two"]
<1>1. s \in Sources /\ <<s, y>> \in routes
  BY Zenon DEF Routed
<1>2. Kept
  BY DEF Kept, Excused
<1>3. Said("route", s, y)
  BY <1>1, <1>2 DEF AsSaid
<1> QED
  BY <1>1, <1>3, Texts, Zenon DEF Said, Tuned

LEMMA MasterTurns ==
    ASSUME Types, Laid, AsSaid, MasterTick
    PROVE  \E taken, given, direct : Turn(taken, given, direct)
<1> DEFINE from == IF prog = "one_file" THEN {"file"} ELSE Fed("pjsua")
           given == [r \in Revs |-> IF <<"conf", "sc">> \in routes
                                      /\ r \in {chan[0], chan[1]}
                                   THEN from ELSE {}]
<1>1. Carry(Nothing, given, Silence) /\ running /\ n < MaxFrames
  BY Zenon DEF MasterTick
<1>2. prog \in Mastered /\ Settled
  BY <1>1, MasterSettles
<1>3. Fed("pjsua") = Routed("pjsua")
  BY <1>1, Zenon DEF Fed, Routed
<1>4. from \subseteq Sources
  BY <1>3 DEF Routed, Sources
<1>5. \A r \in Revs : given[r] # {} <=> Feeds(r)
  BY <1>2, <1>3 DEF Feeds
<1>6. \A o \in Outputs : ~Direct(o)
  BY <1>2, Zenon DEF Direct
<1>7. ASSUME ~Excused, NEW r \in Revs
      PROVE  given[r] \subseteq Plays[OutOf(r)]
  <2>1. CASE prog = "one_file"
    <3>1. Plays = [one |-> {"file"}, two |-> {"file"}]
      BY <2>1, PlaysTable, Zenon
    <3> QED
      BY <2>1, <3>1 DEF OutOf
  <2>2. CASE prog # "one_file"
    <3>1. \A s \in Routed("pjsua") : s \in Plays["one"] /\ s \in Plays["two"]
      <4>1. prog # "left_right" /\ "pjsua" \in Bridges
        BY <1>2 DEF Mastered, Bridges
      <4> QED
        BY <1>2, <1>7, <4>1, Audible, Zenon
    <3> QED
      BY <1>3, <2>2, <3>1, Zenon DEF OutOf
  <2> QED
    BY <2>1, <2>2
<1> HIDE DEF from
<1>8. given \in [Revs -> SUBSET Sources]
  BY <1>4
<1> HIDE DEF given
<1>9. /\ \A o \in Outputs : Nothing[o] \notin Revs /\ Silence[o] = {}
      /\ Silence \in [Outputs -> SUBSET Sources]
  BY DEF Nothing, Silence, Revs
<1> QED
  <2>1. Turn(Nothing, given, Silence)
    BY <1>1, <1>2, <1>5, <1>6, <1>7, <1>8, <1>9, Zenon DEF Turn
  <2> QED
    BY <2>1, Zenon

LEMMA DeviceTurns ==
    ASSUME Types, Laid, AsSaid, NEW d \in Devices, Device(d)
    PROVE  \E taken, given, direct : Turn(taken, given, direct)
<1> DEFINE none == [r \in Revs |-> {}]
           fed == [r \in Revs |-> Fed(r)]
<1>1. plugged[d] # "-" /\ ended = "no"
  BY DEF Device, PlaySide, PlayStereo, PlayBridge, Revs, Bridges
<1>11. prog # "left_right"
  BY <1>1, DeviceSettles, Zenon
<1>2. \A o \in Outputs : Sides[o] \in Revs => Sides[o] = Own(o)
  BY <1>1, DeviceSettles, SidesOwn, Zenon
<1>3. /\ none \in [Revs -> SUBSET Sources] /\ fed \in [Revs -> SUBSET Sources]
      /\ Silence \in [Outputs -> SUBSET Sources]
      /\ \A o \in Outputs : Nothing[o] = "-" /\ Silence[o] = {}
      /\ \A o \in Outputs : Own(o) \in Revs /\ Own(o) # "-"
      /\ "-" \notin Revs
  BY DEF Fed, Silence, Nothing, Own, Revs
<1>4. \A y : Fed(y) = {} \/ Fed(y) = Routed(y)
  BY Zenon DEF Fed, Routed
<1>5. n < MaxFrames => \A y : Fed(y) = Routed(y)
  BY Zenon DEF Fed, Routed
<1>6. ~(n < MaxFrames) => \A y : Fed(y) = {}
  BY Zenon DEF Fed
<1>7. \A y : Routed(y) # {} => routes # {}
  BY Zenon DEF Routed
<1>8. CASE PlaySide(d)
  <2> DEFINE own == IF d = "dev1" THEN "one" ELSE "two"
             taken == [o \in Outputs |-> IF o = own THEN plugged[d] ELSE "-"]
  <2>1. Carry(taken, none, Silence) /\ plugged[d] \in Revs
    BY <1>8, Zenon DEF PlaySide
  <2>2. prog \in Mastered
    BY <1>1, <2>1, DeviceSettles DEF TheBridge, Revs
  <2>3. \A o \in Outputs : ~Direct(o)
    BY <2>2, Zenon DEF Direct
  <2>4. plugged[d] = Own(own)
    BY <1>1, <2>2, DeviceSettles, Zenon
  <2>5. \A o \in Outputs : taken[o] \in Revs => taken[o] = Own(o)
    BY <1>3, <2>4, Zenon
  <2> HIDE DEF taken
  <2>6. \A r \in Revs : none[r] = {}
    OBVIOUS
  <2> HIDE DEF none
  <2>7. Turn(taken, none, Silence)
    BY <1>3, <2>1, <2>3, <2>5, <2>6, Zenon DEF Turn
  <2> QED
    BY <2>7, Zenon
<1>9. CASE PlayStereo(d)
  <2> DEFINE direct == [o \in Outputs |-> IF Sides[o] \in Bridges
                                          THEN Fed(Sides[o]) ELSE {}]
  <2>1. Carry(Sides, fed, direct) /\ plugged[d] = "sc"
    BY <1>9, Zenon DEF PlayStereo
  <2>2. prog = "ics"
    BY <1>1, <2>1, DeviceSettles DEF TheBridge, Own
  <2>3. prog \notin Mastered /\ (routes # {} => Settled)
    BY <1>1, <2>2, DeviceSettles DEF Mastered
  <2>4. direct \in [Outputs -> SUBSET Sources]
    BY DEF Fed
  <2>5. \A o \in Outputs : Direct(o) <=>
                              Sides[o] \in Bridges /\ Routed(Sides[o]) # {}
    BY <2>2, <2>3, Zenon DEF Direct
  <2>6. \A r \in Revs : Feeds(r) <=> Routed(r) # {}
    BY <2>3, Zenon DEF Feeds
  <2>7. \A o \in Outputs : Takes(o)
    BY <2>2, Zenon DEF Takes
  <2>8. \A r \in Revs : fed[r] = Fed(r)
    OBVIOUS
  <2>9. \A o \in Outputs :
           direct[o] = IF Sides[o] \in Bridges THEN Fed(Sides[o]) ELSE {}
    OBVIOUS
  <2> HIDE DEF fed, direct
  <2>10. \/ /\ \A r \in Revs : fed[r] = {}
            /\ \A o \in Outputs : direct[o] = {}
         \/ /\ \A r \in Revs : fed[r] # {} <=> Feeds(r)
            /\ \A o \in Outputs : direct[o] # {} <=> Direct(o)
            /\ Settled /\ (prog \in Mastered => running)
    <3>1. CASE ~(n < MaxFrames)
      BY <1>6, <2>8, <2>9, <3>1, Zenon
    <3>2. CASE routes = {}
      BY <1>4, <1>7, <2>8, <2>9, <3>2, Zenon
    <3>3. CASE n < MaxFrames /\ routes # {}
      <4>1. \A r \in Revs : fed[r] # {} <=> Feeds(r)
        BY <1>5, <2>6, <2>8, <3>3, Zenon
      <4>2. \A o \in Outputs : direct[o] # {} <=> Direct(o)
        BY <1>5, <2>5, <2>9, <3>3
      <4> QED
        BY <2>3, <3>3, <4>1, <4>2, Zenon
    <3> QED
      BY <3>1, <3>2, <3>3
  <2>11. \A o \in Outputs : direct[o] = {} \/ Direct(o)
    BY <1>4, <2>5, <2>9, Zenon
  <2>12. ASSUME ~Excused, NEW r \in Revs
         PROVE  fed[r] \subseteq Plays[OutOf(r)]
    BY <1>4, <1>11, <2>2, <2>8, <2>12, Audible DEF Revs, OutOf
  <2>13. ASSUME ~Excused, NEW o \in Outputs
         PROVE  direct[o] \subseteq Plays[o]
    <3>1. \A y \in Bridges : \A s \in Routed(y) : FALSE
      BY <1>11, <2>2, <2>13, Audible, Zenon
    <3>2. ~Direct(o)
      BY <2>5, <3>1
    <3> QED
      BY <2>11, <3>2
  <2>14. Turn(Sides, fed, direct)
    BY <1>2, <1>3, <2>1, <2>4, <2>7, <2>10, <2>11, <2>12, <2>13, Zenon
    DEF Turn
  <2> QED
    BY <2>14, Zenon
<1>10. CASE PlayBridge(d)
  <2> DEFINE taken == IF <<"sc", plugged[d]>> \in routes THEN Sides ELSE Nothing
             direct == [o \in Outputs |-> IF o = "one" THEN Fed(plugged[d])
                                          ELSE {}]
  <2>1. Carry(taken, fed, direct) /\ plugged[d] \in Bridges
    BY <1>10, Zenon DEF PlayBridge
  <2>2. prog \notin Mastered /\ prog # "ics" /\ plugged[d] = TheBridge
    BY <1>1, <2>1, DeviceSettles DEF Bridges, Own
  <2>3. routes # {} => Settled
    BY <1>1, <2>2, DeviceSettles, Zenon
  <2>4. direct \in [Outputs -> SUBSET Sources]
    BY DEF Fed
  <2>5. \A o \in Outputs : Direct(o) <=> o = "one" /\ Routed(TheBridge) # {}
    BY <2>2, Zenon DEF Direct
  <2>6. \A r \in Revs : Feeds(r) <=> Routed(r) # {}
    BY <2>2, Zenon DEF Feeds
  <2>7. \A o \in Outputs : Takes(o) <=> <<"sc", TheBridge>> \in routes
    BY <2>2, Zenon DEF Takes
  <2>8. \A r \in Revs : fed[r] = Fed(r)
    OBVIOUS
  <2>9. \A o \in Outputs :
           direct[o] = IF o = "one" THEN Fed(TheBridge) ELSE {}
    BY <2>2
  <2>10. taken = IF <<"sc", TheBridge>> \in routes THEN Sides ELSE Nothing
    BY <2>2, Zenon
  <2> HIDE DEF fed, direct, taken
  <2>11. \/ /\ \A r \in Revs : fed[r] = {}
            /\ \A o \in Outputs : direct[o] = {}
         \/ /\ \A r \in Revs : fed[r] # {} <=> Feeds(r)
            /\ \A o \in Outputs : direct[o] # {} <=> Direct(o)
            /\ Settled /\ (prog \in Mastered => running)
    <3>1. CASE ~(n < MaxFrames)
      BY <1>6, <2>8, <2>9, <3>1, Zenon
    <3>2. CASE routes = {}
      BY <1>4, <1>7, <2>8, <2>9, <3>2, Zenon
    <3>3. CASE n < MaxFrames /\ routes # {}
      <4>1. \A r \in Revs : fed[r] # {} <=> Feeds(r)
        BY <1>5, <2>6, <2>8, <3>3, Zenon
      <4>2. \A o \in Outputs : direct[o] # {} <=> Direct(o)
        BY <1>5, <2>5, <2>9, <3>3
      <4> QED
        BY <2>2, <2>3, <3>3, <4>1, <4>2, Zenon
    <3> QED
      BY <3>1, <3>2, <3>3
  <2>12. \A o \in Outputs : direct[o] = {} \/ Direct(o)
    BY <1>4, <2>5, <2>9, Zenon
  <2>13. \A o \in Outputs : taken[o] \in Revs => taken[o] = Own(o)
    BY <1>2, <1>3, <2>10, Zenon
  <2>14. \A o \in Outputs : taken[o] = Own(o) <=> Takes(o) /\ Sides[o] = Own(o)
    BY <1>3, <2>7, <2>10, Zenon
  <2>15. ASSUME ~Excused, NEW r \in Revs
         PROVE  fed[r] \subseteq Plays[OutOf(r)]
    BY <1>4, <1>11, <2>8, <2>15, Audible DEF Revs, OutOf
  <2>16. ASSUME ~Excused, NEW o \in Outputs
         PROVE  direct[o] \subseteq Plays[o]
    <3>1. CASE o = "one"
      BY <1>4, <1>11, <2>1, <2>2, <2>9, <2>16, <3>1, Audible
    <3>2. CASE o # "one"
      BY <2>9, <3>2, Zenon
    <3> QED
      BY <3>1, <3>2
  <2>17. Turn(taken, fed, direct)
    BY <1>3, <2>1, <2>4, <2>11, <2>12, <2>13, <2>14, <2>15, <2>16, Zenon
    DEF Turn
  <2> QED
    BY <2>17, Zenon
<1> QED
  BY <1>8, <1>9, <1>10, Zenon DEF Device

-----------------------------------------------------------------------------
(* What a turn does to one output, its reverse channel and the count.      *)
Taking(taken, r) == taken[OutOf(r)] = r /\ buf[r] # <<>>
Remains(taken, r) == IF Taking(taken, r) THEN Tail(buf[r]) ELSE buf[r]
Given(given, direct) ==
    (\E r \in Revs : given[r] # {}) \/ (\E o \in Outputs : direct[o] # {})

Moves(taken, given, direct, r) ==
    /\ buf'[r] = IF given[r] = {} THEN Remains(taken, r)
                 ELSE Append(IF Len(Remains(taken, r)) = Burst
                             THEN Tail(Remains(taken, r)) ELSE Remains(taken, r),
                             [no |-> n + 1, from |-> given[r]])
    /\ dropped'[r] = IF given[r] # {} /\ Len(Remains(taken, r)) = Burst
                     THEN Head(Remains(taken, r)).no ELSE dropped[r]
    /\ last'[OutOf(r)] = IF direct[OutOf(r)] # {} THEN n + 1
                         ELSE IF Taking(taken, r) THEN Head(buf[r]).no
                         ELSE last[OutOf(r)]
    /\ heard'[OutOf(r)] = heard[OutOf(r)] \cup direct[OutOf(r)] \cup
                          (IF Taking(taken, r) THEN Head(buf[r]).from ELSE {})

LEMMA TurnMoves ==
    ASSUME Types, NEW taken, NEW given, NEW direct,
           Turn(taken, given, direct)
    PROVE  /\ UNCHANGED <<program, pc, ended, failed, graph, call>>
           /\ n' = IF Given(given, direct) THEN n + 1 ELSE n
           /\ \A r \in Revs : Moves(taken, given, direct, r)
<1>1. /\ Carry(taken, given, direct)
      /\ direct \in [Outputs -> SUBSET Sources]
      /\ \A o \in Outputs : taken[o] \in Revs => taken[o] = Own(o)
  BY Zenon DEF Turn
<1>2. direct # Silence <=> \E o \in Outputs : direct[o] # {}
  BY <1>1 DEF Silence
<1>3. /\ UNCHANGED <<program, pc, ended, failed, graph, call>>
      /\ n' = IF Given(given, direct) THEN n + 1 ELSE n
  BY <1>1, <1>2, Zenon DEF Carry, Given
<1>4. ASSUME NEW r \in Revs PROVE Moves(taken, given, direct, r)
  <2>1. OutOf(r) \in Outputs /\ Own(OutOf(r)) = r
    BY DEF OutOf, Outputs, Own, Revs
  <2>2. \A o \in Outputs : taken[o] = r => o = OutOf(r)
    BY <1>1 DEF OutOf, Outputs, Own, Revs
  <2>3. (\E o \in Outputs : taken[o] = r /\ taken[o] \in Revs
                            /\ buf[taken[o]] # <<>>) <=> Taking(taken, r)
    BY <2>1, <2>2, Zenon DEF Taking
  <2>4. (taken[OutOf(r)] \in Revs /\ buf[taken[OutOf(r)]] # <<>>)
           <=> Taking(taken, r)
    BY <1>1, <2>1, Zenon DEF Taking
  <2>5. Taking(taken, r) => taken[OutOf(r)] = r
    BY Zenon DEF Taking
  <2> QED
    BY <1>1, <2>1, <2>3, <2>4, <2>5, Zenon DEF Carry, Moves, Remains
<1> QED
  BY <1>3, <1>4, Zenon

LEMMA RowTail ==
    ASSUME NEW s \in Seq(Frames), NEW lo \in Nat, s # <<>>, Row(s, lo)
    PROVE  /\ Tail(s) \in Seq(Frames) /\ Len(Tail(s)) = Len(s) - 1
           /\ Len(s) >= 1 /\ Head(s) \in Frames /\ Head(s) = s[1]
           /\ Head(s).no = lo + 1 /\ Row(Tail(s), lo + 1)
<1>1. /\ Tail(s) \in Seq(Frames) /\ Len(Tail(s)) = Len(s) - 1
      /\ Len(s) \in Nat /\ Len(s) >= 1 /\ Head(s) = s[1] /\ s[1] \in Frames
      /\ \A i \in 1..Len(Tail(s)) : Tail(s)[i] = s[i + 1]
  OBVIOUS
<1> QED
  BY <1>1 DEF Row

LEMMA RowAppend ==
    ASSUME NEW s \in Seq(Frames), NEW lo \in Nat, NEW f \in Frames, Row(s, lo),
           f.no = lo + Len(s) + 1
    PROVE  /\ Append(s, f) \in Seq(Frames) /\ Len(Append(s, f)) = Len(s) + 1
           /\ Row(Append(s, f), lo)
<1>1. /\ Append(s, f) \in Seq(Frames) /\ Len(Append(s, f)) = Len(s) + 1
      /\ Len(s) \in Nat
      /\ \A i \in 1..(Len(s) + 1) :
            Append(s, f)[i] = IF i = Len(s) + 1 THEN f ELSE s[i]
  OBVIOUS
<1>2. ASSUME NEW i \in 1..(Len(s) + 1)
      PROVE  Append(s, f)[i].no = lo + i
  <2>1. CASE i = Len(s) + 1
    <3>1. Append(s, f)[i] = f
      BY <1>1, <2>1
    <3> QED
      BY <1>1, <2>1, <3>1
  <2>2. CASE i # Len(s) + 1
    <3>1. i \in 1..Len(s) /\ Append(s, f)[i] = s[i]
      BY <1>1, <2>2
    <3> QED
      BY <3>1, Zenon DEF Row
  <2> QED
    BY <2>1, <2>2
<1> QED
  BY <1>1, <1>2, Zenon DEF Row

(* What is left in a buffer when its output has taken from it.             *)
LEMMA RemainsTyped ==
    ASSUME Types, NEW taken, NEW r \in Revs
    PROVE  /\ buf[r] \in Seq(Frames) /\ Remains(taken, r) \in Seq(Frames)
           /\ Taking(taken, r) => Head(buf[r]) \in Frames
           /\ Len(Remains(taken, r)) = Burst =>
                 /\ Remains(taken, r) # <<>>
                 /\ Tail(Remains(taken, r)) \in Seq(Frames)
                 /\ Head(Remains(taken, r)) \in Frames
<1>1. buf[r] \in Seq(Frames)
  BY DEF Types
<1>2. buf[r] # <<>> => /\ Tail(buf[r]) \in Seq(Frames)
                       /\ Head(buf[r]) \in Frames
  BY <1>1
<1>3. Remains(taken, r) \in Seq(Frames)
  BY <1>1, <1>2, Zenon DEF Remains, Taking
<1>4. ASSUME NEW s \in Seq(Frames), Len(s) = Burst
      PROVE  s # <<>> /\ Tail(s) \in Seq(Frames) /\ Head(s) \in Frames
  <2>1. s # <<>>
    BY <1>4, BoundsAssumption
  <2> QED
    BY <2>1
<1> QED
  BY <1>1, <1>2, <1>3, <1>4, Zenon DEF Taking

LEMMA TurnTypes ==
    ASSUME Types, NEW taken, NEW given, NEW direct,
           Turn(taken, given, direct)
    PROVE  Types'
<1>1. /\ given \in [Revs -> SUBSET Sources]
      /\ direct \in [Outputs -> SUBSET Sources]
  BY Zenon DEF Turn
<1>2. n \in Nat /\ n' \in Nat /\ n + 1 \in Nat
  <2>1. n' \in {n, n + 1}
    BY TurnMoves, Zenon
  <2> QED
    BY <2>1 DEF Types
<1>3. ASSUME NEW r \in Revs
      PROVE  /\ buf'[r] \in Seq(Frames) /\ dropped'[r] \in Nat
             /\ last'[OutOf(r)] \in Nat
             /\ heard'[OutOf(r)] \in SUBSET Sources
  <2> DEFINE rest == Remains(taken, r)
             f == [no |-> n + 1, from |-> given[r]]
  <2>1. Moves(taken, given, direct, r)
    BY TurnMoves
  <2>2. rest \in Seq(Frames)
    BY RemainsTyped
  <2>3. f \in Frames
    BY <1>1, <1>2 DEF Frames
  <2>4. /\ dropped[r] \in Nat /\ last[OutOf(r)] \in Nat
        /\ heard[OutOf(r)] \in SUBSET Sources
        /\ direct[OutOf(r)] \in SUBSET Sources
    BY <1>1 DEF Types, OutOf, Outputs
  <2>5. /\ Taking(taken, r) => /\ Head(buf[r]).no \in Nat
                               /\ Head(buf[r]).from \in SUBSET Sources
        /\ Len(rest) = Burst => Head(rest).no \in Nat
    BY RemainsTyped DEF Frames
  <2>6. Len(rest) = Burst => Tail(rest) \in Seq(Frames)
    BY RemainsTyped
  <2> HIDE DEF rest, f
  <2>7. \A s \in Seq(Frames) : Append(s, f) \in Seq(Frames)
    BY <2>3
  <2>8. buf'[r] = IF given[r] = {} THEN rest
                  ELSE Append(IF Len(rest) = Burst THEN Tail(rest) ELSE rest, f)
    BY <2>1, Zenon DEF Moves, rest, f
  <2>9. buf'[r] \in Seq(Frames)
    BY <2>2, <2>6, <2>7, <2>8, Zenon
  <2>10. dropped'[r] \in Nat
    BY <2>1, <2>4, <2>5, Zenon DEF Moves, rest
  <2>11. last'[OutOf(r)] \in Nat
    BY <1>2, <2>1, <2>4, <2>5, Zenon DEF Moves
  <2>12. heard'[OutOf(r)] \in SUBSET Sources
    BY <2>1, <2>4, <2>5 DEF Moves
  <2> QED
    BY <2>9, <2>10, <2>11, <2>12
<1>4. \A o \in Outputs : \E r \in Revs : o = OutOf(r)
  BY DEF Outputs, Revs, OutOf
<1>5. /\ buf' \in [Revs -> Seq(Frames)] /\ dropped' \in [Revs -> Nat]
      /\ last' \in [Outputs -> Nat] /\ heard' \in [Outputs -> SUBSET Sources]
  <2>1. Carry(taken, given, direct)
    BY Zenon DEF Turn
  <2>2. buf' = [r \in Revs |-> buf'[r]]
    BY <2>1, Zenon DEF Carry
  <2>3. dropped' = [r \in Revs |-> dropped'[r]]
    BY <2>1, Zenon DEF Carry
  <2>4. last' = [o \in Outputs |-> last'[o]]
    BY <2>1, Zenon DEF Carry
  <2>5. heard' = [o \in Outputs |-> heard'[o]]
    BY <2>1, Zenon DEF Carry
  <2> QED
    BY <1>3, <1>4, <2>2, <2>3, <2>4, <2>5, Zenon
<1> QED
  BY <1>2, <1>5, TurnMoves, Zenon DEF Types, program, graph

(* A buffer in a row stays in a row; its output plays the next frame of    *)
(* the row, if any.                                                        *)
LEMMA LinedTurn ==
    ASSUME Types, NEW taken, NEW given, NEW direct,
           Turn(taken, given, direct),
           NEW r \in Revs, Lined(r), ~Direct(OutOf(r))
    PROVE  /\ Lined(r)'
           /\ last'[OutOf(r)] \in {last[OutOf(r)], 1 + Low(r)}
<1> DEFINE lo == Low(r)
           o == OutOf(r)
           rest == Remains(taken, r)
           at == IF Taking(taken, r) THEN lo + 1 ELSE lo
           f == [no |-> n + 1, from |-> given[r]]
<1>1. o \in Outputs
  BY DEF OutOf, Outputs
<1>2. /\ n \in Nat /\ dropped[r] \in Nat /\ last[o] \in Nat
      /\ buf[r] \in Seq(Frames) /\ Len(buf[r]) \in Nat
  BY <1>1 DEF Types
<1>3. lo \in Nat /\ dropped[r] <= lo /\ last[o] <= lo
      /\ (lo = dropped[r] \/ lo = last[o])
  BY <1>2 DEF Low
<1>4. direct[o] = {}
  BY <1>1, Zenon DEF Turn
<1>5. Row(buf[r], lo) /\ lo + Len(buf[r]) <= n
      /\ (Feeds(r) => lo + Len(buf[r]) = n)
  BY Zenon DEF Lined
<1>6. /\ Moves(taken, given, direct, r)
      /\ n' = IF Given(given, direct) THEN n + 1 ELSE n
      /\ Feeds(r)' <=> Feeds(r)
  BY TurnMoves, Zenon DEF Feeds, Routed, program, graph
<1>7. /\ rest \in Seq(Frames) /\ Row(rest, at) /\ at \in Nat
      /\ Len(rest) \in Nat /\ at + Len(rest) = lo + Len(buf[r])
  <2>1. CASE Taking(taken, r)
    BY <1>2, <1>3, <1>5, <2>1, RowTail DEF Remains, Taking
  <2>2. CASE ~Taking(taken, r)
    BY <1>2, <1>3, <1>5, <2>2 DEF Remains
  <2> QED
    BY <2>1, <2>2
<1>8. last'[o] = IF Taking(taken, r) THEN lo + 1 ELSE last[o]
  <2>1. CASE Taking(taken, r)
    <3>1. Head(buf[r]).no = lo + 1
      BY <1>2, <1>3, <1>5, <2>1, RowTail, Zenon DEF Taking
    <3> QED
      BY <1>4, <1>6, <2>1, <3>1, Zenon DEF Moves
  <2>2. CASE ~Taking(taken, r)
    BY <1>4, <1>6, <2>2, Zenon DEF Moves
  <2> QED
    BY <2>1, <2>2
<1>9. Low(r)' = IF dropped'[r] > last'[o] THEN dropped'[r] ELSE last'[o]
  BY Zenon DEF Low, OutOf
<1>10. /\ given[r] = {} =>
             buf'[r] = rest /\ dropped'[r] = dropped[r]
       /\ given[r] # {} /\ Len(rest) # Burst =>
             buf'[r] = Append(rest, f) /\ dropped'[r] = dropped[r]
       /\ given[r] # {} /\ Len(rest) = Burst =>
             buf'[r] = Append(Tail(rest), f) /\ dropped'[r] = Head(rest).no
  BY <1>6, Zenon DEF Moves
<1>11. /\ n' \in {n, n + 1}
       /\ given[r] # {} => n' = n + 1 /\ Feeds(r) /\ f \in Frames
       /\ given[r] = {} /\ Feeds(r) => n' = n
  <2>1. given[r] # {} => Given(given, direct)
    BY Zenon DEF Given
  <2>2. given[r] # {} => Feeds(r)
    BY Zenon DEF Turn
  <2>3. given[r] = {} /\ Feeds(r) => ~Given(given, direct)
    BY Zenon DEF Turn, Given
  <2>4. f \in Frames
    BY <1>2 DEF Turn, Frames
  <2> QED
    BY <1>6, <2>1, <2>2, <2>3, <2>4, Zenon
<1> HIDE DEF rest, f, lo, at, o
<1>12. ASSUME given[r] = {} PROVE Lined(r)'
  <2>1. buf'[r] = rest /\ dropped'[r] = dropped[r] /\ Low(r)' = at
    BY <1>2, <1>3, <1>8, <1>9, <1>10, <1>12 DEF at
  <2>2. /\ Row(rest, at) /\ at + Len(rest) <= n'
        /\ Feeds(r) => at + Len(rest) = n'
    BY <1>2, <1>3, <1>5, <1>7, <1>11, <1>12 DEF lo
  <2> QED
    BY <1>6, <2>1, <2>2, Zenon DEF Lined
<1>13. ASSUME given[r] # {}, Len(rest) # Burst PROVE Lined(r)'
  <2>1. buf'[r] = Append(rest, f) /\ Low(r)' = at
    BY <1>2, <1>3, <1>8, <1>9, <1>10, <1>13 DEF at
  <2>2. f.no = at + Len(rest) + 1 /\ n' = at + Len(rest) + 1
    BY <1>2, <1>3, <1>5, <1>7, <1>11, <1>13 DEF lo, f
  <2>3. /\ Row(Append(rest, f), at) /\ Len(Append(rest, f)) = Len(rest) + 1
    BY <1>7, <1>11, <1>13, <2>2, RowAppend
  <2>4. at + Len(Append(rest, f)) = n'
    BY <1>7, <2>2, <2>3
  <2>5. at + Len(Append(rest, f)) <= n'
    BY <1>2, <1>11, <2>4
  <2> QED
    BY <1>6, <2>1, <2>3, <2>4, <2>5, Zenon DEF Lined
<1>14. ASSUME given[r] # {}, Len(rest) = Burst PROVE Lined(r)'
  <2>1. /\ Tail(rest) \in Seq(Frames) /\ Len(Tail(rest)) = Len(rest) - 1
        /\ Head(rest).no = at + 1 /\ Row(Tail(rest), at + 1)
    BY <1>7, <1>14, RowTail, BoundsAssumption
  <2>2. buf'[r] = Append(Tail(rest), f) /\ dropped'[r] = at + 1
    BY <1>10, <1>14, <2>1, Zenon
  <2>3. last'[o] \in Nat /\ last'[o] <= at
    BY <1>2, <1>3, <1>8 DEF at
  <2>4. Low(r)' = at + 1
    BY <1>7, <1>9, <2>2, <2>3
  <2>5. /\ f.no = (at + 1) + Len(Tail(rest)) + 1
        /\ n' = (at + 1) + Len(Tail(rest)) + 1
    <3>1. lo + Len(buf[r]) = n /\ n' = n + 1
      BY <1>5, <1>11, <1>14, Zenon DEF lo
    <3>2. f.no = n + 1
      BY DEF f
    <3>3. lo + Len(buf[r]) = at + Len(rest) /\ Len(Tail(rest)) = Len(rest) - 1
      BY <1>7, <2>1, Zenon
    <3>4. \A a, l \in Nat : n = a + l => n + 1 = (a + 1) + (l - 1) + 1
      OBVIOUS
    <3>5. n + 1 = (at + 1) + (Len(rest) - 1) + 1
      BY <1>7, <3>1, <3>3, <3>4, Zenon
    <3> QED
      BY <3>1, <3>2, <3>3, <3>5, Zenon
  <2>6. at + 1 \in Nat /\ f \in Frames
    BY <1>7, <1>11, <1>14
  <2>7. /\ Row(Append(Tail(rest), f), at + 1)
        /\ Len(Append(Tail(rest), f)) = Len(Tail(rest)) + 1
    BY <2>1, <2>5, <2>6, RowAppend, Zenon
  <2>8. (at + 1) + Len(Append(Tail(rest), f)) = n'
    BY <1>7, <2>1, <2>5, <2>7
  <2>9. (at + 1) + Len(Append(Tail(rest), f)) <= n'
    BY <1>2, <1>11, <2>8
  <2> QED
    BY <1>6, <2>2, <2>4, <2>7, <2>8, <2>9, Zenon DEF Lined
<1>15. last'[OutOf(r)] \in {last[OutOf(r)], 1 + Low(r)}
  BY <1>3, <1>8 DEF lo, o
<1> QED
  BY <1>12, <1>13, <1>14, <1>15

(* An output that is given sound straight plays the newest frame, and a    *)
(* buffer it takes from besides is emptied at every turn.                  *)
LEMMA AheadTurn ==
    ASSUME Types, NEW taken, NEW given, NEW direct,
           Turn(taken, given, direct),
           NEW r \in Revs, Ahead(r), Direct(OutOf(r))
    PROVE  /\ Ahead(r)'
           /\ last'[OutOf(r)] \in {last[OutOf(r)], 1 + Low(r)}
<1> DEFINE o == OutOf(r)
           rest == Remains(taken, r)
           f == [no |-> n + 1, from |-> given[r]]
           both == Sides[o] = r /\ Takes(o)
<1>1. o \in Outputs /\ Own(o) = r
  BY DEF OutOf, Outputs, Own, Revs
<1>2. /\ n \in Nat /\ dropped[r] \in Nat /\ last[o] \in Nat
      /\ buf[r] \in Seq(Frames) /\ Len(buf[r]) \in Nat
      /\ rest \in Seq(Frames) /\ Len(rest) \in Nat
  <2>1. rest \in Seq(Frames)
    BY RemainsTyped
  <2> QED
    BY <1>1, <2>1 DEF Types
<1>3. /\ last[o] = n /\ dropped[r] <= n
      /\ \A i \in 1..Len(buf[r]) : buf[r][i].no <= n
      /\ both => Len(buf[r]) <= 1 /\ \A i \in 1..Len(buf[r]) : buf[r][i].no = n
      /\ buf[r] # <<>> => Feeds(r)
  BY Zenon DEF Ahead
<1>4. Low(r) = n
  BY <1>2, <1>3 DEF Low
<1>5. taken[o] = r <=> both
  BY <1>1, Zenon DEF Turn
<1>6. /\ Moves(taken, given, direct, r)
      /\ Feeds(r)' <=> Feeds(r)
      /\ (Sides[o] = r /\ Takes(o))' <=> both
  BY TurnMoves, Zenon DEF Feeds, Routed, Sides, Takes, TheBridge, program, graph
<1>7. \/ /\ given[r] = {} /\ direct[o] = {} /\ n' = n
      \/ /\ given[r] # {} <=> Feeds(r)
         /\ direct[o] # {} /\ n' = n + 1
  <2>1. CASE /\ \A s \in Revs : given[s] = {}
             /\ \A p \in Outputs : direct[p] = {}
    BY <1>1, <2>1, TurnMoves, Zenon DEF Given
  <2>2. CASE /\ \A s \in Revs : given[s] # {} <=> Feeds(s)
             /\ \A p \in Outputs : direct[p] # {} <=> Direct(p)
    BY <1>1, <2>2, TurnMoves, Zenon DEF Given
  <2> QED
    BY <2>1, <2>2, Zenon DEF Turn
<1>8. /\ \A i \in 1..Len(rest) : rest[i].no <= n
      /\ both => rest = <<>>
      /\ rest # <<>> => Feeds(r)
  <2>1. CASE taken[o] = r /\ buf[r] # <<>>
    <3>1. rest = Tail(buf[r]) /\ both
      BY <1>5, <2>1, Zenon DEF Remains, Taking
    <3>2. Len(buf[r]) <= 1
      BY <1>3, <3>1, Zenon
    <3>3. rest = <<>>
      BY <1>2, <2>1, <3>1, <3>2
    <3>4. 1..Len(<<>>) = {}
      OBVIOUS
    <3> QED
      BY <3>3, <3>4, Zenon
  <2>2. CASE ~(taken[o] = r /\ buf[r] # <<>>)
    <3>1. rest = buf[r]
      BY <2>2, Zenon DEF Remains, Taking
    <3>2. both => rest = <<>>
      BY <1>5, <2>2, <3>1, Zenon
    <3> QED
      BY <1>3, <3>1, <3>2, Zenon
  <2> QED
    BY <2>1, <2>2
<1>9. direct[o] = {} => last'[o] = n
  <2>1. CASE Taking(taken, r)
    <3>1. buf[r] # <<>> /\ both
      BY <1>5, <2>1, Zenon DEF Taking
    <3>2. Head(buf[r]) = buf[r][1] /\ 1 \in 1..Len(buf[r])
      BY <1>2, <3>1
    <3>3. Head(buf[r]).no = n
      BY <1>3, <3>1, <3>2, Zenon
    <3> QED
      BY <1>6, <2>1, <3>3, Zenon DEF Moves
  <2>2. CASE ~Taking(taken, r)
    BY <1>3, <1>6, <2>2, Zenon DEF Moves
  <2> QED
    BY <2>1, <2>2
<1>10. direct[o] # {} => last'[o] = n + 1
  BY <1>6, Zenon DEF Moves
<1>11. /\ given[r] = {} =>
             buf'[r] = rest /\ dropped'[r] = dropped[r]
       /\ given[r] # {} /\ Len(rest) # Burst =>
             buf'[r] = Append(rest, f) /\ dropped'[r] = dropped[r]
       /\ given[r] # {} /\ Len(rest) = Burst =>
             buf'[r] = Append(Tail(rest), f) /\ dropped'[r] = Head(rest).no
  BY <1>6, Zenon DEF Moves
<1>12. f \in Frames /\ f.no = n + 1
  BY <1>2 DEF Turn, Frames
<1> HIDE DEF o, rest, f, both
<1>13. last'[o] = n' /\ n' \in {n, n + 1}
  BY <1>7, <1>9, <1>10
<1>14. last'[o] \in {last[o], 1 + Low(r)}
  BY <1>2, <1>3, <1>4, <1>13
<1>15. \A s \in Seq(Frames) : \A i \in 1..Len(s) : s[i].no \in Nat
  <2>1. ASSUME NEW s \in Seq(Frames), NEW i \in 1..Len(s) PROVE s[i] \in Frames
    OBVIOUS
  <2> QED
    BY <2>1 DEF Frames
<1>16. ASSUME given[r] = {}
       PROVE  Ahead(r)'
  <2>1. buf'[r] = rest /\ dropped'[r] = dropped[r]
    BY <1>11, <1>16, Zenon
  <2>2. dropped[r] <= n' /\ \A i \in 1..Len(rest) : rest[i].no <= n'
    <3>1. ASSUME NEW i \in 1..Len(rest) PROVE rest[i].no <= n'
      BY <1>2, <1>8, <1>13, <1>15
    <3> QED
      BY <1>2, <1>3, <1>13, <3>1
  <2>3. both => Len(rest) <= 1 /\ \A i \in 1..Len(rest) : rest[i].no = n'
    BY <1>8
  <2> QED
    BY <1>6, <1>8, <1>13, <2>1, <2>2, <2>3, Zenon DEF Ahead, OutOf, o
<1>17. ASSUME given[r] # {}
       PROVE  Ahead(r)'
  <2>1. n' = n + 1 /\ Feeds(r)
    BY <1>7, <1>17
  <2>2. ASSUME NEW s \in Seq(Frames), \A i \in 1..Len(s) : s[i].no <= n
        PROVE  \A i \in 1..Len(Append(s, f)) : Append(s, f)[i].no <= n'
    <3> SUFFICES ASSUME NEW i \in 1..Len(Append(s, f))
                 PROVE  Append(s, f)[i].no <= n'
      OBVIOUS
    <3>1. CASE i = Len(s) + 1
      <4>1. Append(s, f)[i] = f
        BY <3>1
      <4> QED
        BY <1>2, <1>12, <2>1, <4>1
    <3>2. CASE i # Len(s) + 1
      <4>1. i \in 1..Len(s) /\ Append(s, f)[i] = s[i]
        BY <3>2, <1>12
      <4> QED
        BY <1>2, <1>15, <2>1, <2>2, <4>1
    <3> QED
      BY <3>1, <3>2
  <2>3. CASE Len(rest) # Burst
    <3>1. buf'[r] = Append(rest, f) /\ dropped'[r] = dropped[r]
      BY <1>11, <1>17, <2>3, Zenon
    <3>2. \A i \in 1..Len(Append(rest, f)) : Append(rest, f)[i].no <= n'
      BY <1>2, <1>8, <2>2, Zenon
    <3>3. dropped[r] <= n'
      BY <1>2, <1>3, <2>1
    <3>4. ASSUME both
          PROVE  /\ Len(Append(rest, f)) <= 1
                 /\ \A i \in 1..Len(Append(rest, f)) : Append(rest, f)[i].no = n'
      <4>1. rest = <<>>
        BY <1>8, <3>4, Zenon
      <4>2. Len(Append(rest, f)) = 1 /\ Append(rest, f)[1] = f
        BY <4>1, <1>12
      <4> QED
        BY <1>12, <2>1, <4>2
    <3> QED
      BY <1>6, <1>13, <2>1, <3>1, <3>2, <3>3, <3>4, Zenon DEF Ahead, OutOf, o
  <2>4. CASE Len(rest) = Burst
    <3>1. buf'[r] = Append(Tail(rest), f) /\ dropped'[r] = Head(rest).no
      BY <1>11, <1>17, <2>4, Zenon
    <3>2. /\ rest # <<>> /\ Tail(rest) \in Seq(Frames)
          /\ Head(rest) = rest[1] /\ 1 \in 1..Len(rest)
          /\ Len(Tail(rest)) = Len(rest) - 1
          /\ \A i \in 1..Len(Tail(rest)) : Tail(rest)[i] = rest[i + 1]
      <4>1. rest # <<>>
        BY <1>2, <2>4, BoundsAssumption
      <4> QED
        BY <1>2, <4>1
    <3>3. \A i \in 1..Len(Tail(rest)) : Tail(rest)[i].no <= n
      BY <1>2, <1>8, <3>2
    <3>4. \A i \in 1..Len(Append(Tail(rest), f)) :
             Append(Tail(rest), f)[i].no <= n'
      BY <2>2, <3>2, <3>3, Zenon
    <3>5. Head(rest).no <= n'
      BY <1>2, <1>8, <1>15, <2>1, <3>2
    <3>6. ~both
      BY <1>8, <3>2, Zenon
    <3> QED
      BY <1>6, <1>13, <2>1, <3>1, <3>4, <3>5, <3>6, Zenon DEF Ahead, OutOf, o
  <2> QED
    BY <2>3, <2>4
<1> QED
  BY <1>14, <1>16, <1>17, Zenon DEF o

(* A turn keeps the invariant.                                             *)
LEMMA TurnClocked ==
    ASSUME Types, Clocked, NEW taken, NEW given, NEW direct,
           Turn(taken, given, direct)
    PROVE  /\ Clocked'
           /\ \A r \in Revs :
                 last'[OutOf(r)] \in {last[OutOf(r)], 1 + Low(r)}
<1>1. /\ UNCHANGED <<program, pc, ended, failed, graph, call>>
      /\ n' = IF Given(given, direct) THEN n + 1 ELSE n
  BY TurnMoves, Zenon
<1>2. UNCHANGED <<prog, pc, routes, chan, running>>
  BY <1>1, Zenon DEF program, graph
<1>3. ASSUME NEW r \in Revs
      PROVE  /\ IF Direct(OutOf(r)) THEN Ahead(r)' ELSE Lined(r)'
             /\ last'[OutOf(r)] \in {last[OutOf(r)], 1 + Low(r)}
  <2>1. CASE Direct(OutOf(r))
    BY <2>1, AheadTurn, Zenon DEF Clocked
  <2>2. CASE ~Direct(OutOf(r))
    BY <2>2, LinedTurn, Zenon DEF Clocked
  <2> QED
    BY <2>1, <2>2
<1>4. ASSUME NEW r \in Revs
      PROVE  Direct(OutOf(r))' <=> Direct(OutOf(r))
  <2>1. \A y : Routed(y)' = Routed(y)
    BY <1>2, Zenon DEF Routed
  <2> QED
    BY <1>2, <2>1, Zenon DEF Direct, Sides, TheBridge, OutOf
<1>5. CASE Given(given, direct)
  <2>1. n' = n + 1 /\ n' > 0 /\ n' # 0
    BY <1>1, <1>5 DEF Types
  <2>2. Settled /\ (prog \in Mastered => running)
    BY <1>5, Zenon DEF Turn, Given
  <2>3. (Settled /\ (prog \in Mastered => running))'
    BY <1>2, <2>2, Zenon DEF Settled
  <2> QED
    BY <1>3, <1>4, <2>1, <2>3, Zenon DEF Clocked
<1>6. CASE ~Given(given, direct)
  <2>1. n' = n
    BY <1>1, <1>6, Zenon
  <2>2. n > 0 => (Settled /\ (prog \in Mastered => running))'
    BY <1>2, Zenon DEF Clocked, Settled
  <2>3. ASSUME n = 0, NEW r \in Revs
        PROVE  (buf[r] = <<>> /\ dropped[r] = 0 /\ last[OutOf(r)] = 0)'
    <3>1. buf[r] = <<>> /\ dropped[r] = 0 /\ last[OutOf(r)] = 0
      BY <2>3, Zenon DEF Clocked
    <3>2. given[r] = {} /\ direct[OutOf(r)] = {} /\ ~Taking(taken, r)
      BY <1>6, <3>1 DEF Given, Taking, OutOf, Outputs
    <3>3. Moves(taken, given, direct, r)
      BY TurnMoves, Zenon
    <3> QED
      BY <3>1, <3>2, <3>3, Zenon DEF Moves, Remains, OutOf
  <2> QED
    BY <1>3, <1>4, <2>1, <2>2, <2>3, Zenon DEF Clocked
<1> QED
  BY <1>3, <1>5, <1>6

LEMMA TurnAsSaid ==
    ASSUME Types, AsSaid, NEW taken, NEW given, NEW direct,
           Turn(taken, given, direct)
    PROVE  AsSaid'
<1>1. UNCHANGED <<prog, pc, slots, routes>>
  BY TurnMoves, Zenon DEF program, graph
<1>2. Plays' = Plays /\ (Kept' <=> Kept) /\ (Excused' <=> Excused)
  BY <1>1, PlaysStay, Zenon DEF Refused, Kept, Excused
<1>3. Kept' => \A e \in routes' :
                  e[1] \in Sources => Said("route", e[1], e[2])'
  BY <1>1, <1>2, Zenon DEF AsSaid, Said
<1> SUFFICES ASSUME ~Excused
             PROVE  /\ \A o \in Outputs : heard'[o] \subseteq Plays[o]
                    /\ \A r \in Revs : \A i \in DOMAIN buf'[r] :
                          buf'[r][i].from \subseteq Plays[OutOf(r)]
  BY <1>1, <1>2, <1>3, Zenon DEF AsSaid, OutOf
<1>4. ASSUME NEW r \in Revs
      PROVE  /\ heard'[OutOf(r)] \subseteq Plays[OutOf(r)]
             /\ \A i \in DOMAIN buf'[r] :
                   buf'[r][i].from \subseteq Plays[OutOf(r)]
  <2> DEFINE own == Plays[OutOf(r)]
             rest == Remains(taken, r)
             f == [no |-> n + 1, from |-> given[r]]
             Fit(s) == \A i \in DOMAIN s : s[i].from \subseteq own
  <2>1. /\ Moves(taken, given, direct, r) /\ OutOf(r) \in Outputs
        /\ rest \in Seq(Frames) /\ buf[r] \in Seq(Frames)
        /\ Len(rest) = Burst => rest # <<>>
    BY TurnMoves, RemainsTyped DEF OutOf, Outputs
  <2>2. /\ heard[OutOf(r)] \subseteq own /\ direct[OutOf(r)] \subseteq own
        /\ given[r] \subseteq own /\ Fit(buf[r])
    BY <2>1, Zenon DEF AsSaid, Turn
  <2> HIDE DEF own
  <2>3. \A s \in Seq(Frames) : Fit(s) /\ s # <<>> =>
           Fit(Tail(s)) /\ Tail(s) \in Seq(Frames) /\ Head(s).from \subseteq own
    OBVIOUS
  <2>4. \A s \in Seq(Frames) : Fit(s) => Fit(Append(s, f))
    <3> SUFFICES ASSUME NEW s \in Seq(Frames), Fit(s),
                        NEW i \in DOMAIN Append(s, f)
                 PROVE  Append(s, f)[i].from \subseteq own
      OBVIOUS
    <3>1. CASE i = Len(s) + 1
      <4>1. Append(s, f)[i] = f
        BY <3>1
      <4> QED
        BY <2>2, <4>1
    <3>2. CASE i # Len(s) + 1
      <4>1. i \in DOMAIN s /\ Append(s, f)[i] = s[i]
        BY <3>2
      <4> QED
        BY <4>1
    <3> QED
      BY <3>1, <3>2
  <2> HIDE DEF f, Fit
  <2>5. Fit(rest)
    BY <2>1, <2>2, <2>3, Zenon DEF Remains, Taking
  <2> HIDE DEF rest
  <2>6. Fit(buf'[r])
    <3>1. buf'[r] = IF given[r] = {} THEN rest
                    ELSE Append(IF Len(rest) = Burst THEN Tail(rest)
                                ELSE rest, f)
      BY <2>1, Zenon DEF Moves, rest, f
    <3> QED
      BY <2>1, <2>3, <2>4, <2>5, <3>1, Zenon
  <2>7. heard'[OutOf(r)] \subseteq own
    <3>1. Taking(taken, r) => Head(buf[r]).from \subseteq own
      BY <2>1, <2>2, <2>3, Zenon DEF Taking
    <3> QED
      BY <2>1, <2>2, <3>1 DEF Moves
  <2> QED
    BY <2>6, <2>7, Zenon DEF Fit, own
<1>5. \A o \in Outputs : \E r \in Revs : o = OutOf(r)
  BY DEF Outputs, Revs, OutOf
<1> QED
  BY <1>4, <1>5, Zenon

LEMMA TurnKeeps ==
    ASSUME IInv, NEW taken, NEW given, NEW direct,
           Turn(taken, given, direct)
    PROVE  IInv'
<1> /\ Types /\ SoFar /\ Laid /\ Added /\ AsSaid /\ Clocked
    /\ CrashNeedsFailure
  BY Zenon DEF IInv
<1>1. UNCHANGED <<prog, argc, pc, ended, failed, made, chan, plugged, running,
                  slots, routes, call>>
  BY TurnMoves, Zenon DEF program, graph
<1>2. SoFar'
  BY <1>1, Zenon DEF SoFar
<1>3. Laid'
  BY <1>1, Zenon DEF Laid, Said
<1>4. CrashNeedsFailure'
  BY <1>1, Zenon DEF CrashNeedsFailure
<1>5. Added'
  BY <1>1, Zenon DEF Added, Refused, Said
<1> QED
  BY <1>2, <1>3, <1>4, <1>5, TurnTypes, TurnAsSaid, TurnClocked, Zenon DEF IInv

LEMMA MainKeeps == ASSUME IInv, Main PROVE IInv'
  BY MainMoves, MainTypes, MainSoFar, MainLaid, MainAdded, MainAsSaid,
     MainClocked, MainCrash, Zenon DEF IInv

(* Nothing happens.                                                        *)
LEMMA RestKeeps == ASSUME IInv, UNCHANGED vars PROVE IInv'
<1> /\ Types /\ SoFar /\ Laid /\ Added /\ AsSaid /\ Clocked
    /\ CrashNeedsFailure
  BY Zenon DEF IInv
<1>1. UNCHANGED <<program, pc, ended, failed, graph, call, sound>>
  BY Zenon DEF vars
<1>2. UNCHANGED <<prog, argc, fmt, pc, ended, failed, made, slots, routes, chan,
                  plugged, running, call, n, buf, dropped, last, heard>>
  BY <1>1, Zenon DEF program, graph, sound
<1>3. Types'
  BY <1>2, Zenon DEF Types
<1>4. SoFar'
  BY <1>2, Zenon DEF SoFar
<1>5. Laid'
  BY <1>2, Zenon DEF Laid, Said
<1>6. AsSaid'
  BY <1>2, PlaysStay, Zenon DEF AsSaid, Kept, Excused, Refused, Said
<1>9. Added'
  BY <1>2, Zenon DEF Added, Refused, Said
<1>7. Clocked'
  <2>1. n > 0 => (Settled /\ (prog \in Mastered => running))'
    BY <1>2, Zenon DEF Clocked, Settled
  <2> QED
    BY <1>1, <1>2, <2>1, ClocksStay, Zenon
<1>8. CrashNeedsFailure'
  BY <1>2, Zenon DEF CrashNeedsFailure
<1> QED
  BY <1>3, <1>4, <1>5, <1>6, <1>7, <1>8, <1>9, Zenon DEF IInv

LEMMA ReadLineKeeps == ASSUME IInv, ReadLine PROVE IInv'
<1> /\ Types /\ SoFar /\ Laid /\ Added /\ AsSaid /\ Clocked
    /\ CrashNeedsFailure
  BY Zenon DEF IInv
<1>1. Passes /\ UNCHANGED <<graph, call>> /\ Here = <<"enter", "-", "-">>
  BY Zenon DEF ReadLine, At, Goto, Passes, Here
<1>2. Advances
  <2>1. Here[1] \notin MakeOps
    BY <1>1 DEF MakeOps
  <2> QED
    BY <1>1, <2>1, FailureMoves, Zenon
<1>3. CrashNeedsFailure'
  BY <1>2, Zenon DEF CrashNeedsFailure, Advances
<1>4. Added'
  <2>1. UNCHANGED <<prog, slots>> /\ pc' = pc + 1
    BY <1>1, Zenon DEF Passes, program, graph
  <2>2. \A x, b : Here # <<"add", x, b>>
    BY <1>1
  <2>3. Refused' => Refused
    <3>1. \A k \in 1..(pc' - 1) : k = pc \/ k \in 1..(pc - 1)
      BY <2>1, Indices DEF Types
    <3> QED
      BY <2>1, <2>2, <3>1, Zenon DEF Refused, Here
  <2> QED
    BY <2>1, <2>3, SaidStays, Zenon DEF Added
<1> QED
  BY <1>2, <1>3, <1>4, MainTypes, MainSoFar, MainLaid, MainAsSaid, MainClocked, Zenon
  DEF IInv, Proceeds

(* Answering a call changes nothing else; hanging up takes its connection  *)
(* away, which only sc_pjsua_phone_to_2sound.c has.                        *)
LEMMA CallKeeps == ASSUME IInv, Answer \/ HangUp PROVE IInv'
<1> /\ Types /\ SoFar /\ Laid /\ Added /\ AsSaid /\ Clocked
    /\ CrashNeedsFailure
  BY Zenon DEF IInv
<1>1. /\ UNCHANGED <<program, pc, ended, failed, made, slots, chan, plugged,
                     running, sound>>
      /\ call # "none" /\ ended = "no"
      /\ \/ routes' = routes
         \/ routes' = {e \in routes : e[1] # "call"}
  BY Zenon DEF Answer, HangUp, graph
<1>2. UNCHANGED <<prog, argc, fmt, n, buf, dropped, last, heard>>
  BY <1>1, Zenon DEF program, sound
<1>3. routes' \subseteq routes
  BY <1>1, Zenon
<1>4. prog \in {"phone", "sip"} /\ (prog = "sip" => routes = {})
  <2>1. prog \in {"phone", "sip"}
    <3>1. PICK k \in DOMAIN Steps[prog] :
             \E x, y : Steps[prog][k] = <<"call", x, y>>
      BY <1>1, Zenon DEF Laid, Said
    <3> QED
      BY <3>1, Texts, Zenon DEF Layout
  <2>2. ASSUME routes # {} PROVE prog # "sip"
    <3>1. PICK k \in DOMAIN Steps[prog] :
             \E x, y : Steps[prog][k] = <<"route", x, y>>
      BY <2>2, Zenon DEF Laid, Said
    <3> QED
      BY <3>1, Texts, Zenon DEF Layout
  <2> QED
    BY <2>1, <2>2
<1>5. Types'
  BY <1>1, <1>2, Zenon DEF Types
<1>6. SoFar'
  BY <1>1, <1>2, Zenon DEF SoFar
<1>7. Laid'
  <2>1. \E x, y : Said("call", x, y)
    BY <1>1, Zenon DEF Laid
  <2>2. routes' # {} => \E x, y : Said("route", x, y)
    BY <1>3, Zenon DEF Laid
  <2> QED
    BY <1>1, <1>2, <2>1, <2>2, Zenon DEF Laid, Said
<1>8. AsSaid'
  BY <1>1, <1>2, <1>3, PlaysStay, Zenon DEF AsSaid, Kept, Excused, Refused, Said
<1>11. Added'
  BY <1>1, <1>2, Zenon DEF Added, Refused, Said
<1>9. Clocked'
  <2>1. n > 0 => (Settled /\ (prog \in Mastered => running))'
    BY <1>1, <1>2, Zenon DEF Clocked, Settled
  <2>2. CASE routes' = routes
    BY <1>1, <1>2, <2>1, <2>2, ClocksStay, Zenon
  <2>3. CASE prog = "phone"
    <3>1. prog \in Mastered /\ prog # "one_file"
      BY <2>3 DEF Mastered
    <3>2. ASSUME NEW r \in Revs PROVE Feeds(r)' => Feeds(r)
      BY <1>1, <1>2, <1>3, <3>1 DEF Feeds, Routed
    <3>3. \A o : ~Direct(o) /\ ~Direct(o)'
      BY <1>2, <3>1, Zenon DEF Direct
    <3>4. ASSUME NEW r \in Revs PROVE Lined(r)'
      BY <1>2, <3>2, <3>3, Zenon DEF Clocked, Lined, Low, Row, OutOf
    <3> QED
      BY <1>2, <2>1, <3>3, <3>4, Zenon DEF Clocked, OutOf
  <2> QED
    BY <1>3, <1>4, <2>2, <2>3
<1>10. CrashNeedsFailure'
  BY <1>1, <1>2, Zenon DEF CrashNeedsFailure
<1> QED
  BY <1>5, <1>6, <1>7, <1>8, <1>9, <1>10, <1>11, Zenon DEF IInv

-----------------------------------------------------------------------------
LEMMA Initially == ASSUME Init PROVE IInv
<1> USE DEF Init
<1>1. Types
  <2>1. Len(Steps[prog]) \in Nat
    BY ProgramsAssumption, LayoutTexts DEF Layout
  <2>2. /\ pc \in 0..(Len(Steps[prog]) + 1) /\ argc \in 1..4
        /\ n \in Nat
    BY <2>1
  <2>3. /\ slots \in [Bridges -> SUBSET Things]
        /\ chan \in [{0, 1} -> Things \cup {"-"}]
        /\ plugged \in [Devices -> Things \cup {"-"}]
    BY Zenon
  <2>4. buf \in [Revs -> Seq(Frames)]
    OBVIOUS
  <2>5. dropped \in [Revs -> Nat] /\ last \in [Outputs -> Nat]
    OBVIOUS
  <2>6. heard \in [Outputs -> SUBSET Sources]
    BY Zenon
  <2> QED
    BY <2>2, <2>3, <2>4, <2>5, <2>6, Zenon DEF Types
<1>2. SoFar
  BY DEF SoFar
<1>3. Laid
  BY DEF Laid
<1>4. AsSaid /\ Added
  BY DEF AsSaid, Added, Refused
<1>5. Clocked
  <2>1. \A r \in Revs : buf[r] = <<>> /\ dropped[r] = 0 /\ last[OutOf(r)] = 0
    BY DEF OutOf, Outputs
  <2>2. routes = {} /\ n = 0 /\ ~(n > 0)
    OBVIOUS
  <2>3. \A y : Routed(y) = {}
    BY <2>2, Zenon DEF Routed
  <2>4. \A o : ~Direct(o)
    BY <2>3, Zenon DEF Direct
  <2>5. ASSUME NEW r \in Revs PROVE Lined(r)
    BY <2>1, <2>2 DEF Lined, Low, Row
  <2> HIDE DEF Init
  <2> QED
    BY <2>1, <2>2, <2>4, <2>5, Zenon DEF Clocked
<1>6. CrashNeedsFailure
  BY DEF CrashNeedsFailure
<1> QED
  BY <1>1, <1>2, <1>3, <1>4, <1>5, <1>6, Zenon DEF IInv

LEMMA StepKeeps == ASSUME IInv, [Next]_vars PROVE IInv'
<1> Types /\ Laid /\ AsSaid
  BY Zenon DEF IInv
<1>1. CASE MasterTick
  BY <1>1, MasterTurns, TurnKeeps, Zenon
<1>2. ASSUME NEW d \in Devices, Device(d) PROVE IInv'
  BY <1>2, DeviceTurns, TurnKeeps, Zenon
<1> QED
  BY <1>1, <1>2, MainKeeps, ReadLineKeeps, CallKeeps, RestKeeps, Zenon
  DEF Next, Rest

(* The invariant holds for every number of frames, every size of buffer    *)
(* and every choice of programs.                                           *)
THEOREM Inductive == Spec => []IInv
<1>1. Init => IInv
  BY Initially
<1>2. IInv /\ [Next]_vars => IInv'
  BY StepKeeps
<1> QED
  BY <1>1, <1>2, PTL DEF Spec

(* A program crashes only when a call of its own has failed, or when it is *)
(* run with fewer arguments than it reads: every handle is made before its *)
(* use, in every program's order of calls.                                 *)
THEOREM CrashTheorem == Spec => []CrashNeedsFailure
<1>1. IInv => CrashNeedsFailure
  BY DEF IInv
<1> QED
  BY <1>1, Inductive, PTL

(* No output plays a source that is not its own, whichever calls fail and  *)
(* in whatever order the clocks turn, unless splitcomb_file2sound.c's      *)
(* bridge has refused a port.                                              *)
THEOREM SourceTheorem == Spec => []OwnSource
<1>1. IInv => OwnSource
  BY Zenon DEF IInv, AsSaid, Excused, OwnSource
<1> QED
  BY <1>1, Inductive, PTL

(* An output plays the frames of its source in their order, each once, and *)
(* skips none but those that its buffer dropped because it was full.       *)
THEOREM SkipsTheorem == Spec => SkipsOnlyDropped
<1> DEFINE Gone(o) == dropped[IF o = "one" THEN "rev1" ELSE "rev2"]
           Skips == \A o \in Outputs :
              last'[o] \in {last[o], 1 + (IF Gone(o) > last[o] THEN Gone(o)
                                          ELSE last[o])}
<1>1. ASSUME IInv, [Next]_vars
      PROVE  [Skips]_vars
  <2> Types /\ Laid /\ AsSaid /\ Clocked
    BY <1>1, Zenon DEF IInv
  <2>1. ASSUME NEW taken, NEW given, NEW direct, Turn(taken, given, direct)
        PROVE  Skips
    <3>1. \A r \in Revs : last'[OutOf(r)] \in {last[OutOf(r)], 1 + Low(r)}
      BY <2>1, TurnClocked, Zenon
    <3>2. last'["one"] \in {last["one"], 1 + Low("rev1")}
          /\ last'["two"] \in {last["two"], 1 + Low("rev2")}
      BY <3>1 DEF Revs, OutOf
    <3> QED
      BY <3>2 DEF Low, Outputs, OutOf
  <2>2. ASSUME UNCHANGED sound PROVE Skips
    BY <2>2 DEF sound
  <2>3. CASE MasterTick
    BY <2>1, <2>3, MasterTurns, Zenon
  <2>4. ASSUME NEW d \in Devices, Device(d) PROVE Skips
    BY <2>1, <2>4, DeviceTurns, Zenon
  <2>5. CASE Main
    BY <2>2, <2>5, MainMoves, Zenon DEF Proceeds, Leaves, Begins, Advances
  <2>6. CASE ReadLine \/ Answer \/ HangUp
    BY <2>2, <2>6, Zenon DEF ReadLine, Goto, Answer, HangUp
  <2> QED
    BY <1>1, <2>3, <2>4, <2>5, <2>6, Zenon DEF Next, Rest
<1>2. Spec => [][Skips]_vars
  BY <1>1, Inductive, PTL DEF Spec
<1> QED
  BY <1>2, Zenon DEF SkipsOnlyDropped
=============================================================================
