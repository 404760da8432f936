--------------------------- MODULE MessagesProofs ---------------------------
(***************************************************************************)
(* Theorems about the paths of what is received that MCMessages puts       *)
(* together: the packets of a frame and their reassembly, the flight map,  *)
(* the message log and its outputs, the archives. A theorem about one of   *)
(* them is a theorem about every behaviour of the sum, whatever the        *)
(* constants.                                                              *)
(***************************************************************************)
EXTENDS MCMessages, OrderedProofs, FiniteSetTheorems, SequenceTheorems, TLAPS

-----------------------------------------------------------------------------
(* Packets                                                                 *)

\* A split packet is announced in starts, and being assembled not delivered yet.
Assembly == [active : BOOLEAN, of : Nat, filled : Nat, expected : Nat,
             inner : Packets!Inner \cup {<<>>}]

SplitInv ==
    /\ n \in Nat /\ mfa \in Assembly
    /\ \A p \in DOMAIN starts : p \in 1 .. n /\ starts[p] \in 0 .. 1
    /\ mfa.active => /\ mfa.inner \in Packets!Inner
                     /\ mfa.of \in DOMAIN starts /\ starts[mfa.of] = 0

Part  == [packet : Nat, ita2 : BOOLEAN]
Piece == [packet : Nat, pkt : PktNos, looks : BOOLEAN]
Buffer == [last : Nat, ita2 : BOOLEAN, text : Seq(Part)]

ChainTypes ==
    /\ chains \in [Channels -> Seq(Piece)]
    /\ aaBuf \in [Channels -> Buffer]

\* The text t is that of the newest run of the chain s, which begins with the last break.
IsNewestRun(s, t) ==
    /\ Len(t) \in 1 .. Len(s)
    /\ Len(s) + 1 - Len(t) \in Packets!Breaks(s)
    /\ \A j \in Packets!Breaks(s) : j <= Len(s) + 1 - Len(t)
    /\ \A i \in 1 .. Len(t) : t[i].packet = s[Len(s) - Len(t) + i].packet

Follows(s, buf) ==
    IF s = <<>> THEN buf.last = 0 /\ buf.text = <<>>
    ELSE buf.last = s[Len(s)].pkt /\ IsNewestRun(s, buf.text)

ChainInv == ChainTypes /\ \A c \in Channels : Follows(chains[c], aaBuf[c])

PacketsInv == SplitInv /\ ChainInv

LEMMA PacketsInit == Packets!Init => PacketsInv
BY DEF Packets!Init, PacketsInv, SplitInv, Assembly, ChainInv, ChainTypes,
   Buffer, Follows

\* One more packet of a channel: the run goes on, or it is the first of a new one.
LEMMA OneMore ==
    ASSUME NEW s \in Seq(Piece), NEW buf \in Buffer, Follows(s, buf),
           NEW x \in Piece, NEW y \in Part, x.packet = y.packet
    PROVE  /\ Packets!Assembled(buf, x.pkt, y) \in Seq(Part)
           /\ IsNewestRun(Append(s, x), Packets!Assembled(buf, x.pkt, y))
<1> PICK r : r = Append(s, x)
    OBVIOUS
<1>1. /\ r \in Seq(Piece) /\ Len(r) = Len(s) + 1 /\ r[Len(r)] = x
      /\ \A i \in 1 .. Len(s) : r[i] = s[i]
    OBVIOUS
<1>3. Len(s) \in Nat /\ Len(buf.text) \in Nat
    BY DEF Buffer
<1>2. x.pkt \in Nat /\ (s # <<>> => Len(s) > 0 /\ s[Len(s)].pkt \in Nat) /\ buf.last \in Nat
      /\ buf.text \in Seq(Part)
    <2>1. \A z \in Piece : z.pkt \in Nat
        BY MessagesAssumption DEF MessagesAssumption, Piece
    <2>2. s # <<>> => Len(s) > 0 /\ s[Len(s)] \in Piece
        OBVIOUS
    <2>3. buf.last \in Nat /\ buf.text \in Seq(Part)
        BY DEF Buffer
    <2> QED BY <2>1, <2>2, <2>3
<1>4. Packets!Breaks(r) = Packets!Breaks(s)
         \cup (IF s = <<>> \/ x.pkt <= 1 \/ x.pkt <= buf.last THEN {Len(r)} ELSE {})
    <2>1. DOMAIN r = 1 .. Len(s) + 1 /\ DOMAIN s = 1 .. Len(s)
        BY <1>1
    <2>2. ASSUME NEW i \in 1 .. Len(s)
          PROVE  i \in Packets!Breaks(r) <=> i \in Packets!Breaks(s)
        BY <1>1, <2>1 DEF Packets!Breaks
    <2>3. Len(r) \in Packets!Breaks(r) <=> (s = <<>> \/ x.pkt <= 1 \/ x.pkt <= buf.last)
        <3>1. CASE s = <<>>
            BY <1>1, <2>1, <3>1 DEF Packets!Breaks
        <3>2. CASE s # <<>>
            <4>1. r[Len(r) - 1] = s[Len(s)] /\ Len(r) # 1
                BY <1>1, <1>2, <3>2
            <4>2. Len(r) \in DOMAIN r /\ r[Len(r)].pkt = x.pkt /\ r[Len(r) - 1].pkt = buf.last
                <5>1. Len(r) \in DOMAIN r /\ r[Len(r)].pkt = x.pkt
                    BY <1>1, <1>3, <2>1
                <5>2. buf.last = s[Len(s)].pkt
                    BY <3>2 DEF Follows
                <5> QED BY <4>1, <5>1, <5>2
            <4> QED BY <3>2, <4>1, <4>2 DEF Packets!Breaks
        <3> QED BY <3>1, <3>2
    <2>4. Packets!Breaks(r) \subseteq 1 .. Len(s) + 1 /\ Packets!Breaks(s) \subseteq 1 .. Len(s)
        BY <2>1 DEF Packets!Breaks
    <2> QED BY <1>1, <2>2, <2>3, <2>4
<1>5. CASE x.pkt > 1 /\ x.pkt > buf.last /\ s # <<>>
    <2>1. IsNewestRun(s, buf.text) /\ Packets!Breaks(r) = Packets!Breaks(s)
        BY <1>2, <1>4, <1>5 DEF Follows
    <2>2. PICK t : t = Append(buf.text, y)
        OBVIOUS
    <2>3. /\ t \in Seq(Part) /\ Len(t) = Len(buf.text) + 1 /\ t[Len(t)] = y
          /\ \A i \in 1 .. Len(buf.text) : t[i] = buf.text[i]
        BY <1>2, <2>2
    <2>4. Packets!Assembled(buf, x.pkt, y) = t
        BY <1>5, <2>2 DEF Packets!Assembled
    <2>5. \A i \in 1 .. Len(t) : t[i].packet = r[Len(r) - Len(t) + i].packet
        <3>1. Len(buf.text) \in 1 .. Len(s) /\ Len(r) - Len(t) = Len(s) - Len(buf.text)
            <4>1. Len(buf.text) \in 1 .. Len(s)
                BY <2>1 DEF IsNewestRun
            <4> QED BY <1>1, <1>3, <2>3, <4>1
        <3>2. ASSUME NEW i \in 1 .. Len(buf.text)
              PROVE  t[i].packet = r[Len(r) - Len(t) + i].packet
            <4>1. Len(s) - Len(buf.text) + i \in 1 .. Len(s)
                BY <3>1
            <4>2. t[i].packet = s[Len(s) - Len(buf.text) + i].packet
                BY <2>1, <2>3 DEF IsNewestRun
            <4> QED BY <1>1, <3>1, <4>1, <4>2
        <3>3. t[Len(t)].packet = r[Len(r) - Len(t) + Len(t)].packet
            <4>1. Len(r) - Len(t) + Len(t) = Len(r)
                <5>1. Len(r) \in Nat /\ Len(t) \in Nat
                    BY <1>1, <2>3
                <5> QED BY <5>1
            <4>2. t[Len(t)].packet = r[Len(r)].packet
                BY <1>1, <2>3
            <4> QED BY <4>1, <4>2
        <3>4. \A i \in 1 .. Len(t) : i = Len(t) \/ i \in 1 .. Len(buf.text)
            BY <1>3, <2>3
        <3> QED BY <3>2, <3>3, <3>4
    <2>6. IsNewestRun(r, t)
        <3>1. Len(buf.text) \in 1 .. Len(s) /\ Len(r) + 1 - Len(t) = Len(s) + 1 - Len(buf.text)
            <4>1. Len(buf.text) \in 1 .. Len(s)
                BY <2>1 DEF IsNewestRun
            <4>2. PICK k \in Nat, m \in Nat : /\ k = Len(buf.text) /\ m = Len(s) /\ k \in 1 .. m
                                              /\ Len(r) = m + 1 /\ Len(t) = k + 1
                BY <1>1, <1>3, <2>3, <4>1
            <4>3. (m + 1) + 1 - (k + 1) = m + 1 - k
                OBVIOUS
            <4> QED BY <4>2, <4>3
        <3>2. Len(t) \in 1 .. Len(r)
            BY <1>1, <2>3, <3>1
        <3> QED BY <2>1, <2>5, <3>1, <3>2 DEF IsNewestRun
    <2> QED BY <2>3, <2>4, <2>6
<1>6. CASE s = <<>> \/ ~(x.pkt > 1 /\ x.pkt > buf.last)
    <2>1. Packets!Assembled(buf, x.pkt, y) = <<y>>
        <3>1. CASE s = <<>>
            <4>1. buf.text = <<>> /\ Append(<<>>, y) = <<y>>
                BY <3>1 DEF Follows
            <4> QED BY <4>1 DEF Packets!Assembled
        <3>2. CASE ~(x.pkt > 1 /\ x.pkt > buf.last)
            BY <3>2 DEF Packets!Assembled
        <3> QED BY <1>6, <3>1, <3>2
    <2>2. Len(r) \in Packets!Breaks(r)
        BY <1>2, <1>4, <1>6
    <2>3. \A j \in Packets!Breaks(r) : j <= Len(r)
        BY <1>1 DEF Packets!Breaks
    <2>4. IsNewestRun(r, <<y>>)
        BY <1>1, <2>2, <2>3 DEF IsNewestRun
    <2> QED BY <2>1, <2>4
<1>7. QED BY <1>2, <1>5, <1>6

\* handleAaPacket, whether the packet came whole or split.
LEMMA HandleAaKeeps ==
    ASSUME ChainInv, NEW c \in Channels, NEW pkt \in PktNos, NEW looks \in BOOLEAN, NEW p \in Nat,
           Packets!HandleAa(c, pkt, looks, p)
    PROVE  ChainInv'
<1>1. PICK buf \in Buffer, ita2 \in BOOLEAN, x \in Piece, y \in Part :
         /\ buf = aaBuf[c] /\ x = [packet |-> p, pkt |-> pkt, looks |-> looks]
         /\ ita2 = (IF buf.last = 0 THEN looks ELSE buf.ita2)
         /\ y = [packet |-> p, ita2 |-> ita2]
    <2>1. aaBuf[c] \in Buffer /\ aaBuf[c].ita2 \in BOOLEAN
        BY DEF ChainInv, ChainTypes, Buffer
    <2>2. [packet |-> p, pkt |-> pkt, looks |-> looks] \in Piece
        BY DEF Piece
    <2>3. \A b \in BOOLEAN : [packet |-> p, ita2 |-> b] \in Part
        BY DEF Part
    <2> QED BY <2>1, <2>2, <2>3
<1>2. PICK t \in Seq(Part) : /\ t = Packets!Assembled(buf, x.pkt, y)
                             /\ IsNewestRun(Append(chains[c], x), t)
    <2>1. chains[c] \in Seq(Piece) /\ Follows(chains[c], buf) /\ x.packet = y.packet
        BY <1>1 DEF ChainInv, ChainTypes
    <2> QED BY <2>1, OneMore
<1>3. /\ aaBuf' = [aaBuf EXCEPT ![c] = [last |-> pkt, ita2 |-> ita2, text |-> t]]
      /\ chains' = [chains EXCEPT ![c] = Append(@, x)]
    BY <1>1, <1>2 DEF Packets!HandleAa
<1>4. PICK b \in Buffer : b = [last |-> pkt, ita2 |-> ita2, text |-> t]
    BY MessagesAssumption DEF MessagesAssumption, Buffer
<1>5. PICK s \in Seq(Piece) : /\ s = Append(chains[c], x) /\ s # <<>> /\ s[Len(s)] = x
    <2>1. chains[c] \in Seq(Piece)
        BY DEF ChainInv, ChainTypes
    <2>2. /\ Append(chains[c], x) \in Seq(Piece) /\ Len(Append(chains[c], x)) = Len(chains[c]) + 1
          /\ Append(chains[c], x)[Len(chains[c]) + 1] = x
        BY <2>1
    <2>3. Append(chains[c], x) # <<>>
        BY <2>1
    <2> QED BY <2>2, <2>3
<1>6. /\ aaBuf' = [aaBuf EXCEPT ![c] = b] /\ chains' = [chains EXCEPT ![c] = s]
    BY <1>3, <1>4, <1>5 DEF ChainInv, ChainTypes
<1>7. Follows(s, b)
    BY <1>1, <1>2, <1>4, <1>5 DEF Follows
<1>8. QED BY <1>6, <1>7 DEF ChainInv, ChainTypes

LEMMA PacketsStep ==
    ASSUME PacketsInv, Packets!Next
    PROVE  PacketsInv'
<1>1. n' = n + 1 /\ n \in Nat /\ n' \in Nat /\ n' \notin DOMAIN starts
    <2>1. n' = n + 1
        BY Zenon DEF Packets!Next, Packets!Egc, Packets!Activity, Packets!ActivityOfMes,
            Packets!Assignment, Packets!StationList, Packets!Aa, Packets!SplitStart,
            Packets!SplitContinue, Packets!Receive
    <2> QED BY <2>1 DEF PacketsInv, SplitInv
<1>2. ASSUME UNCHANGED <<mfa, starts>>
      PROVE  SplitInv'
    BY <1>1, <1>2 DEF PacketsInv, SplitInv
<1>3. ASSUME UNCHANGED <<aaBuf, chains>>
      PROVE  ChainInv'
    BY <1>3 DEF PacketsInv, ChainInv, ChainTypes
<1>4. CASE \/ \E id \in MessageIds : Packets!Egc(id)
           \/ Packets!Activity
           \/ \E m \in Mes : Packets!ActivityOfMes(m)
           \/ \E m \in Mes, s \in Stations : Packets!Assignment(m, s)
           \/ \E heard \in SUBSET Stations : Packets!StationList(heard)
    <2>1. UNCHANGED <<mfa, starts, aaBuf, chains>>
        BY <1>4, Zenon DEF Packets!Egc, Packets!Activity, Packets!ActivityOfMes,
            Packets!Assignment, Packets!StationList, Packets!EmitEgc, Packets!EmitTerminal
    <2> QED BY <1>2, <1>3, <2>1 DEF PacketsInv
<1>5. ASSUME NEW c \in Channels, NEW pkt \in PktNos, NEW looks \in BOOLEAN, Packets!Aa(c, pkt, looks)
      PROVE  PacketsInv'
    <2>1. Packets!HandleAa(c, pkt, looks, n') /\ UNCHANGED <<mfa, starts>>
        BY <1>5 DEF Packets!Aa
    <2>2. PICK p \in Nat : p = n' /\ Packets!HandleAa(c, pkt, looks, p)
        BY <1>1, <2>1
    <2> QED BY <1>2, <2>1, <2>2, HandleAaKeeps DEF PacketsInv
<1>6. ASSUME NEW inner \in Packets!Inner, NEW have \in 1..2, Packets!SplitStart(inner, have)
      PROVE  PacketsInv'
    <2>1. /\ mfa' = [active |-> TRUE, of |-> n', filled |-> have, expected |-> 2, inner |-> inner]
          /\ starts' = [p \in DOMAIN starts \cup {n'} |-> IF p = n' THEN 0 ELSE starts[p]]
          /\ UNCHANGED <<aaBuf, chains>>
        BY <1>6 DEF Packets!SplitStart
    <2>2. mfa' \in Assembly /\ mfa'.active /\ mfa'.inner \in Packets!Inner /\ mfa'.of = n'
        BY <1>1, <2>1 DEF Assembly
    <2>3. SplitInv'
        BY <1>1, <2>1, <2>2 DEF PacketsInv, SplitInv
    <2> QED BY <1>3, <2>1, <2>3 DEF PacketsInv
<1>7. ASSUME NEW of \in 1..MaxPackets, NEW cnt \in 1..2, NEW pkt \in PktNos, NEW looks \in BOOLEAN,
             Packets!SplitContinue(of, cnt, pkt, looks)
      PROVE  PacketsInv'
    <2>1. CASE ~mfa.active
        BY <1>2, <1>3, <1>7, <2>1 DEF Packets!SplitContinue, PacketsInv
    <2>2. CASE mfa.active
        <3>1. PICK filled, whole :
                 /\ filled \in Nat /\ whole \in BOOLEAN
                 /\ mfa' = Packets!AfterContinuation(filled)
                 /\ starts' = IF whole THEN [starts EXCEPT ![mfa.of] = @ + 1] ELSE starts
                 /\ IF ~whole THEN UNCHANGED <<aaBuf, chains>>
                    ELSE CASE mfa.inner.type = "egc" -> Packets!EmitEgc(mfa.inner.id, n')
                           [] mfa.inner.type = "aa" -> Packets!HandleAa(mfa.inner.key, pkt, looks, n')
                           [] OTHER -> Packets!EmitTerminal({}, {}, n')
            <4> DEFINE fits == mfa.filled + cnt <= mfa.expected
                       filled == mfa.filled + (IF fits THEN cnt ELSE 0)
                       whole == filled = mfa.expected /\ (fits => of = mfa.of)
            <4>1. filled \in Nat /\ whole \in BOOLEAN
                BY DEF PacketsInv, SplitInv, Assembly
            <4> QED BY <1>7, <2>2, <4>1, Zenon DEF Packets!SplitContinue
        <3>2. mfa' \in Assembly /\ ~mfa'.active
            BY <3>1 DEF PacketsInv, SplitInv, Assembly, Packets!AfterContinuation
        <3>3. SplitInv'
            <4>1. DOMAIN starts' = DOMAIN starts
                BY <3>1
            <4>2. \A p \in DOMAIN starts : starts'[p] \in 0 .. 1
                BY <2>2, <3>1 DEF PacketsInv, SplitInv
            <4> QED BY <1>1, <3>2, <4>1, <4>2 DEF PacketsInv, SplitInv
        <3>4. ChainInv'
            <4>1. CASE ~whole \/ mfa.inner.type # "aa"
                <5>1. UNCHANGED <<aaBuf, chains>>
                    BY <3>1, <4>1, Zenon DEF Packets!EmitEgc, Packets!EmitTerminal
                <5> QED BY <1>3, <5>1
            <4>2. CASE whole /\ mfa.inner.type = "aa"
                <5>1. PICK c \in Channels, p \in Nat : Packets!HandleAa(c, pkt, looks, p)
                    BY <1>1, <2>2, <3>1, <4>2 DEF PacketsInv, SplitInv, Packets!Inner
                <5> QED BY <5>1, HandleAaKeeps DEF PacketsInv
            <4> QED BY <4>1, <4>2
        <3> QED BY <3>3, <3>4 DEF PacketsInv
    <2> QED BY <2>1, <2>2
<1>8. QED
    BY <1>4, <1>5, <1>6, <1>7 DEF Packets!Next

PacketsPart == part = "packets" => PacketsInv

\* Split packets and numbered parts are put together as they were sent: handleAaPacket has
\* in a channel's buffer the packets of its newest run of increasing numbers, and a packet
\* split by 0xBD and 0xBE is delivered once at most, in any order of packets.
THEOREM Reassembly == SumSpec => []PartsAreReassembled
<1>1. SumInit => PacketsPart
    BY PacketsInit DEF SumInit, PacketsPart
<1>2. PacketsPart /\ [SumNext]_sumVars => PacketsPart'
    <2> SUFFICES ASSUME PacketsPart, [SumNext]_sumVars, part' = "packets"
                 PROVE  PacketsInv'
        BY DEF PacketsPart
    <2>1. CASE UNCHANGED sumVars
        BY <2>1 DEF sumVars, packets, PacketsPart, PacketsInv, SplitInv, ChainInv, ChainTypes
    <2>2. CASE SumNext
        <3>1. part = "packets" /\ Packets!Next
            BY <2>2 DEF SumNext
        <3> QED BY <3>1, PacketsStep DEF PacketsPart
    <2> QED BY <2>1, <2>2
<1>3. PacketsPart => PartsAreReassembled
    <2> SUFFICES ASSUME PacketsPart, part = "packets"
                 PROVE  Packets!SplitDeliveredOnce /\ Packets!AssembledIsNewestRun
        BY DEF PartsAreReassembled, Packets!PartsAreReassembled
    <2>1. Packets!SplitDeliveredOnce
        BY DEF PacketsPart, PacketsInv, SplitInv, Packets!SplitDeliveredOnce
    <2>2. ASSUME NEW c \in Channels, chains[c] # <<>>
          PROVE  [i \in DOMAIN aaBuf[c].text |-> aaBuf[c].text[i].packet]
                    = [i \in 1..(Len(chains[c]) + 1 - Packets!NewestBreak(chains[c]))
                          |-> chains[c][Packets!NewestBreak(chains[c]) + i - 1].packet]
        <3> PICK s : s = chains[c]
            OBVIOUS
        <3> PICK first : first = Packets!NewestBreak(s)
            OBVIOUS
        <3>1. PICK t \in Seq(Part) : t = aaBuf[c].text /\ IsNewestRun(s, t)
            BY <2>2 DEF PacketsPart, PacketsInv, ChainInv, ChainTypes, Follows, Buffer
        <3>2. s \in Seq(Piece)
            BY <2>2 DEF PacketsPart, PacketsInv, ChainInv, ChainTypes
        <3>3. Packets!Breaks(s) \subseteq 1 .. Len(s)
            BY <3>2 DEF Packets!Breaks
        <3>4. first = Len(s) + 1 - Len(t)
            <4>1. PICK m \in Packets!Breaks(s) :
                     m = Len(s) + 1 - Len(t) /\ \A j \in Packets!Breaks(s) : j <= m
                BY <3>1 DEF IsNewestRun
            <4>2. first \in Packets!Breaks(s) /\ \A j \in Packets!Breaks(s) : j <= first
                BY <4>1 DEF Packets!NewestBreak
            <4> QED BY <3>3, <4>1, <4>2
        <3>5. DOMAIN t = 1 .. (Len(s) + 1 - first)
            BY <3>1, <3>2, <3>4
        <3>6. \A i \in 1 .. Len(t) : t[i].packet = s[first + i - 1].packet
            <4> TAKE i \in 1 .. Len(t)
            <4>1. Len(s) - Len(t) + i = first + i - 1
                BY <3>1, <3>2, <3>4
            <4> QED BY <3>1, <4>1 DEF IsNewestRun
        <3>7. 1 .. Len(t) = 1 .. (Len(s) + 1 - first) /\ DOMAIN t = 1 .. Len(t)
            BY <3>1, <3>5
        <3>8. [i \in DOMAIN t |-> t[i].packet]
                 = [i \in 1..(Len(s) + 1 - first) |-> s[first + i - 1].packet]
            BY <3>6, <3>7
        <3> QED BY <3>1, <3>8
    <2>3. Packets!AssembledIsNewestRun
        BY <2>2 DEF Packets!AssembledIsNewestRun
    <2> QED BY <2>1, <2>3
<1>4. QED BY <1>1, <1>2, <1>3, PTL DEF SumSpec

-----------------------------------------------------------------------------
(* Remainders                                                              *)

LEMMA Division ==
    ASSUME NEW d \in Nat \ {0}, NEW x \in Nat
    PROVE  /\ x % d \in 0 .. d - 1
           /\ \E q \in Nat : x = q * d + (x % d)
<1>1. PICK q \in Int : q = x \div d
    OBVIOUS
<1>2. x = d * q + (x % d) /\ x % d \in 0 .. d - 1 /\ q \in Nat
    BY <1>1
<1>3. x = q * d + (x % d)
    BY <1>2
<1>4. QED BY <1>2, <1>3

LEMMA Remainder ==
    ASSUME NEW d \in Nat \ {0}, NEW q \in Nat, NEW r \in 0 .. d - 1, NEW x \in Nat, x = q * d + r
    PROVE  x % d = r
<1>1. PICK p \in Nat : x = p * d + (x % d) /\ x % d \in 0 .. d - 1
    BY Division
<1>2. \A k \in Int : k >= 1 => k * d >= d
    OBVIOUS
<1>3. CASE p - q >= 1
    <2>1. (p - q) * d = r - (x % d)
        BY <1>1
    <2> QED BY <1>1, <1>2, <1>3, <2>1
<1>4. CASE q - p >= 1
    <2>1. (q - p) * d = (x % d) - r
        BY <1>1
    <2> QED BY <1>1, <1>2, <1>4, <2>1
<1>5. CASE p = q
    BY <1>1, <1>5
<1>6. QED BY <1>1, <1>3, <1>4, <1>5

LEMMA RemainderOfSum ==
    ASSUME NEW d \in Nat \ {0}, NEW x \in Nat, NEW y \in Nat
    PROVE  ((x % d) + y) % d = (x + y) % d
<1>1. PICK q \in Nat, r \in 0 .. d - 1 : r = x % d /\ x = q * d + r
    BY Division
<1>2. PICK z \in Nat : z = r + y
    OBVIOUS
<1>3. PICK p \in Nat, t \in 0 .. d - 1 : t = z % d /\ z = p * d + t
    BY Division
<1>4. PICK w \in Nat : w = x + y
    OBVIOUS
<1>5. PICK m \in Nat : m = q + p /\ m * d = q * d + p * d
    OBVIOUS
<1>6. w = m * d + t
    BY <1>1, <1>2, <1>3, <1>4, <1>5
<1>7. w % d = t
    BY <1>6, Remainder
<1>8. QED BY <1>1, <1>2, <1>3, <1>4, <1>7

\* Every place comes round.
LEMMA Reached ==
    ASSUME NEW d \in Nat \ {0}, NEW x \in Nat, NEW p \in 0 .. d - 1
    PROVE  \E y \in 0 .. d - 1 : (x + y) % d = p
<1>1. PICK q \in Nat, r \in 0 .. d - 1 : r = x % d /\ x = q * d + r
    BY Division
<1>2. PICK m \in Nat : m = q + 1 /\ m * d = q * d + d
    OBVIOUS
<1>3. PICK y \in 0 .. d - 1 : y = p - r \/ y = p - r + d
    <2>1. p - r \in 0 .. d - 1 \/ p - r + d \in 0 .. d - 1
        BY <1>1
    <2> QED BY <2>1
<1>4. PICK w \in Nat : w = x + y
    OBVIOUS
<1>5. CASE y = p - r
    <2>1. w = q * d + p
        BY <1>1, <1>3, <1>4, <1>5
    <2>2. q \in Nat
        BY <1>1
    <2>3. w % d = p
        BY <2>1, <2>2, Remainder
    <2> QED BY <1>4, <2>3
<1>6. CASE y = p - r + d
    <2>1. w = m * d + p
        BY <1>1, <1>2, <1>3, <1>4, <1>6
    <2>2. w % d = p
        BY <1>2, <2>1, Remainder
    <2> QED BY <1>4, <2>2
<1>7. QED BY <1>3, <1>5, <1>6

-----------------------------------------------------------------------------
(* The flight map                                                          *)

Entry == [known : BOOLEAN, seen : Nat, hasPos : BOOLEAN, posTime : Nat]

FlightTypes ==
    /\ clock \in Nat /\ lookupOffset \in Nat
    /\ entry \in [Map!Receivers -> [Aircraft -> Entry]]
    /\ skipped \in [ids : SUBSET Aircraft, since : [Aircraft -> Nat]]

\* What updateAircraft has left of the online positions, until something changes.
ShownInv ==
    current => \A a \in DOMAIN positions :
                  online /\ a \in Map!LookupIds /\ clock - positions[a] <= GoodFor

\* The place of an aircraft in the order of a set of them, and how many others the next
\* batch, which begins at offset, takes before it.
PlaceIn(ids, a) == Cardinality({b \in ids : b < a})
Before(ids, offset, a, k) == (offset + k) % Cardinality(ids) = PlaceIn(ids, a)

\* The longer an aircraft has waited the nearer is its turn.
Waiting(ids, since, offset) ==
    \A a \in ids : \E k \in Nat :
        /\ Before(ids, offset, a, k)
        /\ since[a] * Batch + k < Cardinality(ids)

TurnInv == Waiting(skipped.ids, skipped.since, lookupOffset)

\* The request that updateAircraft makes of a set, from offset on.
SizeOf(ids) == IF Batch < Cardinality(ids) THEN Batch ELSE Cardinality(ids)
BatchOf(ids, offset) ==
    {a \in ids : \E i \in 0 .. (SizeOf(ids) - 1) :
        PlaceIn(ids, a) = (offset + i) % Cardinality(ids)}
After(since, batch) == [a \in Aircraft |-> IF a \in batch THEN 0 ELSE since[a] + 1]

FlightInv == FlightTypes /\ ShownInv /\ TurnInv

LEMMA FlightInit == Map!Init => FlightInv
BY DEF Map!Init, Map!Unknown, FlightInv, FlightTypes, ShownInv, TurnInv, Waiting,
   Entry

LEMMA Counted ==
    ASSUME NEW ids \in SUBSET Aircraft, NEW a \in ids
    PROVE  /\ IsFiniteSet(ids) /\ Cardinality(ids) \in Nat \ {0}
           /\ PlaceIn(ids, a) \in 0 .. Cardinality(ids) - 1
<1> PICK less : less = {b \in ids : b < a}
    OBVIOUS
<1>1. IsFiniteSet(ids) /\ a \in Nat
    BY FS_Subset, MessagesAssumption DEF MessagesAssumption
<1>2. less \subseteq ids \ {a}
    BY <1>1
<1>3. /\ Cardinality(ids) \in Nat /\ Cardinality(ids) # 0
      /\ IsFiniteSet(ids \ {a}) /\ Cardinality(ids \ {a}) = Cardinality(ids) - 1
    BY <1>1, FS_CardinalityType, FS_EmptySet, FS_RemoveElement
<1>4. Cardinality(less) \in Nat /\ Cardinality(less) <= Cardinality(ids \ {a})
    BY <1>2, <1>3, FS_Subset, FS_CardinalityType
<1>5. QED BY <1>1, <1>3, <1>4 DEF PlaceIn
\* Wherever the next batch begins, each aircraft has its turn within a round.
LEMMA FirstTurn ==
    ASSUME NEW ids \in SUBSET Aircraft, NEW offset \in Nat, NEW a \in ids
    PROVE  \E k \in Nat : Before(ids, offset, a, k) /\ k < Cardinality(ids)
<1> PICK size : size = Cardinality(ids)
    OBVIOUS
<1> PICK p : p = PlaceIn(ids, a)
    OBVIOUS
<1>1. size \in Nat \ {0} /\ p \in 0 .. size - 1
    BY Counted
<1>2. PICK k \in 0 .. size - 1 : (offset + k) % size = p
    BY <1>1, Reached
<1>3. k \in Nat /\ k < size
    BY <1>1, <1>2
<1>4. QED BY <1>2, <1>3 DEF Before

\* Of those not in the batch each is nearer its turn by a whole batch.
LEMMA NextBatch ==
    ASSUME NEW ids \in SUBSET Aircraft, ids # {}, NEW since \in [Aircraft -> Nat],
           NEW offset \in Nat, Waiting(ids, since, offset)
    PROVE  LET next == (offset + SizeOf(ids)) % Cardinality(ids) IN
           next \in Nat /\ Waiting(ids, After(since, BatchOf(ids, offset)), next)
<1> PICK batch : batch = BatchOf(ids, offset)
    OBVIOUS
<1> PICK size : size = SizeOf(ids)
    OBVIOUS
<1> PICK all : all = Cardinality(ids)
    OBVIOUS
<1> PICK next : next = (offset + size) % all
    OBVIOUS
<1>1. all \in Nat \ {0} /\ Batch \in Nat \ {0}
    BY Counted, MessagesAssumption DEF MessagesAssumption
<1>2. size \in Nat /\ size <= all /\ (size = Batch \/ size = all)
    BY <1>1 DEF SizeOf
<1>3. next \in Nat
    <2>1. PICK x \in Nat : x = offset + size
        BY <1>2
    <2>2. x % all \in 0 .. all - 1
        BY <1>1, Division
    <2> QED BY <1>1, <2>1, <2>2
<1> SUFFICES ASSUME NEW a \in ids
             PROVE  \E k \in Nat :
                       /\ Before(ids, next, a, k)
                       /\ (IF a \in batch THEN 0 ELSE since[a] + 1) * Batch + k < all
    BY <1>3 DEF Waiting, After
<1>4. CASE a \in batch
    <2>1. PICK k \in Nat : Before(ids, next, a, k) /\ k < all
        BY <1>3, FirstTurn
    <2>2. 0 * Batch + k < all
        BY <1>1, <2>1
    <2> QED BY <1>4, <2>1, <2>2
<1>5. CASE a \notin batch
    <2>1. PICK w \in Nat : w = since[a]
        OBVIOUS
    <2>2. PICK k \in Nat : Before(ids, offset, a, k) /\ w * Batch + k < all
        BY <2>1 DEF Waiting
    <2>3. k \in Nat /\ k >= size
        <3>1. (offset + k) % all = PlaceIn(ids, a)
            BY <2>2 DEF Before
        <3>2. k \in 0 .. (size - 1) => a \in batch
            BY <3>1 DEF BatchOf
        <3> QED BY <1>2, <1>5, <2>2, <3>2
    <2>4. size = Batch
        <3>1. w * Batch >= 0
            BY <1>1
        <3> QED BY <1>1, <1>2, <2>2, <2>3, <3>1
    <2>5. PICK j \in Nat : j = k - size
        <3>1. size \in Nat /\ k \in Nat /\ k >= size
            BY <1>2, <2>3
        <3>2. k - size \in Nat
            BY <3>1
        <3> QED BY <3>2
    <2>6. Before(ids, next, a, j)
        <3>1. PICK x \in Nat : x = offset + size
            BY <1>2
        <3>2. ((x % all) + j) % all = (x + j) % all
            BY <1>1, RemainderOfSum
        <3>3. x + j = offset + k
            BY <1>2, <2>5, <3>1
        <3> QED BY <2>2, <3>1, <3>2, <3>3 DEF Before
    <2>7. (w + 1) * Batch + j < all
        <3>1. (w + 1) * Batch = w * Batch + Batch
            BY <1>1
        <3> PICK v : v = w * Batch
            OBVIOUS
        <3>2. v \in Nat
            BY <1>1
        <3> QED BY <1>1, <2>2, <2>4, <2>5, <3>1, <3>2
    <2> QED BY <1>5, <2>1, <2>6, <2>7
<1>6. QED BY <1>4, <1>5

-----------------------------------------------------------------------------

LEMMA Asked == Map!LookupIds \subseteq Aircraft
BY DEF Map!LookupIds, Map!Received

\* The instance has its own copy of FiniteSets.
LEMMA SameCardinality == ASSUME NEW S PROVE Map!Cardinality(S) = Cardinality(S)
BY DEF Map!Cardinality, Cardinality

\* What updateAircraft does, without the names of its locals.
LEMMA Updated ==
    ASSUME FlightTypes, Map!UpdateAircraft
    PROVE  /\ UNCHANGED <<clock, entry, dual, online>>
           /\ positions' = [a \in Map!StillWanted(Map!Answered) |-> Map!Answered[a]]
           /\ \E since \in [Aircraft -> Nat] :
                 /\ \/ skipped.ids = Map!LookupIds /\ since = skipped.since
                    \/ since = [a \in Aircraft |-> 0]
                 /\ \/ /\ skipped' = [ids |-> Map!LookupIds, since |-> since]
                       /\ lookupOffset' = lookupOffset
                    \/ /\ Map!LookupIds # {}
                       /\ skipped' = [ids |-> Map!LookupIds,
                                      since |-> After(since, BatchOf(Map!LookupIds, lookupOffset))]
                       /\ lookupOffset' = (lookupOffset + SizeOf(Map!LookupIds))
                                            % Cardinality(Map!LookupIds)
<1> DEFINE ids == Map!LookupIds
           all == Map!Cardinality(ids)
           size == IF Batch < all THEN Batch ELSE all
           batch == {a \in ids : \E i \in 0 .. (size - 1) :
                        Map!Place(a) = (lookupOffset + i) % all}
           since == IF skipped.ids = ids THEN skipped.since ELSE [a \in Aircraft |-> 0]
<1>1. since \in [Aircraft -> Nat]
    BY DEF FlightTypes
<1>2. /\ UNCHANGED <<clock, entry, dual, online>>
      /\ positions' = [a \in Map!StillWanted(Map!Answered) |-> Map!Answered[a]]
    BY DEF Map!UpdateAircraft
<1>3. \/ /\ skipped' = [ids |-> ids, since |-> since]
         /\ lookupOffset' = lookupOffset
      \/ /\ ids # {}
         /\ skipped' = [ids |-> ids, since |-> After(since, batch)]
         /\ lookupOffset' = (lookupOffset + size) % all
    BY DEF Map!UpdateAircraft, Map!NextOffset, After
<1>4. since = [a \in Aircraft |-> 0] \/ (skipped.ids = ids /\ since = skipped.since)
    OBVIOUS
<1>5. all = Cardinality(ids)
    BY SameCardinality
<1>6. \A a : Map!Place(a) = PlaceIn(ids, a)
    BY SameCardinality DEF Map!Place, PlaceIn
<1>7. size = SizeOf(ids)
    BY <1>5 DEF SizeOf
<1> HIDE DEF since, size, all
<1>8. batch = BatchOf(ids, lookupOffset)
    BY <1>5, <1>6, <1>7 DEF BatchOf
<1> HIDE DEF batch, ids
<1>9. QED BY <1>1, <1>2, <1>3, <1>4, <1>5, <1>7, <1>8 DEF ids

LEMMA UpdateKeepsTurns ==
    ASSUME FlightInv, Map!UpdateAircraft
    PROVE  /\ lookupOffset' \in Nat
           /\ skipped' \in [ids : SUBSET Aircraft, since : [Aircraft -> Nat]]
           /\ TurnInv'
<1> PICK ids \in SUBSET Aircraft : ids = Map!LookupIds
    BY Asked
<1>1. PICK since \in [Aircraft -> Nat] :
         /\ \/ skipped.ids = ids /\ since = skipped.since
            \/ since = [a \in Aircraft |-> 0]
         /\ \/ skipped' = [ids |-> ids, since |-> since] /\ lookupOffset' = lookupOffset
            \/ /\ ids # {}
               /\ skipped' = [ids |-> ids, since |-> After(since, BatchOf(ids, lookupOffset))]
               /\ lookupOffset' = (lookupOffset + SizeOf(ids)) % Cardinality(ids)
    BY Updated DEF FlightInv
<1>2. lookupOffset \in Nat
    BY DEF FlightInv, FlightTypes
<1>3. Waiting(ids, since, lookupOffset)
    <2>1. CASE skipped.ids = ids /\ since = skipped.since
        BY <2>1 DEF FlightInv, TurnInv
    <2>2. CASE since = [a \in Aircraft |-> 0]
        <3> SUFFICES ASSUME NEW a \in ids
                     PROVE  \E k \in Nat : /\ Before(ids, lookupOffset, a, k)
                                           /\ since[a] * Batch + k < Cardinality(ids)
            BY DEF Waiting
        <3>1. PICK k \in Nat : Before(ids, lookupOffset, a, k) /\ k < Cardinality(ids)
            BY <1>2, FirstTurn
        <3>2. 0 * Batch + k = k
            BY MessagesAssumption DEF MessagesAssumption
        <3>3. since[a] = 0
            BY <2>2
        <3> QED BY <3>1, <3>2, <3>3
    <2> QED BY <1>1, <2>1, <2>2
<1>4. CASE skipped' = [ids |-> ids, since |-> since] /\ lookupOffset' = lookupOffset
    BY <1>1, <1>2, <1>3, <1>4 DEF TurnInv
<1>5. CASE /\ ids # {}
           /\ skipped' = [ids |-> ids, since |-> After(since, BatchOf(ids, lookupOffset))]
           /\ lookupOffset' = (lookupOffset + SizeOf(ids)) % Cardinality(ids)
    <2>1. /\ lookupOffset' \in Nat
          /\ Waiting(ids, After(since, BatchOf(ids, lookupOffset)), lookupOffset')
        BY <1>1, <1>2, <1>3, <1>5, NextBatch
    <2>2. After(since, BatchOf(ids, lookupOffset)) \in [Aircraft -> Nat]
        BY <1>1 DEF After
    <2>3. TurnInv'
        BY <1>5, <2>1 DEF TurnInv
    <2> QED BY <1>5, <2>1, <2>2, <2>3
<1>6. QED BY <1>1, <1>4, <1>5

LEMMA UpdateShows ==
    ASSUME FlightInv, Map!UpdateAircraft
    PROVE  ShownInv'
<1>1. /\ UNCHANGED <<clock, entry, dual, online>>
      /\ positions' = [a \in Map!StillWanted(Map!Answered) |-> Map!Answered[a]]
    BY Updated DEF FlightInv
<1>2. Map!LookupIds' = Map!LookupIds
    BY <1>1 DEF Map!LookupIds, Map!Received, Map!Entries
<1>3. ASSUME NEW a \in DOMAIN positions'
      PROVE  online' /\ a \in Map!LookupIds' /\ clock' - positions'[a] <= GoodFor
    BY <1>1, <1>2, <1>3 DEF Map!StillWanted
<1>4. QED BY <1>3 DEF ShownInv

LEMMA FlightStep ==
    ASSUME FlightInv, Map!Next
    PROVE  FlightInv'
<1>1. ASSUME NEW r \in Map!Receivers, NEW a \in Aircraft, Map!Update(r, a)
      PROVE  FlightInv'
    <2>1. PICK e \in Entry : Map!Write(r, a, e)
        <3>1. clock \in Nat /\ entry[r][a] \in Entry
            BY <1>1 DEF FlightInv, FlightTypes
        <3>2. /\ [known |-> TRUE, seen |-> clock, hasPos |-> TRUE, posTime |-> clock] \in Entry
              /\ [entry[r][a] EXCEPT !.known = TRUE, !.seen = clock] \in Entry
            BY <3>1 DEF Entry
        <3> QED BY <1>1, <3>2 DEF Map!Update
    <2>2. FlightTypes'
        BY <2>1 DEF Map!Write, FlightInv, FlightTypes
    <2>3. ShownInv' /\ TurnInv'
        BY <2>1 DEF Map!Write, FlightInv, ShownInv, TurnInv
    <2> QED BY <2>2, <2>3 DEF FlightInv
<1>2. ASSUME Map!Clear
      PROVE  FlightInv'
    <2>1. [a \in Aircraft |-> Map!Unknown] \in [Aircraft -> Entry]
        BY DEF Map!Unknown, Entry
    <2>2. FlightTypes'
        BY <1>2, <2>1 DEF Map!Clear, FlightInv, FlightTypes
    <2>3. ShownInv' /\ TurnInv'
        BY <1>2 DEF Map!Clear, FlightInv, ShownInv, TurnInv
    <2> QED BY <2>2, <2>3 DEF FlightInv
<1>3. ASSUME Map!Tick
      PROVE  FlightInv'
    BY <1>3 DEF Map!Tick, FlightInv, FlightTypes, ShownInv, TurnInv
<1>4. ASSUME Map!SetOnline
      PROVE  FlightInv'
    BY <1>4 DEF Map!SetOnline, FlightInv, FlightTypes, ShownInv, TurnInv
<1>5. ASSUME Map!UpdateAircraft
      PROVE  FlightInv'
    <2>1. UNCHANGED <<clock, entry>>
        BY <1>5, Updated DEF FlightInv
    <2>2. FlightTypes'
        BY <1>5, <2>1, UpdateKeepsTurns DEF FlightInv, FlightTypes
    <2> QED BY <1>5, <2>2, UpdateShows, UpdateKeepsTurns DEF FlightInv
<1>6. ASSUME Map!Answer
      PROVE  FlightInv'
    BY <1>6 DEF Map!Answer, FlightInv, FlightTypes, ShownInv, TurnInv
<1>7. QED
    BY <1>1, <1>2, <1>3, <1>4, <1>5, <1>6 DEF Map!Next

\* What the two tables say of an aircraft: one entry or two.
LEMMA OneOrTwo ==
    ASSUME FlightTypes, NEW a \in Map!Received
    PROVE  /\ Map!Entries(a) # {} /\ Map!Entries(a) \subseteq Entry
           /\ \E x, y \in Entry : Map!Entries(a) \subseteq {x, y}
<1>1. a \in Aircraft /\ Map!Entries(a) # {}
    BY DEF Map!Received
<1>2. entry["A"][a] \in Entry /\ entry["B"][a] \in Entry
    BY <1>1 DEF FlightTypes, Map!Receivers
<1>3. Map!Entries(a) \subseteq {entry["A"][a], entry["B"][a]}
    BY DEF Map!Entries, Map!Receivers
<1>4. QED BY <1>1, <1>2, <1>3

\* The newest of one entry or two.
LEMMA LatestSeen ==
    ASSUME NEW x \in Entry, NEW y \in Entry, NEW es, es \subseteq {x, y}, es # {}
    PROVE  (CHOOSE e \in es : \A g \in es : g.seen <= e.seen) \in es
<1>1. \E e \in es : \A g \in es : g.seen <= e.seen
    <2>1. x.seen <= y.seen \/ y.seen <= x.seen
        BY DEF Entry
    <2>2. x.seen <= x.seen /\ y.seen <= y.seen
        BY DEF Entry
    <2> QED BY <2>1, <2>2
<1>2. QED BY <1>1

LEMMA LatestPlaced ==
    ASSUME NEW x \in Entry, NEW y \in Entry, NEW es, es \subseteq {x, y}, es # {}
    PROVE  LET newest == CHOOSE e \in es : \A g \in es : g.posTime <= e.posTime IN
           newest \in es /\ \A g \in es : g.posTime <= newest.posTime
<1>1. \E e \in es : \A g \in es : g.posTime <= e.posTime
    <2>1. x.posTime <= y.posTime \/ y.posTime <= x.posTime
        BY DEF Entry
    <2>2. x.posTime <= x.posTime /\ y.posTime <= y.posTime
        BY DEF Entry
    <2> QED BY <2>1, <2>2
<1>2. QED BY <1>1

LEMMA NewestShown ==
    ASSUME FlightTypes
    PROVE  Map!MapShowsNewestPosition
<1> SUFFICES ASSUME NEW a \in Map!Received,
                    NEW x \in Entry, NEW y \in Entry, Map!Entries(a) \subseteq {x, y},
                    {e \in Map!Entries(a) : e.hasPos} # {}
             PROVE  /\ Map!Row(a)[1] = "decoded"
                    /\ \A e \in {g \in Map!Entries(a) : g.hasPos} :
                           e.posTime <= Map!Row(a)[2]
    BY OneOrTwo DEF Map!MapShowsNewestPosition
<1> DEFINE es == Map!Entries(a)
           placed == {e \in es : e.hasPos}
           target == CHOOSE e \in es : \A g \in es : g.seen <= e.seen
           newest == CHOOSE e \in placed : \A g \in placed : g.posTime <= e.posTime
<1>1. target \in Entry
    <2>1. target \in es
        BY OneOrTwo, LatestSeen
    <2> QED BY <2>1, OneOrTwo
<1>2. newest \in placed /\ \A g \in placed : g.posTime <= newest.posTime
    BY LatestPlaced
<1>3. Map!Merged(a) = [target EXCEPT !.hasPos = TRUE, !.posTime = newest.posTime]
    BY DEF Map!Merged, Map!Latest
<1> HIDE DEF target, newest
<1>4. Map!Merged(a).hasPos /\ Map!Merged(a).posTime = newest.posTime
    BY <1>1, <1>3 DEF Entry
<1>5. Map!Row(a) = <<"decoded", newest.posTime>>
    BY <1>4 DEF Map!Row
<1>6. QED BY <1>2, <1>5

FlightPart == part = "flights" => FlightInv

\* The rows of the map: whichever receiver heard an aircraft last, the newest position either
\* decoded (flightMapJson); what updateAircraft left of the positions of the network only
\* where nothing was decoded and while they are good; and of an unchanged set of aircraft
\* none is left out of more requests than it takes to ask for the others.
THEOREM MapCurrent == SumSpec => []MapIsCurrent
<1>1. SumInit => FlightPart
    BY FlightInit DEF SumInit, FlightPart
<1>2. FlightPart /\ [SumNext]_sumVars => FlightPart'
    <2> SUFFICES ASSUME FlightPart, [SumNext]_sumVars, part' = "flights"
                 PROVE  FlightInv'
        BY DEF FlightPart
    <2>1. CASE UNCHANGED sumVars
        <3>1. part = "flights" /\ UNCHANGED flights
            BY <2>1 DEF sumVars
        <3>2. Map!LookupIds' = Map!LookupIds
            BY <3>1 DEF flights, Map!LookupIds, Map!Received, Map!Entries
        <3> QED BY <3>1, <3>2 DEF flights, FlightPart, FlightInv, FlightTypes, ShownInv, TurnInv
    <2>2. CASE SumNext
        <3>1. part = "flights" /\ Map!Next
            BY <2>2 DEF SumNext
        <3> QED BY <3>1, FlightStep DEF FlightPart
    <2> QED BY <2>1, <2>2
<1>3. FlightPart => MapIsCurrent
    <2> SUFFICES ASSUME FlightInv
                 PROVE  Map!MapIsCurrent
        BY DEF FlightPart, MapIsCurrent
    <2>1. Map!OnlineOnlyAsLastResort
        BY DEF FlightInv, ShownInv, Map!OnlineOnlyAsLastResort
    <2>2. Map!EveryAircraftIsAskedFor
        <3> SUFFICES ASSUME NEW a \in skipped.ids
                     PROVE  skipped.since[a] * Batch < Cardinality(skipped.ids)
            BY SameCardinality DEF Map!EveryAircraftIsAskedFor
        <3>1. PICK k \in Nat : skipped.since[a] * Batch + k < Cardinality(skipped.ids)
            BY DEF FlightInv, TurnInv, Waiting
        <3>2. skipped.since[a] \in Nat /\ Cardinality(skipped.ids) \in Nat
            BY Counted DEF FlightInv, FlightTypes
        <3>3. PICK v : v = skipped.since[a] * Batch
            OBVIOUS
        <3>4. v \in Nat
            BY <3>2, <3>3, MessagesAssumption DEF MessagesAssumption
        <3> QED BY <3>1, <3>2, <3>3, <3>4
    <2> QED BY <2>1, <2>2, NewestShown DEF FlightInv, Map!MapIsCurrent
<1>4. QED BY <1>1, <1>2, <1>3, PTL DEF SumSpec

-----------------------------------------------------------------------------
(* The feed                                                                *)

\* An entry of the log has at least one message.
LogEntry == [id : Ids, texts : Seq(1 .. MaxMessages) \ {<<>>}]

\* The messages with which the entries began, and those merged into one later.
Firsts(entries) == {entries[i].texts[1] : i \in DOMAIN entries}
Laters(entries) ==
    UNION {{entries[i].texts[k] : k \in 2 .. Len(entries[i].texts)} : i \in DOMAIN entries}

FeedTypes ==
    /\ merges \in BOOLEAN /\ frame \in {"idle", "counted"}
    /\ count \in 0 .. MaxMessages /\ lastFed \in 0 .. count /\ at \in Nat
    /\ frame = "counted" => at \in lastFed .. count
    /\ fed \in [1 .. MaxMessages -> Nat]
    /\ missed \in Nat /\ merged \in Nat /\ stale \in Nat /\ unsent \in Nat

\* The entries are in the order of their first messages; what is not fed yet is in the log
\* or went from it unread.
LogInv ==
    /\ msgs \in Seq(LogEntry)
    /\ \A i \in DOMAIN msgs : \A k \in DOMAIN msgs[i].texts : msgs[i].texts[k] \in 1 .. count
    /\ \A i, j \in DOMAIN msgs : i <= j => msgs[i].texts[1] + (j - i) <= msgs[j].texts[1]
    /\ \A m \in lastFed + 1 .. count : m \in Feed!Parts(msgs) \cup gone
    /\ \A m \in count + 1 .. MaxMessages : fed[m] = 0

\* Messages of this frame that came after count().
Behind == IF frame = "counted" THEN count - at ELSE 0

\* What was passed by, and what may be because it is not the first of its entry.
Passed == {m \in 1 .. lastFed : fed[m] = 0} \ gone
AtRisk == {m \in Laters(msgs) : m > lastFed}

\* Entries begun since lastFed, and those of them that were fed already.
News  == {m \in Firsts(msgs) : m > lastFed}
Again == {m \in News : fed[m] > 0}
OldInLog == \E m \in Firsts(msgs) : m <= lastFed

\* Each message that is passed by, or each entry fed again, has one message that came
\* after count() or was merged to answer for it.
MissedInv == Cardinality(Passed \cup AtRisk) + Behind <= missed + merged
StaleInv ==
    /\ stale + Cardinality(Again) + Behind <= missed + merged
    /\ OldInLog =>
          stale + Cardinality(Again) + Behind + (count - lastFed) - Cardinality(News) <= missed + merged

\* Whoever is connected has got what was sent since then.
ClientsInv ==
    /\ pending \subseteq Clients /\ clients \in Seq(Clients)
    /\ owed \in [Clients -> SUBSET Nat] /\ reached \in [Clients -> SUBSET Nat]
    /\ \A c \in Clients : owed[c] \subseteq reached[c]

FeedInv ==
    /\ FeedTypes /\ LogInv /\ MissedInv /\ StaleInv /\ ClientsInv
    /\ unsent > 0 => merges
FeedPart == part = "feeds" => FeedInv

LEMMA FeedInit == Feed!Init => FeedInv
<1> SUFFICES ASSUME Feed!Init PROVE FeedInv
    OBVIOUS
<1>1. MaxMessages \in Nat
    BY MessagesAssumption DEF MessagesAssumption
<1>2. FeedTypes /\ unsent = 0
    <2>1. /\ merges \in BOOLEAN /\ frame = "idle"
          /\ count = 0 /\ lastFed = 0 /\ at = 0 /\ missed = 0 /\ merged = 0 /\ stale = 0
          /\ unsent = 0 /\ fed = [m \in 1 .. MaxMessages |-> 0]
        BY Zenon DEF Feed!Init
    <2>2. merges \in BOOLEAN
        BY <2>1, Zenon
    <2>3. /\ frame \in {"idle", "counted"} /\ frame # "counted" /\ count \in 0 .. MaxMessages
          /\ lastFed \in 0 .. count /\ at \in Nat /\ missed \in Nat /\ merged \in Nat
          /\ stale \in Nat /\ unsent \in Nat
        BY <1>1, <2>1
    <2>4. fed \in [1 .. MaxMessages -> Nat]
        BY <2>1
    <2> QED BY <2>1, <2>2, <2>3, <2>4, Zenon DEF FeedTypes
<1>3. msgs = <<>> /\ count = 0 /\ lastFed = 0 /\ frame = "idle" /\ stale = 0 /\ missed = 0
      /\ merged = 0 /\ fed = [m \in 1 .. MaxMessages |-> 0]
    BY DEF Feed!Init
<1>4. LogInv
    <2>1. <<>> \in Seq(LogEntry) /\ DOMAIN <<>> = {}
        OBVIOUS
    <2>2. \A m \in lastFed + 1 .. count : m \in Feed!Parts(msgs) \cup gone
        BY <1>3
    <2> QED BY <1>1, <1>3, <2>1, <2>2 DEF LogInv
<1>5. Firsts(msgs) = {} /\ Laters(msgs) = {}
    BY <1>3 DEF Firsts, Laters
<1>6. Passed \cup AtRisk = {} /\ News = {} /\ Again = {} /\ ~OldInLog /\ Behind = 0
    BY <1>3, <1>5 DEF Passed, AtRisk, News, Again, OldInLog, Behind
<1>7. MissedInv /\ StaleInv
    <2>1. Cardinality({}) = 0
        BY FS_EmptySet
    <2>2. Cardinality(Passed \cup AtRisk) = 0 /\ Cardinality(Again) = 0
        BY <1>6, <2>1
    <2> QED BY <1>3, <1>6, <2>2 DEF MissedInv, StaleInv
<1>8. ClientsInv
    <2>1. <<>> \in Seq(Clients)
        OBVIOUS
    <2>2. clients = <<>> /\ pending = {} /\ owed = [c \in Clients |-> {}]
          /\ reached = [c \in Clients |-> {}]
        BY DEF Feed!Init
    <2> QED BY <2>1, <2>2 DEF ClientsInv
<1>9. QED BY <1>2, <1>4, <1>7, <1>8 DEF FeedInv

\* MessageFeed's instance has its own copies of what the lemmas are about.
LEMMA FeedCardinality == ASSUME NEW S PROVE Feed!Cardinality(S) = Cardinality(S)
BY Zenon DEF Feed!Cardinality, Cardinality

LEMMA FeedSelected ==
    ASSUME NEW s, NEW I
    PROVE  Feed!Selected(s, I) = Selected(s, I)
BY Zenon DEF Feed!Selected, Feed!Sorted, Feed!Rank, Feed!Cardinality, Selected, Sorted, Rank,
   Cardinality

-----------------------------------------------------------------------------
(* The SBS clients                                                         *)

LEMMA KeptAreClients ==
    ASSUME NEW cs \in Seq(Clients), NEW out
    PROVE  Feed!Kept(cs, out) \in Seq(Clients)
<1> PICK I \in SUBSET (DOMAIN cs) : Feed!Kept(cs, out) = Feed!Selected(cs, I)
    BY DEF Feed!Kept
<1>1. Selected(cs, I) \in Seq(Clients)
    BY SelectedAre
<1>2. QED BY <1>1, FeedSelected

LEMMA AcceptedAreClients ==
    ASSUME NEW S \in SUBSET Clients
    PROVE  Feed!SetToSeq(S) \in Seq(Clients)
<1>1. IsFiniteSet(S)
    BY MessagesAssumption, FS_Subset DEF MessagesAssumption
<1> PICK k \in Nat : k = Cardinality(S)
    BY <1>1, FS_CardinalityType
<1>2. PICK g : g \in Bijection(1 .. k, S)
    BY <1>1, FS_CardinalityType DEF ExistsBijection
<1>3. g \in [1 .. k -> S] /\ Feed!IsInjective(g)
    BY <1>2 DEF Bijection, Injection, Surjection, IsInjective, Feed!IsInjective
<1>4. Feed!SetToSeq(S) = CHOOSE h \in [1 .. k -> S] : Feed!IsInjective(h)
    BY FeedCardinality DEF Feed!SetToSeq
<1>5. Feed!SetToSeq(S) \in [1 .. k -> S]
    BY <1>3, <1>4, Zenon
<1>6. QED BY <1>5

LEMMA WaitingJoin ==
    ASSUME ClientsInv
    PROVE  clients \o Feed!SetToSeq(pending) \in Seq(Clients)
<1>1. clients \in Seq(Clients) /\ Feed!SetToSeq(pending) \in Seq(Clients)
    BY AcceptedAreClients DEF ClientsInv
<1>2. QED BY <1>1

\* What is sent goes to everyone the loop comes by, also if another one is taken out.
LEMMA SentToAll ==
    ASSUME ClientsInv, NEW sent \in SUBSET Nat, Feed!EmitSbs(sent)
    PROVE  ClientsInv'
<1>1. PICK failed \in SUBSET closed : 
         LET all == clients \o Feed!SetToSeq(pending)
             reads == {all[i] : i \in Feed!Visited(all, failed)}
         IN /\ clients' = Feed!Kept(all, failed) /\ pending' = {}
            /\ owed' = [c \in Clients |->
                           IF c \in Feed!ToSet(all) \ full THEN owed[c] \cup sent ELSE owed[c]]
            /\ reached' = [c \in Clients |->
                           IF c \in reads \ full THEN reached[c] \cup sent ELSE reached[c]]
    BY Zenon DEF Feed!EmitSbs
<1>2. PICK all : all = clients \o Feed!SetToSeq(pending)
    OBVIOUS
<1>3. all \in Seq(Clients)
    BY <1>2, WaitingJoin
<1>4. PICK reads : reads = {all[i] : i \in DOMAIN all}
    OBVIOUS
<1>5. /\ clients' = Feed!Kept(all, failed) /\ pending' = {}
      /\ owed' = [c \in Clients |-> IF c \in reads \ full THEN owed[c] \cup sent ELSE owed[c]]
      /\ reached' = [c \in Clients |-> IF c \in reads \ full THEN reached[c] \cup sent ELSE reached[c]]
    BY <1>1, <1>2, <1>4 DEF Feed!Visited, Feed!ToSet
<1>6. clients' \in Seq(Clients)
    BY <1>3, <1>5, KeptAreClients
<1>7. owed \in [Clients -> SUBSET Nat] /\ reached \in [Clients -> SUBSET Nat]
      /\ \A c \in Clients : owed[c] \subseteq reached[c]
    BY DEF ClientsInv
<1>8. \A c \in Clients : owed[c] \cup sent \in SUBSET Nat /\ reached[c] \cup sent \in SUBSET Nat
    BY <1>7
<1>9. owed' \in [Clients -> SUBSET Nat] /\ reached' \in [Clients -> SUBSET Nat]
    BY <1>5, <1>7, <1>8
<1>10. \A c \in Clients : owed'[c] \subseteq reached'[c]
    BY <1>5, <1>7
<1>11. QED BY <1>5, <1>6, <1>9, <1>10 DEF ClientsInv

LEMMA OutputsKeepClients ==
    ASSUME ClientsInv, Feed!Outputs, UNCHANGED <<owed, reached>>
    PROVE  ClientsInv'
<1>1. clients \o Feed!SetToSeq(pending) \in Seq(Clients)
    BY WaitingJoin
<1>2. clients' \in Seq(Clients) /\ pending' = {}
    <2>1. Feed!Kept(clients \o Feed!SetToSeq(pending), closed) \in Seq(Clients)
        BY <1>1, KeptAreClients
    <2>2. <<>> \in Seq(Clients)
        OBVIOUS
    <2> QED BY <2>1, <2>2, Zenon DEF Feed!Outputs
<1>3. QED BY <1>2, Zenon DEF ClientsInv

LEMMA ConnectKeepsClients ==
    ASSUME ClientsInv, NEW c \in Clients, Feed!Connect(c)
    PROVE  ClientsInv'
<1>1. /\ pending' = pending \cup {c} /\ clients' = clients
      /\ owed' = [owed EXCEPT ![c] = {}] /\ reached' = [reached EXCEPT ![c] = {}]
    BY Zenon DEF Feed!Connect
<1>2. QED BY <1>1 DEF ClientsInv

-----------------------------------------------------------------------------
(* The log                                                                 *)

LEMMA HeadOf ==
    ASSUME NEW T, NEW t \in Seq(T), t # <<>>
    PROVE  1 \in DOMAIN t /\ t[1] \in T
OBVIOUS

LEMMA OneElementMore ==
    ASSUME NEW S, NEW x, IsFiniteSet(S)
    PROVE  IsFiniteSet(S \cup {x}) /\ Cardinality(S \cup {x}) <= Cardinality(S) + 1
<1>1. Cardinality(S) \in Nat
    BY FS_CardinalityType
<1>2. QED BY <1>1, FS_AddElement

LEMMA UnionBound ==
    ASSUME NEW S, NEW T, IsFiniteSet(S), IsFiniteSet(T)
    PROVE  IsFiniteSet(S \cup T) /\ Cardinality(S \cup T) <= Cardinality(S) + Cardinality(T)
<1>1. Cardinality(S) \in Nat /\ Cardinality(T) \in Nat /\ Cardinality(S \cap T) \in Nat
    BY FS_CardinalityType, FS_Intersection
<1>2. /\ IsFiniteSet(S \cup T)
      /\ Cardinality(S \cup T) = Cardinality(S) + Cardinality(T) - Cardinality(S \cap T)
    BY FS_Union, Zenon
<1> PICK c, d : c = Cardinality(S \cup T) /\ d = Cardinality(S \cap T)
    OBVIOUS
<1>3. c = Cardinality(S) + Cardinality(T) - d /\ d \in Nat
    BY <1>1, <1>2
<1>4. c <= Cardinality(S) + Cardinality(T)
    BY <1>1, <1>3
<1>5. QED BY <1>2, <1>4

LEMMA DisjointUnion ==
    ASSUME NEW S, NEW T, IsFiniteSet(S), IsFiniteSet(T), S \cap T = {}
    PROVE  IsFiniteSet(S \cup T) /\ Cardinality(S \cup T) = Cardinality(S) + Cardinality(T)
<1>1. Cardinality(S) \in Nat /\ Cardinality(T) \in Nat /\ Cardinality(S \cap T) = 0
    BY FS_CardinalityType, FS_EmptySet
<1>2. /\ IsFiniteSet(S \cup T)
      /\ Cardinality(S \cup T) = Cardinality(S) + Cardinality(T) - Cardinality(S \cap T)
    BY FS_Union, Zenon
<1> PICK c, d : c = Cardinality(S \cup T) /\ d = Cardinality(S \cap T)
    OBVIOUS
<1>3. c = Cardinality(S) + Cardinality(T) - d /\ d = 0
    BY <1>1, <1>2
<1>4. c = Cardinality(S) + Cardinality(T)
    BY <1>1, <1>3
<1>5. QED BY <1>2, <1>4

LEMMA LastPart ==
    ASSUME NEW T, NEW s \in Seq(T), NEW k \in Nat, Len(s) = k + 1, NEW d \in 0 .. k
    PROVE  /\ SubSeq(s, d + 1, k + 1) \in Seq(T) /\ Len(SubSeq(s, d + 1, k + 1)) = k + 1 - d
           /\ \A i \in 1 .. k + 1 - d : SubSeq(s, d + 1, k + 1)[i] = s[d + i]
<1>1. PICK lo \in Int, hi \in Int : lo = d + 1 /\ hi = k + 1
    OBVIOUS
<1>2. \A i \in lo .. hi : s[i] \in T
    BY <1>1
<1>3. /\ SubSeq(s, lo, hi) \in Seq(T) /\ Len(SubSeq(s, lo, hi)) = (IF lo <= hi THEN hi - lo + 1 ELSE 0)
      /\ \A i \in 1 .. hi - lo + 1 : SubSeq(s, lo, hi)[i] = s[lo + i - 1]
    BY <1>2, SubSeqProperties
<1>4. lo <= hi /\ hi - lo + 1 = k + 1 - d
    BY <1>1
<1>5. \A i \in 1 .. k + 1 - d : lo + i - 1 = d + i
    BY <1>1
<1>6. QED BY <1>1, <1>3, <1>4, <1>5

\* As many entries as messages that begin them.
LEMMA EntriesCounted ==
    ASSUME LogInv, NEW I \in SUBSET (DOMAIN msgs)
    PROVE  /\ IsFiniteSet(I) /\ IsFiniteSet({msgs[i].texts[1] : i \in I})
           /\ Cardinality(I) = Cardinality({msgs[i].texts[1] : i \in I})
<1> PICK S : S = {msgs[i].texts[1] : i \in I}
    OBVIOUS
<1>1. IsFiniteSet(I) /\ I \in SUBSET Nat
    <2>1. DOMAIN msgs = 1 .. Len(msgs) /\ Len(msgs) \in Nat
        BY DEF LogInv
    <2>2. IsFiniteSet(1 .. Len(msgs))
        BY <2>1, FS_Interval
    <2> QED BY <2>1, <2>2, FS_Subset
<1>2. PICK g : g = [i \in I |-> msgs[i].texts[1]]
    OBVIOUS
<1>3. g \in [I -> S] /\ \A x \in S : \E i \in I : g[i] = x
    BY <1>2
<1>4. \A i, j \in I : i # j => g[i] # g[j]
    <2> SUFFICES ASSUME NEW i \in I, NEW j \in I, i < j
                 PROVE  g[i] # g[j]
        BY <1>1
    <2>1. g[i] + (j - i) <= g[j] /\ g[i] \in Nat
        <3>1. msgs[i].texts[1] + (j - i) <= msgs[j].texts[1]
            BY <1>1 DEF LogInv
        <3>2. msgs[i] \in LogEntry
            BY DEF LogInv
        <3>3. msgs[i].texts[1] \in Nat
            <4>1. PICK t \in Seq(1 .. MaxMessages) : t = msgs[i].texts /\ t # <<>>
                BY <3>2 DEF LogEntry
            <4>2. t[1] \in 1 .. MaxMessages
                BY <4>1, HeadOf
            <4> QED BY <4>1, <4>2
        <3> QED BY <1>2, <3>1, <3>3
    <2> QED BY <1>1, <2>1
<1>5. g \in Bijection(I, S)
    BY <1>3, <1>4 DEF Bijection, Injection, Surjection, IsInjective
<1>6. QED BY <1>1, <1>5, FS_Bijection DEF ExistsBijection

LEMMA Within ==
    ASSUME NEW a \in Nat, NEW d \in Int, NEW b \in Nat, NEW c \in Nat, a + d <= b, b <= c
    PROVE  a + d <= c
OBVIOUS

\* The first message of an entry, and how far it is from the newest one.
LEMMA FirstText ==
    ASSUME FeedTypes, LogInv, NEW i \in DOMAIN msgs
    PROVE  /\ msgs[i] \in LogEntry /\ msgs[i].texts[1] \in Firsts(msgs)
           /\ 1 \in DOMAIN msgs[i].texts
           /\ msgs[i].texts[1] \in 1 .. count
           /\ msgs[i].texts[1] + (Len(msgs) - i) <= count
           /\ i \in 1 .. Len(msgs) /\ Len(msgs) \in Nat
<1>1. i \in 1 .. Len(msgs) /\ Len(msgs) \in Nat /\ msgs[i] \in LogEntry
    BY DEF LogInv
<1>2. ASSUME NEW j \in DOMAIN msgs PROVE 1 \in DOMAIN msgs[j].texts
    <2>1. msgs[j] \in LogEntry
        BY DEF LogInv
    <2>2. PICK t \in Seq(1 .. MaxMessages) : t = msgs[j].texts /\ t # <<>>
        BY <2>1 DEF LogEntry
    <2>3. 1 \in DOMAIN t
        BY <2>2
    <2> QED BY <2>2, <2>3
<1>3. msgs[i].texts[1] \in 1 .. count
    BY <1>2 DEF LogInv
<1>4. Len(msgs) \in DOMAIN msgs /\ i <= Len(msgs)
    BY <1>1 DEF LogInv
<1>5. msgs[Len(msgs)].texts[1] \in 1 .. count
    BY <1>2, <1>4 DEF LogInv
<1>6. msgs[i].texts[1] + (Len(msgs) - i) <= msgs[Len(msgs)].texts[1]
    BY <1>4 DEF LogInv
<1>7. count \in Nat
    BY MessagesAssumption DEF FeedTypes, MessagesAssumption
<1>8. msgs[i].texts[1] + (Len(msgs) - i) <= count
    <2>1. msgs[i].texts[1] \in Nat /\ msgs[Len(msgs)].texts[1] \in Nat
        BY <1>3, <1>5, <1>7
    <2>2. Len(msgs) - i \in Int
        BY <1>1
    <2>3. msgs[Len(msgs)].texts[1] <= count
        BY <1>5, <1>7
    <2> QED BY <1>6, <1>7, <2>1, <2>2, <2>3, Within
<1>9. QED BY <1>1, <1>2, <1>3, <1>8 DEF Firsts

LEMMA TextsAre ==
    ASSUME NEW x \in LogEntry
    PROVE  DOMAIN x.texts = {1} \cup (2 .. Len(x.texts))
<1> PICK t \in Seq(1 .. MaxMessages) : t = x.texts /\ t # <<>>
    BY DEF LogEntry
<1>1. DOMAIN t = {1} \cup (2 .. Len(t))
    OBVIOUS
<1>2. QED BY <1>1

LEMMA PartsAre ==
    ASSUME NEW es \in Seq(LogEntry)
    PROVE  Feed!Parts(es) = Firsts(es) \cup Laters(es)
<1>1. Feed!Parts(es) = UNION {{es[i].texts[k] : k \in DOMAIN es[i].texts} : i \in DOMAIN es}
    BY DEF Feed!Parts, Feed!ToSet
<1>2. \A i \in DOMAIN es : DOMAIN es[i].texts = {1} \cup (2 .. Len(es[i].texts))
    <2> TAKE i \in DOMAIN es
    <2>1. es[i] \in LogEntry
        OBVIOUS
    <2> QED BY <2>1, TextsAre
<1>3. ASSUME NEW x \in Feed!Parts(es) PROVE x \in Firsts(es) \cup Laters(es)
    <2>1. PICK i \in DOMAIN es : \E k \in DOMAIN es[i].texts : x = es[i].texts[k]
        BY <1>1
    <2>2. PICK k \in DOMAIN es[i].texts : x = es[i].texts[k]
        BY <2>1
    <2>3. CASE k = 1
        BY <2>2, <2>3 DEF Firsts
    <2>4. CASE k \in 2 .. Len(es[i].texts)
        BY <2>2, <2>4 DEF Laters
    <2> QED BY <1>2, <2>3, <2>4
<1>4. ASSUME NEW x \in Firsts(es) PROVE x \in Feed!Parts(es)
    <2>1. PICK i \in DOMAIN es : x = es[i].texts[1]
        BY DEF Firsts
    <2> QED BY <1>1, <1>2, <2>1
<1>5. ASSUME NEW x \in Laters(es) PROVE x \in Feed!Parts(es)
    <2>1. PICK i \in DOMAIN es : \E k \in 2 .. Len(es[i].texts) : x = es[i].texts[k]
        BY DEF Laters
    <2>2. PICK k \in DOMAIN es[i].texts : x = es[i].texts[k]
        BY <1>2, <2>1
    <2> QED BY <1>1, <2>2
<1>6. QED BY <1>3, <1>4, <1>5

LEMMA SetsOfMessages ==
    ASSUME FeedTypes, LogInv
    PROVE  /\ Firsts(msgs) \subseteq 1 .. count /\ Laters(msgs) \subseteq 1 .. count
           /\ Feed!Parts(msgs) = Firsts(msgs) \cup Laters(msgs)
           /\ count \in Nat /\ lastFed \in Nat /\ MaxMessages \in Nat
           /\ lastFed <= count /\ count <= MaxMessages
<1>1. /\ count \in Nat /\ lastFed \in Nat /\ MaxMessages \in Nat
      /\ lastFed <= count /\ count <= MaxMessages
    BY MessagesAssumption DEF FeedTypes, MessagesAssumption
<1>2. Firsts(msgs) \subseteq 1 .. count
    BY FirstText DEF Firsts
<1>3. Laters(msgs) \subseteq 1 .. count
    <2> SUFFICES ASSUME NEW i \in DOMAIN msgs, NEW k \in 2 .. Len(msgs[i].texts)
                 PROVE  msgs[i].texts[k] \in 1 .. count
        BY DEF Laters
    <2>1. msgs[i] \in LogEntry
        BY DEF LogInv
    <2>2. k \in DOMAIN msgs[i].texts
        BY <2>1, TextsAre
    <2> QED BY <2>2 DEF LogInv
<1>4. Feed!Parts(msgs) = Firsts(msgs) \cup Laters(msgs)
    BY PartsAre DEF LogInv
<1>5. QED BY <1>1, <1>2, <1>3, <1>4

LEMMA FeedSetsFinite ==
    FeedTypes /\ LogInv =>
           /\ IsFiniteSet(Passed \cup AtRisk) /\ Cardinality(Passed \cup AtRisk) \in Nat
           /\ IsFiniteSet(News) /\ Cardinality(News) \in Nat /\ News \subseteq 1 .. count
           /\ IsFiniteSet(Again) /\ Cardinality(Again) \in Nat
           /\ Behind \in Nat
<1> SUFFICES ASSUME FeedTypes, LogInv
             PROVE  /\ IsFiniteSet(Passed \cup AtRisk) /\ Cardinality(Passed \cup AtRisk) \in Nat
                    /\ IsFiniteSet(News) /\ Cardinality(News) \in Nat /\ News \subseteq 1 .. count
                    /\ IsFiniteSet(Again) /\ Cardinality(Again) \in Nat
                    /\ Behind \in Nat
    OBVIOUS
<1>1. IsFiniteSet(1 .. count) /\ count \in Nat
    BY SetsOfMessages, FS_Interval
<1>2. Passed \cup AtRisk \subseteq 1 .. count /\ News \subseteq 1 .. count /\ Again \subseteq 1 .. count
    BY SetsOfMessages DEF Passed, AtRisk, News, Again
<1>3. /\ IsFiniteSet(Passed \cup AtRisk) /\ IsFiniteSet(News) /\ IsFiniteSet(Again)
    BY <1>1, <1>2, FS_Subset
<1>4. Behind \in Nat
    BY <1>1 DEF FeedTypes, Behind
<1>5. QED BY <1>2, <1>3, <1>4, FS_CardinalityType

\* A message merged into the newest entry of its id.
LEMMA MergedIn ==
    ASSUME FeedTypes, LogInv, count < MaxMessages, NEW id \in Ids,
           \E i \in DOMAIN msgs : merges /\ msgs[i].id = id,
           NEW es, es = Feed!Appended(count + 1, id)
    PROVE  /\ es \in Seq(LogEntry) /\ DOMAIN es = DOMAIN msgs
           /\ \A i \in DOMAIN es : es[i].texts[1] = msgs[i].texts[1]
           /\ \A i \in DOMAIN es : \A k \in DOMAIN es[i].texts : es[i].texts[k] \in 1 .. count + 1
           /\ Firsts(es) = Firsts(msgs) /\ Laters(es) = Laters(msgs) \cup {count + 1}
<1> PICK m : m = count + 1
    OBVIOUS
<1>1. m \in 1 .. MaxMessages /\ count \in Nat
    BY MessagesAssumption DEF FeedTypes, MessagesAssumption
<1> PICK same : same = {i \in DOMAIN msgs : merges /\ msgs[i].id = id}
    OBVIOUS
<1> PICK last : last = CHOOSE i \in same : \A j \in same : j <= i
    OBVIOUS
<1>2. same # {} /\ es = [msgs EXCEPT ![last].texts = Append(@, m)]
    BY Zenon DEF Feed!Appended
<1>3. last \in DOMAIN msgs
    <2>1. msgs \in Seq(LogEntry)
        BY DEF LogInv
    <2>2. DOMAIN msgs = 1 .. Len(msgs) /\ Len(msgs) \in Nat
        BY <2>1
    <2>3. same \in SUBSET (1 .. Len(msgs)) /\ IsFiniteSet(1 .. Len(msgs))
        BY <2>2, FS_Interval
    <2>4. \E i \in same : \A j \in same : j <= i
        <3>1. IsFiniteSet(same)
            BY <2>3, FS_Subset
        <3>2. same \in SUBSET Nat
            BY <2>2, <2>3
        <3> QED BY <1>2, <3>1, <3>2, Greatest
    <2>5. last \in same
        BY <2>4
    <2> QED BY <2>5
<1>4. PICK t : t = msgs[last].texts
    OBVIOUS
<1>5. msgs[last] \in LogEntry /\ t \in Seq(1 .. MaxMessages) /\ t # <<>>
    <2>1. msgs[last] \in LogEntry
        BY <1>3 DEF LogInv
    <2> QED BY <1>4, <2>1 DEF LogEntry
<1>6. PICK u : u = Append(t, m)
    OBVIOUS
<1>7. /\ u \in Seq(1 .. MaxMessages) \ {<<>>} /\ Len(u) = Len(t) + 1 /\ u[Len(u)] = m
      /\ u[1] = t[1] /\ \A k \in DOMAIN t : u[k] = t[k]
      /\ DOMAIN u = DOMAIN t \cup {Len(u)} /\ Len(u) >= 2
    <2>1. Len(t) \in Nat /\ Len(t) >= 1 /\ DOMAIN t = 1 .. Len(t)
        BY <1>5
    <2>2. u \in Seq(1 .. MaxMessages) /\ Len(u) = Len(t) + 1 /\ u[Len(u)] = m
          /\ \A k \in DOMAIN t : u[k] = t[k]
        BY <1>1, <1>5, <1>6
    <2>3. u # <<>> /\ DOMAIN u = 1 .. Len(t) + 1
        BY <2>1, <2>2
    <2> QED BY <2>1, <2>2, <2>3
<1>8. /\ DOMAIN es = DOMAIN msgs /\ es[last] = [msgs[last] EXCEPT !.texts = u]
      /\ \A i \in DOMAIN msgs : i # last => es[i] = msgs[i]
    BY <1>2, <1>3, <1>4, <1>6, Zenon
<1>9. es[last].texts = u /\ es[last] \in LogEntry
    <2>1. \A x \in LogEntry, v \in Seq(1 .. MaxMessages) \ {<<>>} :
             [x EXCEPT !.texts = v] \in LogEntry /\ [x EXCEPT !.texts = v].texts = v
        BY DEF LogEntry
    <2> PICK x \in LogEntry : x = msgs[last]
        BY <1>5
    <2>2. es[last] = [x EXCEPT !.texts = u]
        BY <1>8
    <2>3. [x EXCEPT !.texts = u] \in LogEntry /\ [x EXCEPT !.texts = u].texts = u
        BY <1>7, <2>1, Zenon
    <2> QED BY <2>2, <2>3, Zenon
<1>10. es \in Seq(LogEntry)
    <2>1. msgs \in Seq(LogEntry) /\ \A i \in DOMAIN msgs : msgs[i] \in LogEntry
        BY DEF LogInv
    <2>2. \A i \in DOMAIN es : es[i] \in LogEntry
        BY <1>8, <1>9, <2>1
    <2>3. es = [i \in 1 .. Len(msgs) |-> es[i]]
        <3>1. DOMAIN msgs = 1 .. Len(msgs)
            BY <2>1
        <3> QED BY <1>2, <3>1
    <2>4. Len(msgs) \in Nat /\ DOMAIN es = 1 .. Len(msgs)
        BY <1>8, <2>1
    <2> QED BY <2>2, <2>3, <2>4
<1>11. \A i \in DOMAIN es : es[i].texts[1] = msgs[i].texts[1]
    BY <1>4, <1>7, <1>8, <1>9
<1>12. \A i \in DOMAIN es : \A k \in DOMAIN es[i].texts : es[i].texts[k] \in 1 .. count + 1
    <2>1. \A i \in DOMAIN msgs : \A k \in DOMAIN msgs[i].texts : msgs[i].texts[k] \in 1 .. count + 1
        BY <1>1 DEF LogInv
    <2>2. \A k \in DOMAIN u : u[k] \in 1 .. count + 1
        <3>1. \A k \in DOMAIN t : t[k] \in 1 .. count + 1
            BY <1>3, <1>4, <2>1, Zenon
        <3>2. \A k \in DOMAIN u : k \in DOMAIN t \/ k = Len(u)
            BY <1>7
        <3>3. u[Len(u)] \in 1 .. count + 1 /\ \A k \in DOMAIN t : u[k] = t[k]
            BY <1>1, <1>7
        <3> QED BY <3>1, <3>2, <3>3, Zenon
    <2> SUFFICES ASSUME NEW i \in DOMAIN es
                 PROVE  \A k \in DOMAIN es[i].texts : es[i].texts[k] \in 1 .. count + 1
        OBVIOUS
    <2>3. CASE i = last
        BY <1>9, <2>2, <2>3
    <2>4. CASE i # last
        BY <1>8, <2>1, <2>4
    <2> QED BY <2>3, <2>4
<1>13. Firsts(es) = Firsts(msgs)
    BY <1>8, <1>11 DEF Firsts
<1>14. Laters(es) = Laters(msgs) \cup {m}
    <2> DEFINE L(x, i) == {x[i].texts[k] : k \in 2 .. Len(x[i].texts)}
    <2>1. L(es, last) = L(msgs, last) \cup {m}
        <3>1. L(es, last) = {u[k] : k \in 2 .. Len(u)} /\ L(msgs, last) = {t[k] : k \in 2 .. Len(t)}
            BY <1>4, <1>9
        <3>2. 2 .. Len(u) = (2 .. Len(t)) \cup {Len(u)} /\ 2 .. Len(t) \subseteq DOMAIN t
            BY <1>5, <1>7
        <3>3. {u[k] : k \in 2 .. Len(u)} = {t[k] : k \in 2 .. Len(t)} \cup {m}
            BY <1>7, <3>2
        <3> QED BY <3>1, <3>3
    <2>2. \A i \in DOMAIN msgs : i # last => L(es, i) = L(msgs, i)
        BY <1>8
    <2>3. Laters(es) = UNION {L(es, i) : i \in DOMAIN msgs} /\ Laters(msgs) = UNION {L(msgs, i) : i \in DOMAIN msgs}
        BY <1>8, Zenon DEF Laters
    <2> HIDE DEF L
    <2> QED BY <1>3, <2>1, <2>2, <2>3
<1>15. QED BY <1>8, <1>10, <1>11, <1>12, <1>13, <1>14

\* A message that begins an entry: older entries may go, from the old end.
LEMMA BegunAnew ==
    ASSUME FeedTypes, LogInv, count < MaxMessages, NEW id \in Ids,
           ~ \E i \in DOMAIN msgs : merges /\ msgs[i].id = id,
           NEW es, es = Feed!Appended(count + 1, id)
    PROVE  /\ es \in Seq(LogEntry)
           /\ \A i \in DOMAIN es : \A k \in DOMAIN es[i].texts : es[i].texts[k] \in 1 .. count + 1
           /\ \A i, j \in DOMAIN es : i <= j => es[i].texts[1] + (j - i) <= es[j].texts[1]
           /\ Laters(es) \subseteq Laters(msgs)
           /\ Firsts(es) \subseteq Firsts(msgs) \cup {count + 1} /\ count + 1 \in Firsts(es)
           /\ \A x \in Firsts(msgs), y \in Firsts(es) : y <= x => x \in Firsts(es)
<1> PICK m : m = count + 1
    OBVIOUS
<1>1. m \in 1 .. MaxMessages /\ count \in Nat
    BY MessagesAssumption DEF FeedTypes, MessagesAssumption
<1>2. PICK size \in Nat : size = Len(msgs) /\ DOMAIN msgs = 1 .. size
    BY DEF LogInv
<1> PICK e : e = [id |-> id, texts |-> <<m>>]
    OBVIOUS
<1>3. PICK longer : longer = Append(msgs, e)
    OBVIOUS
<1>4. es = SubSeq(longer, IF Len(longer) > KMax THEN Len(longer) - KMax + 1 ELSE 1, Len(longer))
    BY <1>3, Zenon DEF Feed!Appended, Feed!Trimmed
<1>5. e \in LogEntry /\ e.texts[1] = m /\ DOMAIN e.texts = {1} /\ Len(e.texts) = 1
    <2>1. <<m>> \in Seq(1 .. MaxMessages) \ {<<>>} /\ DOMAIN <<m>> = {1}
        BY <1>1
    <2> QED BY <2>1 DEF LogEntry
<1>6. /\ longer \in Seq(LogEntry) /\ Len(longer) = size + 1 /\ longer[size + 1] = e
      /\ \A i \in 1 .. size : longer[i] = msgs[i]
    <2>1. msgs \in Seq(LogEntry)
        BY DEF LogInv
    <2> QED BY <1>2, <1>3, <1>5, <2>1
<1>7. PICK d \in 0 .. size : /\ es \in Seq(LogEntry) /\ Len(es) = size + 1 - d
                             /\ \A i \in 1 .. Len(es) : es[i] = longer[d + i]
    <2>1. KMax \in Nat \ {0}
        BY MessagesAssumption DEF MessagesAssumption
    <2>2. PICK d : d = (IF size + 1 > KMax THEN size + 1 - KMax ELSE 0)
        OBVIOUS
    <2>3. d \in 0 .. size
        BY <1>2, <2>1, <2>2
    <2>4. es = SubSeq(longer, d + 1, size + 1)
        BY <1>4, <1>6, <2>1, <2>2
    <2>5. es \in Seq(LogEntry) /\ Len(es) = size + 1 - d /\ \A i \in 1 .. Len(es) : es[i] = longer[d + i]
        <3>1. longer \in Seq(LogEntry) /\ Len(longer) = size + 1
            BY <1>6, Zenon
        <3>2. /\ SubSeq(longer, d + 1, size + 1) \in Seq(LogEntry)
              /\ Len(SubSeq(longer, d + 1, size + 1)) = size + 1 - d
              /\ \A i \in 1 .. size + 1 - d : SubSeq(longer, d + 1, size + 1)[i] = longer[d + i]
            BY <2>3, <3>1, LastPart, Zenon
        <3> QED BY <2>4, <3>2, Zenon
    <2> QED BY <2>3, <2>5
<1>8. DOMAIN es = 1 .. size + 1 - d
    BY <1>7
<1>9. \A i \in DOMAIN es : d + i \in 1 .. size + 1 /\ es[i] = longer[d + i]
    <2>1. \A i \in 1 .. size + 1 - d : d + i \in 1 .. size + 1
        BY <1>2
    <2> QED BY <1>7, <1>8, <2>1
<1>10. \A i \in 1 .. size + 1 : \A k \in DOMAIN longer[i].texts : longer[i].texts[k] \in 1 .. count + 1
    <2>1. \A i \in 1 .. size : \A k \in DOMAIN msgs[i].texts : msgs[i].texts[k] \in 1 .. count + 1
        BY <1>1, <1>2 DEF LogInv
    <2>2. \A k \in DOMAIN e.texts : e.texts[k] \in 1 .. count + 1
        BY <1>1, <1>5
    <2>3. \A i \in 1 .. size + 1 : i \in 1 .. size \/ i = size + 1
        BY <1>2
    <2> QED BY <1>6, <2>1, <2>2, <2>3
<1>11. ASSUME NEW i \in 1 .. size + 1, NEW j \in 1 .. size + 1, i <= j
       PROVE  longer[i].texts[1] + (j - i) <= longer[j].texts[1]
    <2>1. CASE j \in 1 .. size
        <3>1. i \in 1 .. size
            BY <1>2, <1>11, <2>1
        <3>2. msgs[i].texts[1] + (j - i) <= msgs[j].texts[1]
            BY <1>2, <1>11, <2>1, <3>1 DEF LogInv
        <3> QED BY <1>6, <2>1, <3>1, <3>2
    <2>2. CASE j = size + 1 /\ i \in 1 .. size
        <3>1. msgs[i].texts[1] \in 1 .. count /\ msgs[i].texts[1] + (size - i) <= count
            BY <1>2, <2>2, FirstText
        <3>2. longer[i].texts[1] = msgs[i].texts[1] /\ longer[j].texts[1] = count + 1
            BY <1>5, <1>6, <2>2
        <3> QED BY <1>1, <1>2, <2>2, <3>1, <3>2
    <2>3. CASE j = size + 1 /\ i = size + 1
        BY <1>1, <1>2, <1>5, <1>6, <2>3
    <2> QED BY <1>2, <2>1, <2>2, <2>3
<1>12. \A i, j \in DOMAIN es : i <= j => es[i].texts[1] + (j - i) <= es[j].texts[1]
    <2> SUFFICES ASSUME NEW i \in DOMAIN es, NEW j \in DOMAIN es, i <= j
                 PROVE  es[i].texts[1] + (j - i) <= es[j].texts[1]
        OBVIOUS
    <2>1. d + i \in 1 .. size + 1 /\ d + j \in 1 .. size + 1 /\ d + i <= d + j
          /\ (d + j) - (d + i) = j - i
        BY <1>2, <1>8
    <2>2. longer[d + i].texts[1] + ((d + j) - (d + i)) <= longer[d + j].texts[1]
        BY <1>11, <2>1
    <2> QED BY <1>9, <2>1, <2>2
<1>13. Laters(es) \subseteq Laters(msgs)
    <2> SUFFICES ASSUME NEW i \in DOMAIN es, NEW k \in 2 .. Len(es[i].texts)
                 PROVE  es[i].texts[k] \in Laters(msgs)
        <3>1. \A x \in Laters(es) : \E i \in DOMAIN es : \E k \in 2 .. Len(es[i].texts) : x = es[i].texts[k]
            BY DEF Laters
        <3> QED BY <3>1
    <2>1. CASE d + i \in 1 .. size
        <3>1. es[i] = msgs[d + i] /\ d + i \in DOMAIN msgs
            BY <1>2, <1>6, <1>9, <2>1
        <3> QED BY <3>1 DEF Laters
    <2>2. CASE d + i = size + 1
        BY <1>5, <1>6, <1>9, <2>2
    <2> QED BY <1>2, <1>9, <2>1, <2>2
<1>14. Firsts(es) \subseteq Firsts(msgs) \cup {m}
    <2> SUFFICES ASSUME NEW i \in DOMAIN es
                 PROVE  es[i].texts[1] \in Firsts(msgs) \cup {m}
        BY DEF Firsts
    <2>1. CASE d + i \in 1 .. size
        <3>1. es[i] = msgs[d + i] /\ d + i \in DOMAIN msgs
            BY <1>2, <1>6, <1>9, <2>1
        <3> QED BY <3>1 DEF Firsts
    <2>2. CASE d + i = size + 1
        BY <1>5, <1>6, <1>9, <2>2
    <2> QED BY <1>2, <1>9, <2>1, <2>2
<1>15. m \in Firsts(es)
    <2>1. size + 1 - d \in DOMAIN es /\ d + (size + 1 - d) = size + 1
        BY <1>2, <1>8
    <2>2. es[size + 1 - d].texts[1] = m
        BY <1>5, <1>6, <1>9, <2>1
    <2> QED BY <2>1, <2>2 DEF Firsts
<1>16. ASSUME NEW x \in Firsts(msgs), NEW y \in Firsts(es), y <= x
       PROVE  x \in Firsts(es)
    <2>1. PICK i \in 1 .. size : x = msgs[i].texts[1]
        BY <1>2 DEF Firsts
    <2>2. PICK j \in DOMAIN es : y = es[j].texts[1]
        BY DEF Firsts
    <2>3. x = longer[i].texts[1] /\ y = longer[d + j].texts[1] /\ x \in 1 .. count
        BY <1>2, <1>6, <1>9, <2>1, <2>2, FirstText
    <2>4. CASE i < d + j
        <3>1. d + j \in 1 .. size + 1 /\ i \in 1 .. size + 1
            BY <1>2, <1>9
        <3>2. x + ((d + j) - i) <= y
            BY <1>11, <2>3, <2>4, <3>1
        <3>3. y \in Nat
            <4>1. y \in Firsts(msgs) \cup {m}
                BY <1>14
            <4> QED BY <1>1, <4>1, SetsOfMessages
        <3> QED BY <1>1, <1>2, <1>16, <2>3, <2>4, <3>1, <3>2, <3>3
    <2>5. CASE d + j <= i
        <3>1. i - d \in DOMAIN es /\ d + (i - d) = i
            BY <1>2, <1>8, <2>5
        <3>2. es[i - d].texts[1] = x
            BY <1>9, <2>3, <3>1
        <3> QED BY <3>1, <3>2 DEF Firsts
    <2>6. i \in Nat /\ d + j \in Nat
        BY <1>2, <1>9
    <2> QED BY <2>4, <2>5, <2>6
<1>17. QED BY <1>7, <1>9, <1>10, <1>12, <1>13, <1>14, <1>15, <1>16

LEMMA FeedSetsFiniteNext ==
    (FeedTypes /\ LogInv =>
           /\ IsFiniteSet(Passed \cup AtRisk) /\ Cardinality(Passed \cup AtRisk) \in Nat
           /\ IsFiniteSet(News) /\ Cardinality(News) \in Nat /\ News \subseteq 1 .. count
           /\ IsFiniteSet(Again) /\ Cardinality(Again) \in Nat
           /\ Behind \in Nat)'
BY FeedSetsFinite, PTL

-----------------------------------------------------------------------------
(* A message is appended                                                   *)

LEMMA AddKeepsTypes ==
    ASSUME FeedTypes, NEW id \in Ids, Feed!Add(id)
    PROVE  /\ FeedTypes' /\ count < MaxMessages /\ count' = count + 1
           /\ msgs' = Feed!Appended(count + 1, id)
           /\ gone' = gone \cup (Feed!Unread(msgs) \ Feed!Parts(msgs'))
           /\ merged' = (IF \E i \in DOMAIN msgs : merges /\ msgs[i].id = id THEN merged + 1 ELSE merged)
           /\ missed' = missed + (Behind' - Behind)
           /\ Behind' - Behind \in Nat /\ missed' \in Nat
           /\ UNCHANGED <<merges, lastFed, frame, at, fed, stale, unsent, pending, clients, owed, reached>>
<1>1. /\ count < MaxMessages /\ count' = count + 1
      /\ msgs' = Feed!Appended(count', id)
      /\ gone' = gone \cup (Feed!Unread(msgs) \ Feed!Parts(msgs'))
      /\ missed' = (IF frame = "counted" THEN missed + 1 ELSE missed)
      /\ merged' = (IF \E i \in DOMAIN msgs : merges /\ msgs[i].id = id THEN merged + 1 ELSE merged)
    BY Zenon DEF Feed!Add
<1>2. UNCHANGED <<merges, lastFed, frame, at, fed, stale, unsent, pending, clients,
                  owed, reached>>
    BY Zenon DEF Feed!Add, Feed!feeding, Feed!outputs
<1>3. /\ count \in Nat /\ lastFed \in Nat /\ MaxMessages \in Nat /\ lastFed <= count
      /\ missed \in Nat /\ merged \in Nat /\ at \in Nat
      /\ frame = "counted" => at <= count /\ lastFed <= at
    BY MessagesAssumption DEF FeedTypes, MessagesAssumption
<1>4. /\ count' \in 0 .. MaxMessages /\ lastFed' \in 0 .. count' /\ at' \in Nat
      /\ frame' = "counted" => at' \in lastFed' .. count'
      /\ missed' \in Nat /\ merged' \in Nat
    BY <1>1, <1>2, <1>3
<1>5. FeedTypes'
    BY <1>2, <1>4, Zenon DEF FeedTypes
<1>6. missed' = missed + (Behind' - Behind) /\ Behind' - Behind \in Nat
    BY <1>1, <1>2, <1>3 DEF Behind
<1>7. QED BY <1>1, <1>2, <1>4, <1>5, <1>6

\* What the log has left is in gone if no frame came by.
LEMMA NoneLost ==
    ASSUME FeedInv, NEW id \in Ids, Feed!Add(id), Feed!Parts(msgs') = Firsts(msgs') \cup Laters(msgs'),
           count + 1 \in Firsts(msgs') \cup Laters(msgs')
    PROVE  /\ \A m \in lastFed' + 1 .. count' : m \in Feed!Parts(msgs') \cup gone'
           /\ \A m \in count' + 1 .. MaxMessages : fed'[m] = 0
           /\ Passed' \subseteq Passed /\ fed[count + 1] = 0
<1>1. FeedTypes /\ LogInv
    BY DEF FeedInv
<1>2. /\ count' = count + 1 /\ lastFed' = lastFed /\ fed' = fed /\ count < MaxMessages
      /\ gone' = gone \cup (Feed!Unread(msgs) \ Feed!Parts(msgs'))
    BY <1>1, AddKeepsTypes
<1>3. /\ count \in Nat /\ lastFed \in Nat /\ MaxMessages \in Nat /\ lastFed <= count
    BY <1>1, SetsOfMessages
<1>4. ASSUME NEW m \in lastFed + 1 .. count
      PROVE  m \in Feed!Parts(msgs') \cup gone'
    <2>1. m \in Feed!Parts(msgs) \cup gone /\ m > lastFed
        BY <1>1, <1>3 DEF LogInv
    <2> QED BY <1>2, <2>1 DEF Feed!Unread
<1>5. \A m \in lastFed' + 1 .. count' : m \in Feed!Parts(msgs') \cup gone'
    <2>1. \A m \in lastFed' + 1 .. count' : m \in lastFed + 1 .. count \/ m = count + 1
        BY <1>2, <1>3
    <2>2. count + 1 \in Feed!Parts(msgs')
        OBVIOUS
    <2> QED BY <1>4, <2>1, <2>2
<1>6. \A m \in count' + 1 .. MaxMessages : fed'[m] = 0
    BY <1>1, <1>2, <1>3 DEF LogInv
<1>7. Passed' \subseteq Passed
    BY <1>2 DEF Passed
<1>8. fed[count + 1] = 0
    <2>1. count + 1 \in count + 1 .. MaxMessages
        BY <1>2, <1>3
    <2> QED BY <1>1, <2>1 DEF LogInv
<1>9. QED BY <1>5, <1>6, <1>7, <1>8

LEMMA MergeKeeps ==
    ASSUME FeedInv, NEW id \in Ids, Feed!Add(id), \E i \in DOMAIN msgs : merges /\ msgs[i].id = id
    PROVE  LogInv' /\ MissedInv' /\ StaleInv'
<1>1. FeedTypes /\ LogInv /\ MissedInv /\ StaleInv
    BY DEF FeedInv
<1>2. /\ FeedTypes' /\ count < MaxMessages /\ count' = count + 1
      /\ msgs' = Feed!Appended(count + 1, id) /\ merged' = merged + 1
      /\ missed' = missed + (Behind' - Behind) /\ Behind' - Behind \in Nat /\ missed' \in Nat
      /\ lastFed' = lastFed /\ fed' = fed /\ stale' = stale
    BY <1>1, AddKeepsTypes
<1>3. /\ msgs' \in Seq(LogEntry) /\ DOMAIN msgs' = DOMAIN msgs
      /\ \A i \in DOMAIN msgs' : msgs'[i].texts[1] = msgs[i].texts[1]
      /\ \A i \in DOMAIN msgs' : \A k \in DOMAIN msgs'[i].texts : msgs'[i].texts[k] \in 1 .. count + 1
      /\ Firsts(msgs') = Firsts(msgs) /\ Laters(msgs') = Laters(msgs) \cup {count + 1}
    BY <1>1, <1>2, MergedIn
<1>4. Feed!Parts(msgs') = Firsts(msgs') \cup Laters(msgs')
    BY <1>3, PartsAre
<1>5. /\ \A m \in lastFed' + 1 .. count' : m \in Feed!Parts(msgs') \cup gone'
      /\ \A m \in count' + 1 .. MaxMessages : fed'[m] = 0
      /\ Passed' \subseteq Passed
    BY <1>3, <1>4, NoneLost
<1>6. \A i, j \in DOMAIN msgs' : i <= j => msgs'[i].texts[1] + (j - i) <= msgs'[j].texts[1]
    BY <1>1, <1>3 DEF LogInv
<1>7. LogInv'
    BY <1>2, <1>3, <1>5, <1>6 DEF LogInv
<1>8. /\ Cardinality(Passed \cup AtRisk) \in Nat /\ IsFiniteSet(Passed \cup AtRisk)
      /\ Behind \in Nat /\ missed \in Nat /\ merged \in Nat /\ stale \in Nat
      /\ Cardinality(News) \in Nat /\ Cardinality(Again) \in Nat /\ count \in Nat /\ lastFed \in Nat
      /\ Cardinality(Passed' \cup AtRisk') \in Nat /\ Behind' \in Nat
    <2>1. missed \in Nat /\ merged \in Nat /\ stale \in Nat
        BY <1>1 DEF FeedTypes
    <2>2. Cardinality((Passed \cup AtRisk)') \in Nat /\ Behind' \in Nat
        BY <1>2, <1>7, FeedSetsFiniteNext
    <2> QED BY <1>1, <2>1, <2>2, FeedSetsFinite, SetsOfMessages
<1>9. MissedInv'
    <2>1. Passed' \cup AtRisk' \subseteq (Passed \cup AtRisk) \cup {count + 1}
        BY <1>2, <1>3, <1>5 DEF AtRisk
    <2>2. /\ IsFiniteSet((Passed \cup AtRisk) \cup {count + 1})
          /\ Cardinality((Passed \cup AtRisk) \cup {count + 1}) <= Cardinality(Passed \cup AtRisk) + 1
        BY <1>8, OneElementMore
    <2>3. Cardinality(Passed' \cup AtRisk') <= Cardinality((Passed \cup AtRisk) \cup {count + 1})
        BY <2>1, <2>2, FS_Subset
    <2>4. Cardinality((Passed \cup AtRisk) \cup {count + 1}) \in Nat
        BY <2>2, FS_CardinalityType
    <2>5. Cardinality(Passed \cup AtRisk) + Behind <= missed + merged
        BY <1>1 DEF MissedInv
    <2> PICK p \in Nat, q \in Nat, b \in Nat, c \in Nat, w \in Nat :
           /\ p = Cardinality(Passed \cup AtRisk) /\ q = Cardinality(Passed' \cup AtRisk')
           /\ b = Behind /\ c = Behind' /\ w = Cardinality((Passed \cup AtRisk) \cup {count + 1})
        BY <1>8, <2>4
    <2>6. q + c <= missed' + merged'
        <3>1. w <= p + 1 /\ q <= w /\ p + b <= missed + merged
            BY <2>2, <2>3, <2>5
        <3>2. missed' = missed + (c - b) /\ merged' = merged + 1 /\ missed' \in Nat
            BY <1>2
        <3> QED BY <1>8, <3>1, <3>2
    <2> QED BY <2>6 DEF MissedInv
<1>10. StaleInv'
    <2>1. News' = News /\ Again' = Again /\ OldInLog' = OldInLog
        BY <1>2, <1>3 DEF News, Again, OldInLog
    <2> PICK s \in Nat, g \in Nat, w \in Nat, b \in Nat, c \in Nat :
           /\ s = stale /\ g = Cardinality(Again) /\ w = Cardinality(News) /\ b = Behind /\ c = Behind'
        BY <1>8
    <2>2. missed' \in Nat /\ missed' = missed + (c - b)
        BY <1>2, <1>8
    <2>3. s + g + b <= missed + merged => s + g + c <= missed' + (merged + 1)
        BY <1>8, <2>2
    <2>4. s + g + b + (count - lastFed) - w <= missed + merged
             => s + g + c + ((count + 1) - lastFed) - w <= missed' + (merged + 1)
        BY <1>8, <2>2
    <2>5. /\ stale' + Cardinality(Again') + Behind' = s + g + c
          /\ missed' + merged' = missed' + (merged + 1)
          /\ stale' + Cardinality(Again') + Behind' + (count' - lastFed') - Cardinality(News')
               = s + g + c + ((count + 1) - lastFed) - w
        BY <1>2, <2>1
    <2>6. s + g + b <= missed + merged
        BY <1>1 DEF StaleInv
    <2>7. OldInLog => s + g + b + (count - lastFed) - w <= missed + merged
        BY <1>1 DEF StaleInv
    <2> QED BY <2>1, <2>3, <2>4, <2>5, <2>6, <2>7 DEF StaleInv
<1>11. QED BY <1>7, <1>9, <1>10

LEMMA BeginKeeps ==
    ASSUME FeedInv, NEW id \in Ids, Feed!Add(id), ~ \E i \in DOMAIN msgs : merges /\ msgs[i].id = id
    PROVE  LogInv' /\ MissedInv' /\ StaleInv'
<1>1. FeedTypes /\ LogInv /\ MissedInv /\ StaleInv
    BY DEF FeedInv
<1>2. /\ FeedTypes' /\ count < MaxMessages /\ count' = count + 1
      /\ msgs' = Feed!Appended(count + 1, id) /\ merged' = merged
      /\ missed' = missed + (Behind' - Behind) /\ Behind' - Behind \in Nat /\ missed' \in Nat
      /\ lastFed' = lastFed /\ fed' = fed /\ stale' = stale
    BY <1>1, AddKeepsTypes
<1>3. /\ msgs' \in Seq(LogEntry)
      /\ \A i \in DOMAIN msgs' : \A k \in DOMAIN msgs'[i].texts : msgs'[i].texts[k] \in 1 .. count + 1
      /\ \A i, j \in DOMAIN msgs' : i <= j => msgs'[i].texts[1] + (j - i) <= msgs'[j].texts[1]
      /\ Laters(msgs') \subseteq Laters(msgs)
      /\ Firsts(msgs') \subseteq Firsts(msgs) \cup {count + 1} /\ count + 1 \in Firsts(msgs')
      /\ \A x \in Firsts(msgs), y \in Firsts(msgs') : y <= x => x \in Firsts(msgs')
    BY <1>1, <1>2, BegunAnew
<1>4. Feed!Parts(msgs') = Firsts(msgs') \cup Laters(msgs')
    BY <1>3, PartsAre
<1>5. /\ \A m \in lastFed' + 1 .. count' : m \in Feed!Parts(msgs') \cup gone'
      /\ \A m \in count' + 1 .. MaxMessages : fed'[m] = 0
      /\ Passed' \subseteq Passed /\ fed[count + 1] = 0
    BY <1>3, <1>4, NoneLost
<1>6. LogInv'
    BY <1>2, <1>3, <1>5 DEF LogInv
<1>7. /\ Cardinality(Passed \cup AtRisk) \in Nat /\ IsFiniteSet(Passed \cup AtRisk)
      /\ Behind \in Nat /\ missed \in Nat /\ merged \in Nat /\ stale \in Nat
      /\ IsFiniteSet(Again) /\ IsFiniteSet(News) /\ News \subseteq 1 .. count
      /\ Cardinality(News) \in Nat /\ Cardinality(Again) \in Nat
      /\ Firsts(msgs) \subseteq 1 .. count /\ count \in Nat /\ lastFed \in Nat /\ lastFed <= count
    <2>1. missed \in Nat /\ merged \in Nat /\ stale \in Nat
        BY <1>1 DEF FeedTypes
    <2> QED BY <1>1, <2>1, FeedSetsFinite, SetsOfMessages
<1>8. Cardinality(Passed' \cup AtRisk') \in Nat /\ Behind' \in Nat /\ Cardinality(Again') \in Nat
    BY <1>2, <1>6, FeedSetsFiniteNext
<1>9. MissedInv'
    <2>1. Passed' \cup AtRisk' \subseteq Passed \cup AtRisk
        BY <1>2, <1>3, <1>5 DEF AtRisk
    <2>2. Cardinality(Passed' \cup AtRisk') <= Cardinality(Passed \cup AtRisk)
        BY <1>7, <2>1, FS_Subset
    <2> PICK p \in Nat, q \in Nat, b \in Nat, c \in Nat :
           /\ p = Cardinality(Passed \cup AtRisk) /\ q = Cardinality(Passed' \cup AtRisk')
           /\ b = Behind /\ c = Behind'
        BY <1>7, <1>8
    <2>3. q + c <= missed' + merged'
        <3>1. q <= p /\ p + b <= missed + merged /\ missed' = missed + (c - b) /\ merged' = merged
              /\ missed' \in Nat
            BY <1>1, <1>2, <1>7, <2>2 DEF MissedInv
        <3> QED BY <1>7, <3>1
    <2> QED BY <2>3 DEF MissedInv
<1>10. Cardinality(Again') <= Cardinality(Again)
    <2>1. Again' \subseteq Again
        BY <1>2, <1>3, <1>5 DEF Again, News
    <2> QED BY <1>7, <2>1, FS_Subset
<1>11. ASSUME OldInLog'
       PROVE  OldInLog /\ Cardinality(News') = Cardinality(News) + 1
    <2>1. PICK y \in Firsts(msgs') : y <= lastFed
        BY <1>2, <1>11 DEF OldInLog
    <2>2. y \in Firsts(msgs)
        BY <1>3, <1>7, <2>1
    <2>3. \A x \in News : x \in Firsts(msgs')
        <3> TAKE x \in News
        <3>1. x \in Firsts(msgs) /\ x > lastFed /\ x \in Nat /\ y \in Nat
            BY <1>7, <2>2 DEF News
        <3> QED BY <1>3, <1>7, <2>1, <3>1
    <2>4. News' = News \cup {count + 1} /\ count + 1 \notin News
        BY <1>2, <1>3, <1>7, <2>3 DEF News
    <2> QED BY <1>7, <2>1, <2>2, <2>4, FS_AddElement DEF OldInLog
<1>12. StaleInv'
    <2> PICK s \in Nat, g \in Nat, h \in Nat, w \in Nat, b \in Nat, c \in Nat :
           /\ s = stale /\ g = Cardinality(Again) /\ h = Cardinality(Again') /\ w = Cardinality(News)
           /\ b = Behind /\ c = Behind'
        BY <1>7, <1>8
    <2>1. missed' \in Nat /\ missed' = missed + (c - b) /\ h <= g
        BY <1>2, <1>7, <1>10
    <2>2. s + g + b <= missed + merged
        BY <1>1 DEF StaleInv
    <2>3. s + h + c <= missed' + merged
        BY <1>7, <2>1, <2>2
    <2>4. stale' + Cardinality(Again') + Behind' <= missed' + merged'
        BY <1>2, <2>3
    <2>5. ASSUME OldInLog'
          PROVE  stale' + Cardinality(Again') + Behind' + (count' - lastFed') - Cardinality(News')
                    <= missed' + merged'
        <3>1. s + g + b + (count - lastFed) - w <= missed + merged
            BY <1>1, <1>11, <2>5 DEF StaleInv
        <3>2. s + h + c + ((count + 1) - lastFed) - (w + 1) <= missed' + merged
            BY <1>7, <2>1, <3>1
        <3>3. Cardinality(News') = w + 1
            BY <1>11, <2>5
        <3> QED BY <1>2, <3>2, <3>3
    <2> QED BY <2>4, <2>5 DEF StaleInv
<1>13. QED BY <1>6, <1>9, <1>12

LEMMA AddKeeps ==
    ASSUME FeedInv, NEW id \in Ids, Feed!Add(id)
    PROVE  FeedInv'
<1>1. LogInv' /\ MissedInv' /\ StaleInv'
    BY MergeKeeps, BeginKeeps
<1>2. FeedTypes' /\ UNCHANGED <<merges, unsent, pending, clients, owed, reached>>
    BY AddKeepsTypes DEF FeedInv
<1>3. ClientsInv'
    BY <1>2, Zenon DEF FeedInv, ClientsInv
<1>4. QED BY <1>1, <1>2, <1>3 DEF FeedInv

-----------------------------------------------------------------------------
(* The frame loop                                                          *)

LEMMA ClearKeeps ==
    ASSUME FeedInv, Feed!Clear
    PROVE  FeedInv'
<1>1. FeedTypes /\ LogInv /\ MissedInv /\ StaleInv /\ ClientsInv
    BY DEF FeedInv
<1>2. /\ frame = "idle" /\ msgs' = <<>> /\ gone' = gone \cup Feed!Unread(msgs)
      /\ UNCHANGED <<merges, count, missed, merged, lastFed, frame, at, fed, stale, unsent, pending,
                     clients, owed, reached>>
    BY Zenon DEF Feed!Clear, Feed!feeding, Feed!outputs
<1>3. FeedTypes' /\ ClientsInv'
    BY <1>1, <1>2, Zenon DEF FeedTypes, ClientsInv
<1>4. LogInv'
    <2>1. <<>> \in Seq(LogEntry) /\ DOMAIN <<>> = {}
        OBVIOUS
    <2>2. \A m \in lastFed + 1 .. count : m \in gone'
        <3> TAKE m \in lastFed + 1 .. count
        <3>1. m \in Feed!Parts(msgs) \cup gone
            BY <1>1 DEF LogInv
        <3>2. m > lastFed
            BY <1>1, SetsOfMessages
        <3> QED BY <1>2, <3>1, <3>2 DEF Feed!Unread
    <2> QED BY <1>1, <1>2, <2>1, <2>2 DEF LogInv
<1>5. Firsts(msgs') = {} /\ Laters(msgs') = {}
    BY <1>2 DEF Firsts, Laters
<1>6. Behind' = Behind
    BY <1>2 DEF Behind
<1>7. Passed' \cup AtRisk' \subseteq Passed \cup AtRisk /\ Again' = {} /\ ~OldInLog'
    BY <1>2, <1>5 DEF Passed, AtRisk, News, Again, OldInLog
<1>8. /\ Cardinality(Passed' \cup AtRisk') <= Cardinality(Passed \cup AtRisk)
      /\ Cardinality(Again') = 0 /\ Cardinality(Again) \in Nat /\ Behind \in Nat
      /\ Cardinality(Passed \cup AtRisk) \in Nat /\ Cardinality(Passed' \cup AtRisk') \in Nat
    BY <1>1, <1>3, <1>4, <1>7, FeedSetsFinite, FeedSetsFiniteNext, FS_Subset, FS_EmptySet
<1>9. missed \in Nat /\ merged \in Nat /\ stale \in Nat
    BY <1>1 DEF FeedTypes
<1>10. MissedInv'
    <2> PICK p \in Nat, q \in Nat : p = Cardinality(Passed \cup AtRisk) /\ q = Cardinality(Passed' \cup AtRisk')
        BY <1>8
    <2>1. p + Behind <= missed + merged /\ q <= p
        BY <1>1, <1>8 DEF MissedInv
    <2>2. q + Behind <= missed + merged
        BY <1>8, <1>9, <2>1
    <2> QED BY <1>2, <1>6, <2>2 DEF MissedInv
<1>11. StaleInv'
    <2> PICK g \in Nat, b \in Nat : g = Cardinality(Again) /\ b = Behind
        BY <1>8
    <2>1. stale + g + b <= missed + merged
        BY <1>1 DEF StaleInv
    <2>2. stale + 0 + b <= missed + merged
        BY <1>9, <2>1
    <2> QED BY <1>2, <1>6, <1>7, <1>8, <2>2 DEF StaleInv
<1>12. QED BY <1>1, <1>2, <1>3, <1>4, <1>10, <1>11 DEF FeedInv

\* What else changes leaves the log and what was fed as they are.
LEMMA LogUnmoved ==
    ASSUME FeedInv, ClientsInv', Behind' = Behind, FeedTypes',
           UNCHANGED <<merges, msgs, count, gone, missed, merged, lastFed, fed, stale, unsent>>
    PROVE  FeedInv'
<1>1. LogInv'
    BY Zenon DEF FeedInv, LogInv
<1>2. Passed' = Passed /\ AtRisk' = AtRisk /\ News' = News /\ Again' = Again /\ OldInLog' = OldInLog
    BY Zenon DEF Passed, AtRisk, News, Again, OldInLog
<1>3. MissedInv' /\ StaleInv'
    BY <1>2, Zenon DEF FeedInv, MissedInv, StaleInv
<1>4. QED BY <1>1, <1>3, Zenon DEF FeedInv

LEMMA PanelKeeps ==
    ASSUME FeedInv, Feed!SetPanel \/ \E c \in Clients : Feed!Connect(c) \/ Feed!Close(c) \/ Feed!Stall(c)
    PROVE  FeedInv'
<1>1. UNCHANGED <<merges, msgs, count, gone, missed, merged, lastFed, frame, at, fed, stale, unsent>>
    BY Zenon DEF Feed!SetPanel, Feed!Connect, Feed!Close, Feed!Stall, Feed!logs, Feed!feeding
<1>2. ClientsInv'
    <2>1. CASE \E c \in Clients : Feed!Connect(c)
        BY <2>1, ConnectKeepsClients DEF FeedInv
    <2>2. CASE Feed!SetPanel \/ \E c \in Clients : Feed!Close(c) \/ Feed!Stall(c)
        <3>1. UNCHANGED <<pending, clients, owed, reached>>
            BY <2>2, Zenon DEF Feed!SetPanel, Feed!Close, Feed!Stall, Feed!outputs
        <3> QED BY <3>1, Zenon DEF FeedInv, ClientsInv
    <2> QED BY <2>1, <2>2
<1>3. Behind' = Behind /\ FeedTypes'
    BY <1>1, Zenon DEF FeedInv, Behind, FeedTypes
<1>4. QED BY <1>1, <1>2, <1>3, LogUnmoved

LEMMA CountKeeps ==
    ASSUME FeedInv, Feed!FrameCounts
    PROVE  FeedInv'
<1>1. /\ frame = "idle" /\ at' = count /\ frame' = (IF count > lastFed THEN "counted" ELSE "idle")
      /\ UNCHANGED <<merges, msgs, count, gone, missed, merged, lastFed, fed, stale, unsent, owed, reached>>
    BY Zenon DEF Feed!FrameCounts, Feed!logs
<1>2. ClientsInv'
    <2>1. Feed!Outputs
        BY Zenon DEF Feed!FrameCounts
    <2> QED BY <1>1, <2>1, OutputsKeepClients DEF FeedInv
<1>3. count \in Nat /\ lastFed \in Nat /\ lastFed <= count
    BY SetsOfMessages DEF FeedInv
<1>4. Behind' = 0 /\ Behind = 0
    BY <1>1, <1>3 DEF Behind
<1>5. FeedTypes'
    <2>1. frame' \in {"idle", "counted"} /\ at' \in Nat /\ at' \in lastFed' .. count'
        BY <1>1, <1>3
    <2> QED BY <1>1, <2>1, Zenon DEF FeedInv, FeedTypes
<1>6. QED BY <1>1, <1>2, <1>4, <1>5, LogUnmoved

\* The window is the newest entries, as many as count() said at most.
LEMMA WindowIs ==
    ASSUME FeedTypes, LogInv, frame = "counted"
    PROVE  /\ Feed!Window \in SUBSET (DOMAIN msgs)
           /\ IsFiniteSet(Feed!Window) /\ Cardinality(Feed!Window) \in Nat
           /\ Cardinality(Feed!Window) <= at - lastFed
           /\ \A i \in (DOMAIN msgs) \ Feed!Window : msgs[i].texts[1] <= lastFed + (count - at)
           /\ \A i \in Feed!Window, j \in DOMAIN msgs : i <= j => j \in Feed!Window
           /\ at \in Nat /\ lastFed <= at /\ at <= count
<1>1. count \in Nat /\ lastFed \in Nat /\ at \in Nat /\ lastFed <= at /\ at <= count
    <2>1. at \in lastFed .. count
        BY DEF FeedTypes
    <2> QED BY <2>1, SetsOfMessages
<1> PICK size \in Nat : size = Len(msgs) /\ DOMAIN msgs = 1 .. size
    BY DEF LogInv
<1> PICK w : w = IF at - lastFed > size THEN size ELSE at - lastFed
    OBVIOUS
<1>2. w \in 0 .. size /\ w <= at - lastFed /\ (w < size => w = at - lastFed)
    BY <1>1
<1>3. Feed!Window = size - w + 1 .. size
    BY DEF Feed!Window
<1>4. IsFiniteSet(Feed!Window) /\ Cardinality(Feed!Window) = w
    <2>1. size - w + 1 \in Int /\ size \in Int
        BY <1>2
    <2>2. IsFiniteSet(size - w + 1 .. size)
          /\ Cardinality(size - w + 1 .. size)
               = (IF size - w + 1 > size THEN 0 ELSE size - (size - w + 1) + 1)
        BY <2>1, FS_Interval
    <2>3. (IF size - w + 1 > size THEN 0 ELSE size - (size - w + 1) + 1) = w
        BY <1>2
    <2> QED BY <1>3, <2>2, <2>3
<1>5. Feed!Window \in SUBSET (DOMAIN msgs)
    BY <1>2, <1>3
<1>6. ASSUME NEW i \in (DOMAIN msgs) \ Feed!Window
      PROVE  msgs[i].texts[1] <= lastFed + (count - at)
    <2>1. i <= size - w /\ i \in 1 .. size /\ w = at - lastFed
        BY <1>2, <1>3
    <2> PICK first \in Nat : first = msgs[i].texts[1]
        BY <1>1, FirstText
    <2>2. first + (size - i) <= count
        BY FirstText
    <2> QED BY <1>1, <1>2, <2>1, <2>2
<1>7. \A i \in Feed!Window, j \in DOMAIN msgs : i <= j => j \in Feed!Window
    BY <1>2, <1>3
<1>8. QED BY <1>1, <1>2, <1>4, <1>5, <1>6, <1>7

\* How many entries of the window were fed before: of those begun since, those in Again,
\* and older ones only as far as the window goes beyond what is new.
LEMMA FedAgain ==
    ASSUME FeedTypes, LogInv, frame = "counted", NEW S \in SUBSET Feed!Window,
           \A i \in S : fed[msgs[i].texts[1]] > 0
    PROVE  /\ IsFiniteSet(S) /\ Cardinality(S) \in Nat
           /\ \/ Cardinality(S) <= Cardinality(Again)
              \/ /\ OldInLog
                 /\ Cardinality(S) + Cardinality(News) <= Cardinality(Again) + (at - lastFed)
<1>1. /\ Feed!Window \in SUBSET (DOMAIN msgs) /\ S \in SUBSET (DOMAIN msgs)
      /\ Cardinality(Feed!Window) \in Nat /\ Cardinality(Feed!Window) <= at - lastFed
      /\ \A i \in Feed!Window, j \in DOMAIN msgs : i <= j => j \in Feed!Window
      /\ at \in Nat /\ lastFed \in Nat /\ lastFed <= at
    BY WindowIs, SetsOfMessages
<1>2. PICK F : F = {msgs[i].texts[1] : i \in S}
    OBVIOUS
<1>3. PICK W : W = {msgs[i].texts[1] : i \in Feed!Window}
    OBVIOUS
<1>4. PICK O : O = {m \in W : m <= lastFed}
    OBVIOUS
<1>5. /\ IsFiniteSet(S) /\ IsFiniteSet(F) /\ Cardinality(S) = Cardinality(F)
      /\ IsFiniteSet(W) /\ Cardinality(W) = Cardinality(Feed!Window)
    BY <1>1, <1>2, <1>3, EntriesCounted
<1>6. W \subseteq Firsts(msgs) /\ Firsts(msgs) \subseteq 1 .. count /\ count \in Nat
    BY <1>1, <1>3, SetsOfMessages DEF Firsts
<1>7. F \subseteq Again \cup O
    <2> SUFFICES ASSUME NEW i \in S PROVE msgs[i].texts[1] \in Again \cup O
        BY <1>2
    <2>1. msgs[i].texts[1] \in W /\ msgs[i].texts[1] \in 1 .. count /\ fed[msgs[i].texts[1]] > 0
        BY <1>3, <1>6
    <2> PICK m \in Nat : m = msgs[i].texts[1]
        BY <1>6, <2>1
    <2>2. m \in W /\ m \in Firsts(msgs) /\ fed[m] > 0
        BY <1>6, <2>1
    <2>3. m <= lastFed \/ m > lastFed
        BY <1>1
    <2> QED BY <1>4, <2>2, <2>3 DEF Again, News
<1>8. IsFiniteSet(O) /\ Cardinality(O) \in Nat /\ IsFiniteSet(Again) /\ Cardinality(Again) \in Nat
      /\ IsFiniteSet(News) /\ Cardinality(News) \in Nat /\ Cardinality(F) \in Nat
    BY <1>4, <1>5, FS_Subset, FS_CardinalityType, FeedSetsFinite
<1>9. Cardinality(F) <= Cardinality(Again) + Cardinality(O)
    <2>1. /\ IsFiniteSet(Again \cup O)
          /\ Cardinality(Again \cup O) <= Cardinality(Again) + Cardinality(O)
        BY <1>8, UnionBound
    <2>2. Cardinality(F) <= Cardinality(Again \cup O)
        BY <1>7, <2>1, FS_Subset
    <2>3. Cardinality(Again \cup O) \in Nat
        BY <2>1, FS_CardinalityType
    <2> QED BY <1>8, <2>1, <2>2, <2>3
<1>10. CASE O = {}
    BY <1>5, <1>8, <1>9, <1>10, FS_EmptySet
<1>11. CASE O # {}
    <2>1. PICK i \in Feed!Window : msgs[i].texts[1] <= lastFed
        BY <1>3, <1>4, <1>11
    <2>2. OldInLog
        BY <1>4, <1>6, <1>11 DEF OldInLog
    <2>3. News \subseteq W
        <3> SUFFICES ASSUME NEW j \in DOMAIN msgs, msgs[j].texts[1] > lastFed
                     PROVE  msgs[j].texts[1] \in W
            BY DEF News, Firsts
        <3>0. i \in DOMAIN msgs
            BY <1>1
        <3>1. /\ i \in Nat /\ j \in Nat
              /\ msgs[i].texts[1] \in Nat /\ msgs[j].texts[1] \in Nat
            <4>1. /\ i \in 1 .. Len(msgs) /\ j \in 1 .. Len(msgs) /\ Len(msgs) \in Nat
                  /\ msgs[i].texts[1] \in 1 .. count /\ msgs[j].texts[1] \in 1 .. count
                BY <3>0, FirstText
            <4> QED BY <1>6, <4>1
        <3> PICK x \in Nat, y \in Nat : x = msgs[i].texts[1] /\ y = msgs[j].texts[1]
            BY <3>1
        <3>2. j < i => y + (i - j) <= x
            <4>1. j <= i => msgs[j].texts[1] + (i - j) <= msgs[i].texts[1]
                BY <3>0, Zenon DEF LogInv
            <4> QED BY <3>1, <4>1
        <3>3. i <= j
            BY <1>1, <2>1, <3>1, <3>2
        <3> QED BY <1>1, <1>3, <3>3
    <2>4. O \cap News = {} /\ O \cup News \subseteq W
        BY <1>1, <1>4, <1>6, <2>3 DEF News
    <2>5. Cardinality(O \cup News) = Cardinality(O) + Cardinality(News) /\ IsFiniteSet(O \cup News)
        BY <1>8, <2>4, DisjointUnion
    <2>6. Cardinality(O \cup News) <= Cardinality(W)
        BY <1>5, <2>4, FS_Subset
    <2>7. Cardinality(S) + Cardinality(News) <= Cardinality(Again) + (at - lastFed)
        <3> PICK c \in Nat, g \in Nat, o \in Nat, w \in Nat, l \in Nat :
               /\ c = Cardinality(S) /\ g = Cardinality(Again) /\ o = Cardinality(O)
               /\ w = Cardinality(News) /\ l = Cardinality(Feed!Window)
            BY <1>1, <1>5, <1>8
        <3>1. c <= g + o
            BY <1>5, <1>9
        <3>2. o + w <= l
            BY <1>5, <2>5, <2>6
        <3>3. l <= at - lastFed
            BY <1>1
        <3>4. c + w <= g + (at - lastFed)
            BY <1>1, <3>1, <3>2, <3>3
        <3> QED BY <3>4
    <2> QED BY <1>5, <1>8, <2>2, <2>7
<1>12. QED BY <1>10, <1>11

\* What a frame passes by may be in the log still: it is of the messages that came after
\* count(), as far as it is the first of its entry.
LEMMA FeedsKeepMissed ==
    ASSUME FeedTypes, LogInv, MissedInv, frame = "counted", frame' = "idle", lastFed' = at,
           UNCHANGED <<msgs, count, gone, missed, merged>>,
           \A m \in 1 .. MaxMessages : fed'[m] = 0 => fed[m] = 0,
           \A i \in Feed!Window : fed'[msgs[i].texts[1]] # 0
    PROVE  MissedInv'
<1>1. /\ \A i \in (DOMAIN msgs) \ Feed!Window : msgs[i].texts[1] <= lastFed + (count - at)
      /\ at \in Nat /\ lastFed <= at /\ at <= count /\ Feed!Window \in SUBSET (DOMAIN msgs)
    BY WindowIs
<1>2. /\ count \in Nat /\ lastFed \in Nat /\ MaxMessages \in Nat /\ count <= MaxMessages
      /\ Feed!Parts(msgs) = Firsts(msgs) \cup Laters(msgs)
    BY SetsOfMessages
<1>3. PICK late : late = lastFed + 1 .. lastFed + (count - at)
    OBVIOUS
<1>4. IsFiniteSet(late) /\ Cardinality(late) = count - at
    <2> PICK a \in Nat, d \in Nat : a = lastFed /\ d = count - at
        BY <1>1, <1>2
    <2>1. IsFiniteSet(a + 1 .. a + d)
          /\ Cardinality(a + 1 .. a + d) = (IF a + 1 > a + d THEN 0 ELSE (a + d) - (a + 1) + 1)
        <3>1. a + 1 \in Int /\ a + d \in Int
            OBVIOUS
        <3> QED BY <3>1, FS_Interval, Zenon
    <2>2. (IF a + 1 > a + d THEN 0 ELSE (a + d) - (a + 1) + 1) = d
        OBVIOUS
    <2> QED BY <1>3, <2>1, <2>2
<1>5. Passed' \subseteq (Passed \cup AtRisk) \cup late
    <2> SUFFICES ASSUME NEW m \in 1 .. at, fed'[m] = 0, m \notin gone
                 PROVE  m \in (Passed \cup AtRisk) \cup late
        BY DEF Passed
    <2>1. fed[m] = 0
        BY <1>1, <1>2
    <2>2. CASE m <= lastFed
        BY <1>2, <2>1, <2>2 DEF Passed
    <2>3. CASE m > lastFed
        <3>1. m \in Firsts(msgs) \cup Laters(msgs)
            <4>1. m \in lastFed + 1 .. count
                BY <1>1, <1>2, <2>3
            <4> QED BY <1>2, <4>1 DEF LogInv
        <3>2. CASE m \in Laters(msgs)
            BY <2>3, <3>2 DEF AtRisk
        <3>3. CASE m \in Firsts(msgs)
            <4>1. PICK i \in DOMAIN msgs : m = msgs[i].texts[1]
                BY <3>3 DEF Firsts
            <4>2. i \notin Feed!Window
                BY <4>1
            <4>3. m <= lastFed + (count - at)
                BY <1>1, <4>1, <4>2
            <4> QED BY <1>1, <1>2, <1>3, <2>3, <4>3
        <3> QED BY <3>1, <3>2, <3>3
    <2> QED BY <1>2, <2>2, <2>3
<1>6. AtRisk' \subseteq AtRisk
    <2>1. \A m \in Laters(msgs) : m \in Nat
        BY SetsOfMessages
    <2> QED BY <1>1, <1>2, <2>1 DEF AtRisk
<1>7. IsFiniteSet(Passed \cup AtRisk) /\ Cardinality(Passed \cup AtRisk) \in Nat
    BY FeedSetsFinite
<1>8. /\ IsFiniteSet((Passed \cup AtRisk) \cup late)
      /\ Cardinality((Passed \cup AtRisk) \cup late) <= Cardinality(Passed \cup AtRisk) + Cardinality(late)
    BY <1>4, <1>7, UnionBound
<1>9. Cardinality(Passed' \cup AtRisk') <= Cardinality((Passed \cup AtRisk) \cup late)
      /\ IsFiniteSet(Passed' \cup AtRisk')
    BY <1>5, <1>6, <1>8, FS_Subset
<1>10. Behind = count - at /\ Behind' = 0
    BY DEF Behind
<1>11. Cardinality(Passed' \cup AtRisk') + 0 <= missed + merged
    <2> PICK p \in Nat, q \in Nat, u \in Nat, d \in Nat :
           /\ p = Cardinality(Passed \cup AtRisk) /\ q = Cardinality(Passed' \cup AtRisk')
           /\ u = Cardinality((Passed \cup AtRisk) \cup late) /\ d = count - at
        BY <1>1, <1>2, <1>7, <1>8, <1>9, FS_CardinalityType
    <2>1. u <= p + d /\ q <= u
        BY <1>4, <1>8, <1>9
    <2>2. p + d <= missed + merged
        BY <1>10 DEF MissedInv
    <2>3. missed \in Nat /\ merged \in Nat
        BY DEF FeedTypes
    <2>4. q + 0 <= missed + merged
        BY <2>1, <2>2, <2>3
    <2> QED BY <2>4
<1>12. QED BY <1>10, <1>11 DEF MissedInv

\* An entry fed again has a message that came after the last count() to answer for it, or
\* one merged that made the window longer than the news.
LEMMA FeedsKeepStale ==
    ASSUME FeedTypes, LogInv, StaleInv, frame = "counted", frame' = "idle", lastFed' = at,
           FeedTypes', LogInv', UNCHANGED <<msgs, count, gone, missed, merged>>,
           NEW S \in SUBSET Feed!Window, \A i \in S : fed[msgs[i].texts[1]] > 0,
           stale' = stale + Cardinality(S)
    PROVE  StaleInv'
<1>1. /\ count \in Nat /\ lastFed \in Nat /\ at \in Nat /\ lastFed <= at /\ at <= count
      /\ missed \in Nat /\ merged \in Nat /\ stale \in Nat
    BY WindowIs, SetsOfMessages DEF FeedTypes
<1>2. Behind = count - at /\ Behind' = 0
    BY DEF Behind
<1>3. /\ Cardinality(S) \in Nat /\ Cardinality(Again) \in Nat /\ Cardinality(News) \in Nat
      /\ Cardinality(Again') \in Nat /\ Cardinality(News') \in Nat /\ IsFiniteSet(News')
      /\ News' \subseteq 1 .. count'
    BY FedAgain, FeedSetsFinite, FeedSetsFiniteNext
<1> PICK c \in Nat, g \in Nat, w \in Nat, h \in Nat, v \in Nat :
       /\ c = Cardinality(S) /\ g = Cardinality(Again) /\ w = Cardinality(News)
       /\ h = Cardinality(Again') /\ v = Cardinality(News')
    BY <1>3
<1>4. stale + c + (count - at) <= missed + merged
    <2>1. c <= g \/ (OldInLog /\ c + w <= g + (at - lastFed))
        BY FedAgain
    <2>2. stale + g + (count - at) <= missed + merged
        BY <1>2 DEF StaleInv
    <2>3. OldInLog => stale + g + (count - at) + (count - lastFed) - w <= missed + merged
        BY <1>2 DEF StaleInv
    <2>4. CASE c <= g
        BY <1>1, <2>2, <2>4
    <2>5. CASE OldInLog /\ c + w <= g + (at - lastFed)
        <3>1. stale + g + (count - at) + (count - lastFed) - w <= missed + merged
            BY <2>3, <2>5
        <3>2. c + w <= g + (at - lastFed)
            BY <2>5
        <3> QED BY <1>1, <3>1, <3>2
    <2> QED BY <2>1, <2>4, <2>5
<1>5. h <= v /\ v <= count - at
    <2>1. Again' \subseteq News'
        BY DEF Again
    <2>2. h <= v
        BY <1>3, <2>1, FS_Subset
    <2>3. News' \subseteq at + 1 .. count
        BY <1>1, <1>3 DEF News
    <2>4. IsFiniteSet(at + 1 .. count) /\ Cardinality(at + 1 .. count) = count - at
        <3>1. at + 1 \in Int /\ count \in Int
            BY <1>1
        <3>2. IsFiniteSet(at + 1 .. count)
              /\ Cardinality(at + 1 .. count) = (IF at + 1 > count THEN 0 ELSE count - (at + 1) + 1)
            BY <3>1, FS_Interval
        <3> QED BY <1>1, <3>2
    <2>5. v <= count - at
        <3>1. Cardinality(News') <= Cardinality(at + 1 .. count)
            BY <2>3, <2>4, FS_Subset, Zenon
        <3> QED BY <2>4, <3>1
    <2> QED BY <2>2, <2>5
<1>6. stale' = stale + c /\ count' = count /\ lastFed' = at
    OBVIOUS
<1>7. stale' + h + 0 <= missed + merged
    BY <1>1, <1>4, <1>5, <1>6
<1>8. stale' + h + 0 + (count' - lastFed') - v <= missed + merged
    BY <1>1, <1>4, <1>5, <1>6
<1>9. QED BY <1>2, <1>7, <1>8 DEF StaleInv

LEMMA FrameKeeps ==
    ASSUME FeedInv, Feed!FrameFeeds
    PROVE  FeedInv'
<1>1. FeedTypes /\ LogInv /\ MissedInv /\ StaleInv /\ ClientsInv /\ (unsent > 0 => merges)
    BY DEF FeedInv
<1>2. PICK sent : sent = UNION {Feed!ToSet(msgs[i].texts) : i \in Feed!Window}
    OBVIOUS
<1>3. PICK S : S = {i \in Feed!Window : \A m \in Feed!ToSet(msgs[i].texts) : fed[m] > 0}
    OBVIOUS
<1>4. /\ frame = "counted" /\ frame' = "idle" /\ lastFed' = at
      /\ UNCHANGED <<merges, msgs, count, gone, missed, merged, at>>
      /\ fed' = [m \in DOMAIN fed |-> IF m \in sent THEN fed[m] + 1 ELSE fed[m]]
      /\ stale' = stale + Feed!Cardinality(S)
      /\ unsent' = (IF Feed!Counted /\ ~fileEnabled THEN unsent + Feed!Cardinality(Feed!Window) ELSE unsent)
      /\ (IF sbsEnabled /\ ~merges /\ sent # {} THEN Feed!EmitSbs(sent)
           ELSE UNCHANGED <<pending, clients, closed, full, owed, reached>>)
    BY <1>2, <1>3, Zenon DEF Feed!FrameFeeds, Feed!logs
<1>5. /\ Feed!Window \in SUBSET (DOMAIN msgs) /\ Cardinality(Feed!Window) \in Nat
      /\ at \in Nat /\ lastFed <= at /\ at <= count
    BY <1>1, <1>4, WindowIs
<1>6. count \in Nat /\ lastFed \in Nat /\ MaxMessages \in Nat /\ count <= MaxMessages
    BY <1>1, SetsOfMessages
<1>7. sent \subseteq 1 .. count /\ \A i \in Feed!Window : msgs[i].texts[1] \in sent
    <2>1. \A i \in Feed!Window : \A k \in DOMAIN msgs[i].texts :
             msgs[i].texts[k] \in 1 .. count /\ msgs[i].texts[k] \in sent
        BY <1>1, <1>2, <1>5 DEF LogInv, Feed!ToSet
    <2>2. sent \subseteq 1 .. count
        BY <1>2, <2>1 DEF Feed!ToSet
    <2>3. \A i \in Feed!Window : 1 \in DOMAIN msgs[i].texts
        BY <1>1, <1>5, FirstText
    <2> QED BY <2>1, <2>2, <2>3
<1>8. /\ fed \in [1 .. MaxMessages -> Nat] /\ fed' \in [1 .. MaxMessages -> Nat]
      /\ \A m \in 1 .. MaxMessages : fed'[m] = (IF m \in sent THEN fed[m] + 1 ELSE fed[m])
    <2>1. fed \in [1 .. MaxMessages -> Nat]
        BY <1>1 DEF FeedTypes
    <2> QED BY <1>4, <2>1
<1>9. \A i \in S : fed[msgs[i].texts[1]] > 0
    <2> TAKE i \in S
    <2>1. 1 \in DOMAIN msgs[i].texts /\ \A m \in Feed!ToSet(msgs[i].texts) : fed[m] > 0
        BY <1>1, <1>3, <1>5, FirstText
    <2> QED BY <2>1 DEF Feed!ToSet
<1>10. S \in SUBSET Feed!Window /\ Cardinality(S) \in Nat /\ stale' = stale + Cardinality(S)
    <2>1. S \in SUBSET Feed!Window
        BY <1>3
    <2> QED BY <1>1, <1>4, <1>9, <2>1, FedAgain, FeedCardinality
<1>11. unsent' \in Nat /\ (unsent' > 0 => merges)
    <2>1. Feed!Counted /\ ~fileEnabled => merges
        BY DEF Feed!Counted
    <2>2. unsent \in Nat
        BY <1>1 DEF FeedTypes
    <2>3. unsent' = (IF Feed!Counted /\ ~fileEnabled THEN unsent + Cardinality(Feed!Window) ELSE unsent)
        BY <1>4, FeedCardinality
    <2>4. unsent' \in Nat
        BY <1>5, <2>2, <2>3
    <2>5. ~ (Feed!Counted /\ ~fileEnabled) => unsent' = unsent
        BY <2>3
    <2> QED BY <1>1, <2>1, <2>4, <2>5
<1>12. FeedTypes'
    <2>1. /\ frame' \in {"idle", "counted"} /\ frame' # "counted" /\ lastFed' \in 0 .. count'
          /\ stale' \in Nat
        <3>1. stale \in Nat
            BY <1>1 DEF FeedTypes
        <3>2. stale' \in Nat
            BY <1>10, <3>1
        <3> QED BY <1>4, <1>5, <1>6, <3>2
    <2> QED BY <1>1, <1>4, <1>8, <1>11, <2>1, Zenon DEF FeedTypes
<1>13. LogInv'
    <2>1. \A m \in at + 1 .. count : m \in Feed!Parts(msgs) \cup gone
        BY <1>1, <1>5, <1>6 DEF LogInv
    <2>2. \A m \in count + 1 .. MaxMessages : fed'[m] = 0
        <3> TAKE m \in count + 1 .. MaxMessages
        <3>1. fed[m] = 0 /\ m \in 1 .. MaxMessages /\ m \notin sent
            BY <1>1, <1>6, <1>7 DEF LogInv
        <3> QED BY <1>8, <3>1
    <2> QED BY <1>1, <1>4, <2>1, <2>2 DEF LogInv
<1>14. MissedInv'
    <2>1. \A m \in 1 .. MaxMessages : fed'[m] = 0 => fed[m] = 0
        BY <1>8
    <2>2. \A i \in Feed!Window : fed'[msgs[i].texts[1]] # 0
        <3> TAKE i \in Feed!Window
        <3> PICK m : m = msgs[i].texts[1]
            OBVIOUS
        <3>1. m \in sent /\ m \in 1 .. count
            BY <1>7
        <3>2. m \in 1 .. MaxMessages /\ fed[m] \in Nat
            <4>1. m \in 1 .. MaxMessages
                BY <1>6, <3>1
            <4> QED BY <1>8, <4>1
        <3> QED BY <1>8, <3>1, <3>2
    <2> QED BY <1>1, <1>4, <2>1, <2>2, FeedsKeepMissed
<1>15. StaleInv'
    BY <1>1, <1>4, <1>9, <1>10, <1>12, <1>13, FeedsKeepStale
<1>16. ClientsInv'
    <2>1. CASE sbsEnabled /\ ~merges /\ sent # {}
        <3>1. sent \in SUBSET Nat
            BY <1>6, <1>7
        <3> QED BY <1>1, <1>4, <2>1, <3>1, SentToAll
    <2>2. CASE ~ (sbsEnabled /\ ~merges /\ sent # {})
        BY <1>1, <1>4, <2>2, Zenon DEF ClientsInv
    <2> QED BY <2>1, <2>2
<1>17. QED BY <1>4, <1>11, <1>12, <1>13, <1>14, <1>15, <1>16 DEF FeedInv

LEMMA FeedStep ==
    ASSUME FeedInv, Feed!Next
    PROVE  FeedInv'
BY AddKeeps, ClearKeeps, PanelKeeps, CountKeeps, FrameKeeps, Zenon DEF Feed!Next

LEMMA FeedAlways == SumSpec => []FeedPart
<1>1. SumInit => FeedPart
    BY FeedInit DEF SumInit, FeedPart
<1>2. FeedPart /\ [SumNext]_sumVars => FeedPart'
    <2> SUFFICES ASSUME FeedPart, [SumNext]_sumVars, part' = "feeds"
                 PROVE  FeedInv'
        BY DEF FeedPart
    <2>1. CASE UNCHANGED sumVars
        <3>1. part' = part /\ UNCHANGED feeds
            BY <2>1 DEF sumVars
        <3>2. FeedInv /\ UNCHANGED <<merges, msgs, count, gone, missed, merged, lastFed, frame, at, fed,
                                     stale, unsent, pending, clients, owed, reached>>
            BY <3>1, Zenon DEF feeds, FeedPart
        <3>3. FeedTypes' /\ ClientsInv' /\ Behind' = Behind
            BY <3>2, Zenon DEF FeedInv, FeedTypes, ClientsInv, Behind
        <3> QED BY <3>2, <3>3, LogUnmoved
    <2>2. CASE SumNext
        <3>1. part = "feeds" /\ Feed!Next
            BY <2>2 DEF SumNext
        <3> QED BY <3>1, FeedStep DEF FeedPart
    <2> QED BY <2>1, <2>2
<1>3. QED BY <1>1, <1>2, PTL DEF SumSpec

\* updateFeed feeds each message, and feeds nothing twice, but for those that left the log
\* before the frame came by and as many as came between count() and snapshot() or were
\* merged into an older entry.
THEOREM MessagesAccountedFor == SumSpec => []FeedAccountsForEveryMessage
<1>1. FeedPart => FeedAccountsForEveryMessage
    <2> SUFFICES ASSUME FeedInv PROVE Feed!FeedAccountsForEveryMessage
        BY DEF FeedPart, FeedAccountsForEveryMessage
    <2>1. FeedTypes /\ LogInv /\ MissedInv /\ StaleInv /\ (unsent > 0 => merges)
        BY DEF FeedInv
    <2>2. /\ IsFiniteSet(Passed \cup AtRisk) /\ Cardinality(Passed \cup AtRisk) \in Nat
          /\ Cardinality(Again) \in Nat /\ Behind \in Nat
          /\ missed \in Nat /\ merged \in Nat /\ stale \in Nat
        BY <2>1, FeedSetsFinite DEF FeedTypes
    <2>3. Cardinality(Passed) <= Cardinality(Passed \cup AtRisk) /\ Cardinality(Passed) \in Nat
        BY <2>2, FS_Subset, FS_CardinalityType
    <2>4. Cardinality(Passed) <= missed + merged
        <3> PICK p \in Nat, q \in Nat, b \in Nat :
               p = Cardinality(Passed) /\ q = Cardinality(Passed \cup AtRisk) /\ b = Behind
            BY <2>2, <2>3
        <3>1. p <= q /\ q + b <= missed + merged
            BY <2>1, <2>3 DEF MissedInv
        <3>2. p <= missed + merged
            BY <2>2, <3>1
        <3> QED BY <3>2
    <2>5. stale <= missed + merged
        <3> PICK g \in Nat, b \in Nat : g = Cardinality(Again) /\ b = Behind
            BY <2>2
        <3>1. stale + g + b <= missed + merged
            BY <2>1 DEF StaleInv
        <3> QED BY <2>2, <3>1
    <2>6. Feed!Cardinality({m \in 1 .. lastFed : fed[m] = 0} \ gone) = Cardinality(Passed)
        BY FeedCardinality DEF Passed
    <2> QED BY <2>1, <2>4, <2>5, <2>6 DEF Feed!FeedAccountsForEveryMessage
<1>2. QED BY <1>1, FeedAlways, PTL

\* pollSbs and emitSbs: a client that stays connected and reads gets every position fed
\* since it connected, whatever the other clients do.
THEOREM ClientsGetEverything == SumSpec => []EveryClientGetsEveryPosition
<1>1. FeedPart => EveryClientGetsEveryPosition
    <2> SUFFICES ASSUME FeedInv, NEW c \in Feed!ToSet(clients)
                 PROVE  owed[c] \subseteq reached[c]
        BY DEF FeedPart, EveryClientGetsEveryPosition, Feed!EveryClientGetsEveryPosition
    <2>1. clients \in Seq(Clients) /\ \A x \in Clients : owed[x] \subseteq reached[x]
        BY DEF FeedInv, ClientsInv
    <2>2. c \in Clients
        BY <2>1 DEF Feed!ToSet
    <2> QED BY <2>1, <2>2
<1>2. QED BY <1>1, FeedAlways, PTL

-----------------------------------------------------------------------------
(* The data column                                                         *)

\* An initial segment of the numbers that has 1, and with a number the next, is all of it.
LEMMA UpTo ==
    ASSUME NEW k \in Nat, NEW P \in SUBSET Nat, 1 \in P,
           \A i \in 1 .. k - 1 : i \in P => i + 1 \in P
    PROVE  \A i \in 1 .. k : i \in P
<1> PICK S : S = {i \in 1 .. k : i \notin P}
    OBVIOUS
<1>1. S \in SUBSET Nat /\ IsFiniteSet(S)
    <2>1. 1 \in Int /\ k \in Int
        OBVIOUS
    <2>2. IsFiniteSet(1 .. k)
        BY <2>1, FS_Interval, Zenon
    <2>3. S \in SUBSET (1 .. k)
        OBVIOUS
    <2>4. IsFiniteSet(S)
        BY <2>2, <2>3, FS_Subset, Zenon
    <2> QED BY <2>4
<1>2. S = {}
    <2> SUFFICES ASSUME S # {} PROVE FALSE
        OBVIOUS
    <2>1. PICK x \in S : Rank(S, x) = 1
        <3>1. Cardinality(S) \in Nat /\ Cardinality(S) # 0
            BY <1>1, FS_CardinalityType, FS_EmptySet
        <3>2. 1 \in 1 .. Cardinality(S)
            BY <3>1
        <3> QED BY <1>1, <3>2, RankReached
    <2>2. \A y \in S : ~ (y < x)
        <3> SUFFICES ASSUME NEW y \in S, y < x PROVE FALSE
            OBVIOUS
        <3>1. Rank(S, y) < 1
            BY <1>1, <2>1, RankGrows
        <3>2. Rank(S, y) \in 1 .. Cardinality(S)
            BY <1>1, RankType
        <3> QED BY <3>1, <3>2
    <2>3. x \in 1 .. k /\ x # 1 /\ x \notin P
        OBVIOUS
    <2>4. x - 1 \in 1 .. k /\ x - 1 < x /\ x - 1 \in 1 .. k - 1
        BY <2>3
    <2>5. x - 1 \in P
        BY <2>2, <2>4
    <2>6. (x - 1) + 1 \in P
        BY <2>4, <2>5
    <2> QED BY <2>3, <2>6
<1>3. QED BY <1>2

Letters == {"a", "b", "c", "d", "e", "|"}
Text == Seq(Letters)

\* Two texts with a bar between.
Barred(u, v, w) ==
    /\ w \in Text /\ Len(w) = Len(u) + 1 + Len(v)
    /\ \A p \in 1 .. Len(u) : w[p] = u[p]
    /\ w[Len(u) + 1] = "|"
    /\ \A p \in 1 .. Len(v) : w[Len(u) + 1 + p] = v[p]

LEMMA ThreeParts ==
    ASSUME NEW u \in Text, NEW v \in Text, NEW w, w = u \o <<"|">> \o v
    PROVE  Barred(u, v, w) /\ w \in Text
<1>0. "|" \in Letters
    BY DEF Letters
<1> PICK b \in Letters : b = "|"
    BY <1>0, Zenon
<1> PICK x : x = u \o <<b>>
    OBVIOUS
<1>1. /\ x \in Seq(Letters) /\ Len(x) = Len(u) + 1 /\ x[Len(u) + 1] = b
      /\ \A p \in 1 .. Len(u) : x[p] = u[p]
    BY DEF Text
<1>2. w = x \o v
    OBVIOUS
<1>3. /\ w \in Seq(Letters) /\ Len(w) = Len(x) + Len(v)
      /\ \A p \in 1 .. Len(x) : w[p] = x[p]
      /\ \A p \in 1 .. Len(v) : w[Len(x) + p] = v[p]
    BY <1>1, <1>2 DEF Text
<1>4. Len(u) \in Nat /\ Len(v) \in Nat
    BY DEF Text
<1>5. \A p \in 1 .. Len(u) : p \in 1 .. Len(x)
    BY <1>1, <1>4
<1>6. Len(u) + 1 \in 1 .. Len(x)
    BY <1>1, <1>4
<1>7. QED BY <1>1, <1>3, <1>5, <1>6 DEF Text, Barred

LEMMA TextLen == ASSUME NEW u \in Text PROVE Len(u) \in Nat
BY DEF Text

\* J has the fields up to each of them, with bars between.
IsJoin(fields, k, J) ==
    /\ J \in [1 .. k -> Text] /\ J[1] = fields[1]
    /\ \A i \in 1 .. k : i # 1 => J[i] = J[i - 1] \o <<"|">> \o fields[i]

LEMMA JoinExists ==
    ASSUME NEW fields \in Seq(Text), fields # <<>>
    PROVE  \E J : IsJoin(fields, Len(fields), J)
<1> PICK k \in Nat : k = Len(fields) /\ k >= 1 /\ DOMAIN fields = 1 .. k
    OBVIOUS
<1> PICK P : P = {i \in 1 .. k : \E J : IsJoin(fields, i, J)}
    OBVIOUS
<1>1. 1 \in P
    <2>1. fields[1] \in Text
        OBVIOUS
    <2>2. PICK J : J = [i \in 1 .. 1 |-> fields[1]]
        OBVIOUS
    <2>3. IsJoin(fields, 1, J)
        BY <2>1, <2>2 DEF IsJoin
    <2> QED BY <2>3
<1>2. ASSUME NEW i \in 1 .. k - 1, i \in P
      PROVE  i + 1 \in P
    <2>1. PICK J : IsJoin(fields, i, J)
        BY <1>2
    <2>2. PICK next : next = J[i] \o <<"|">> \o fields[i + 1]
        OBVIOUS
    <2>3. next \in Text
        <3>1. J[i] \in Text /\ fields[i + 1] \in Text
            BY <2>1 DEF IsJoin
        <3> QED BY <2>2, <3>1, ThreeParts
    <2>4. PICK K : K = [j \in 1 .. i + 1 |-> IF j = i + 1 THEN next ELSE J[j]]
        OBVIOUS
    <2>5. K \in [1 .. i + 1 -> Text]
        BY <2>1, <2>3, <2>4 DEF IsJoin
    <2>6. K[1] = fields[1]
        BY <2>1, <2>4 DEF IsJoin
    <2>7. ASSUME NEW j \in 1 .. i + 1, j # 1
          PROVE  K[j] = K[j - 1] \o <<"|">> \o fields[j]
        <3>1. CASE j = i + 1
            <4>1. K[j] = next /\ K[j - 1] = J[i]
                BY <2>4, <3>1
            <4> QED BY <2>2, <3>1, <4>1
        <3>2. CASE j # i + 1
            <4>1. j \in 1 .. i /\ K[j] = J[j] /\ K[j - 1] = J[j - 1]
                BY <2>4, <2>7, <3>2
            <4> QED BY <2>1, <2>7, <4>1 DEF IsJoin
        <3> QED BY <3>1, <3>2
    <2>8. IsJoin(fields, i + 1, K)
        BY <2>5, <2>6, <2>7 DEF IsJoin
    <2>9. i + 1 \in 1 .. k
        OBVIOUS
    <2> QED BY <2>8, <2>9
<1>3. \A i \in 1 .. k : i \in P
    <2>1. P \in SUBSET Nat
        OBVIOUS
    <2> QED BY <1>1, <1>2, <2>1, UpTo
<1>4. QED BY <1>3

LEMMA JoinedIsJoin ==
    ASSUME NEW fields \in Seq(Text), fields # <<>>
    PROVE  IsJoin(fields, Len(fields), Store!Joined(fields))
<1> PICK k \in Nat : k = Len(fields) /\ k >= 1 /\ DOMAIN fields = 1 .. k
    OBVIOUS
<1> PICK J : IsJoin(fields, k, J)
    BY JoinExists
<1> DEFINE Is(g) == g = [i \in DOMAIN fields |->
                            IF i = 1 THEN fields[1] ELSE g[i - 1] \o <<"|">> \o fields[i]]
<1>1. Is(J)
    <2>1. \A i \in 1 .. k : J[i] = (IF i = 1 THEN fields[1] ELSE J[i - 1] \o <<"|">> \o fields[i])
        BY DEF IsJoin
    <2>2. J = [i \in 1 .. k |-> J[i]]
        BY DEF IsJoin
    <2> QED BY <2>1, <2>2
<1> PICK G : G = Store!Joined(fields)
    OBVIOUS
<1>2. G = CHOOSE g : Is(g)
    BY Zenon DEF Store!Joined
<1>3. Is(G)
    <2> HIDE DEF Is
    <2> QED BY <1>1, <1>2, Zenon
<1>4. /\ DOMAIN G = 1 .. k /\ G[1] = fields[1]
      /\ \A i \in 1 .. k : i # 1 => G[i] = G[i - 1] \o <<"|">> \o fields[i]
    <2>0. PICK H : H = G
        OBVIOUS
    <2>1. G = [i \in 1 .. k |-> IF i = 1 THEN fields[1] ELSE H[i - 1] \o <<"|">> \o fields[i]]
        BY <1>3, <2>0
    <2>2. DOMAIN G = 1 .. k
        BY <2>1
    <2>3. \A i \in 1 .. k : i # 1 => G[i] = H[i - 1] \o <<"|">> \o fields[i]
        BY <2>1
    <2>4. \A i \in 1 .. k : i # 1 => G[i] = G[i - 1] \o <<"|">> \o fields[i]
        BY <2>0, <2>3, Zenon
    <2>5. 1 \in 1 .. k
        OBVIOUS
    <2>6. G[1] = fields[1]
        BY <2>1, <2>5
    <2> QED BY <2>2, <2>4, <2>6
<1>5. \A i \in 1 .. k : G[i] \in Text
    <2> PICK P : P = {i \in 1 .. k : G[i] \in Text}
        OBVIOUS
    <2>1. 1 \in P
        BY <1>4
    <2>2. ASSUME NEW i \in 1 .. k - 1, i \in P PROVE i + 1 \in P
        <3>1. i + 1 \in 1 .. k /\ i + 1 # 1 /\ (i + 1) - 1 = i
            OBVIOUS
        <3>2. G[i + 1] = G[i] \o <<"|">> \o fields[i + 1]
            BY <1>4, <3>1
        <3>3. G[i] \in Text /\ fields[i + 1] \in Text
            BY <2>2, <3>1
        <3>4. G[i + 1] \in Text
            BY <3>2, <3>3, ThreeParts
        <3> QED BY <3>1, <3>4
    <2>3. \A i \in 1 .. k : i \in P
        <3>1. P \in SUBSET Nat
            OBVIOUS
        <3> QED BY <2>1, <2>2, <3>1, UpTo
    <2> QED BY <2>3
<1>6. G \in [1 .. k -> Text]
    <2>0. PICK H : H = G
        OBVIOUS
    <2>1. G = [i \in 1 .. k |-> IF i = 1 THEN fields[1] ELSE H[i - 1] \o <<"|">> \o fields[i]]
        BY <1>3, <2>0
    <2>2. ASSUME NEW i \in 1 .. k
          PROVE  (IF i = 1 THEN fields[1] ELSE H[i - 1] \o <<"|">> \o fields[i]) \in Text
        <3>1. G[i] = IF i = 1 THEN fields[1] ELSE H[i - 1] \o <<"|">> \o fields[i]
            BY <2>1
        <3>2. G[i] \in Text
            BY <1>5
        <3> QED BY <3>1, <3>2
    <2> QED BY <2>1, <2>2
<1>7. QED BY <1>4, <1>6 DEF IsJoin

\* Where the bar after a field is; before the first one there is none, and its place is 0.
Bar(J, i) == IF i = 0 THEN 0 ELSE Len(J[i]) + 1

JoinOf(fields, k, J) ==
    /\ fields \in Seq(Text) /\ k \in Nat \ {0} /\ k = Len(fields)
    /\ IsJoin(fields, k, J)

LEMMA Adding ==
    ASSUME NEW a \in Nat, NEW c \in Nat, NEW e \in Nat, NEW g \in Nat, e = a + 1 + c, g = a + 1
    PROVE  e + 1 \in Nat /\ e + 1 = g + c + 1 /\ a <= e
OBVIOUS

\* The text i begins with the text j.
Continues(J, i, j) == \A p \in 1 .. Len(J[j]) : J[i][p] = J[j][p]

LEMMA OneLess ==
    ASSUME NEW b \in Nat, NEW d \in Nat, NEW e \in Nat, e + 1 = b + d + 1
    PROVE  e = b + d
OBVIOUS

\* The text i has the bar j.
HasBar(J, i, j) == J[i][Bar(J, j)] = "|"

LEMMA BehindPlace ==
    ASSUME NEW b \in Nat, NEW d \in Nat, NEW p \in 1 .. b + d, p > b
    PROVE  \E q \in 1 .. d : p = b + q
<1>1. p - b \in 1 .. d /\ p = b + (p - b)
    OBVIOUS
<1>2. QED BY <1>1

LEMMA PlacesBehind ==
    ASSUME NEW b \in Nat, NEW d \in Nat, NEW c \in Nat, c + 1 = b + d + 1
    PROVE  \A q \in 1 .. d : b + q \in 1 .. c
OBVIOUS

\* The field i is behind the bar j.
FollowsBar(fields, J, i, j) == \A p \in 1 .. Len(fields[i]) : J[i][Bar(J, j) + p] = fields[i][p]

LEMMA JoinSteps ==
    ASSUME NEW fields, NEW k, NEW J, JoinOf(fields, k, J), NEW i \in 1 .. k
    PROVE  /\ J[i] \in Text /\ fields[i] \in Text
           /\ Bar(J, i) \in Nat /\ Bar(J, i - 1) \in Nat
           /\ Bar(J, i) = Len(J[i]) + 1 /\ Bar(J, i) = Bar(J, i - 1) + Len(fields[i]) + 1
           /\ FollowsBar(fields, J, i, i - 1)
           /\ i # 1 => /\ HasBar(J, i, i - 1) /\ Len(J[i - 1]) <= Len(J[i])
                       /\ Continues(J, i, i - 1)
<1>0. /\ k \in Nat \ {0} /\ i \in 1 .. k /\ J \in [1 .. k -> Text] /\ fields \in [1 .. k -> Text]
      /\ J[1] = fields[1]
    BY DEF JoinOf, IsJoin
<1>9. i # 1 => J[i] = J[i - 1] \o <<"|">> \o fields[i]
    BY Zenon DEF JoinOf, IsJoin
<1> PICK v \in Text : v = fields[i]
    BY <1>0
<1> PICK w \in Text : w = J[i]
    BY <1>0
<1>2. Bar(J, i) = Len(w) + 1 /\ Len(w) \in Nat /\ Len(v) \in Nat
    <2>1. i # 0
        OBVIOUS
    <2> QED BY <2>1, TextLen DEF Bar
<1>3. CASE i = 1
    <2>1. Bar(J, i - 1) = 0 /\ w = v
        BY <1>0, <1>3 DEF Bar
    <2>2. Bar(J, i) \in Nat /\ Bar(J, i) = 0 + Len(v) + 1
        BY <1>2, <2>1
    <2>3. \A p \in 1 .. Len(v) : w[0 + p] = v[p]
        BY <1>2, <2>1
    <2>4. FollowsBar(fields, J, i, i - 1)
        BY <2>1, <2>3 DEF FollowsBar
    <2> QED BY <1>2, <1>3, <2>1, <2>2, <2>4
<1>4. CASE i # 1
    <2>0. i - 1 \in 1 .. k /\ i - 1 # 0
        BY <1>0, <1>4
    <2> PICK u \in Text : u = J[i - 1]
        BY <1>0, <2>0
    <2>1. w = u \o <<"|">> \o v
        BY <1>9, <1>4
    <2>2. /\ Len(w) = Len(u) + 1 + Len(v)
          /\ \A p \in 1 .. Len(u) : w[p] = u[p]
          /\ w[Len(u) + 1] = "|"
          /\ \A p \in 1 .. Len(v) : w[Len(u) + 1 + p] = v[p]
        <3>1. Barred(u, v, w)
            BY <2>1, ThreeParts
        <3> QED BY <3>1, Zenon DEF Barred
    <2> PICK a \in Nat : a = Len(u)
        BY TextLen
    <2> PICK c \in Nat : c = Len(v)
        BY TextLen
    <2> PICK d : d = Bar(J, i - 1)
        OBVIOUS
    <2>3. d = a + 1 /\ d \in Nat
        BY <2>0 DEF Bar
    <2> PICK e \in Nat : e = Len(w)
        BY TextLen
    <2>7. e = a + 1 + c
        BY <2>2, Zenon
    <2> PICK g \in Nat : g = d
        BY <2>3
    <2>8. Bar(J, i) = e + 1
        BY <1>2, Zenon
    <2>4. /\ Bar(J, i) \in Nat /\ Bar(J, i) = d + c + 1 /\ a <= e
        <3>1. g = a + 1
            BY <2>3, Zenon
        <3>2. e + 1 \in Nat /\ e + 1 = g + c + 1 /\ a <= e
            BY <2>7, <3>1, Adding, ZenonT(40)
        <3> QED BY <2>8, <3>2
    <2>5. \A p \in 1 .. c : w[d + p] = v[p]
        BY <2>2, <2>3
    <2>6. w[d] = "|"
        BY <2>2, <2>3
    <2>9. FollowsBar(fields, J, i, i - 1)
        BY <2>5 DEF FollowsBar
    <2>10. HasBar(J, i, i - 1)
        BY <2>6 DEF HasBar
    <2>11. Continues(J, i, i - 1)
        BY <2>2 DEF Continues
    <2> QED BY <1>2, <2>2, <2>3, <2>4, <2>9, <2>10, <2>11
<1>5. QED BY <1>3, <1>4

LEMMA JoinPrefix ==
    ASSUME NEW fields, NEW k, NEW J, JoinOf(fields, k, J), NEW i \in 1 .. k
    PROVE  /\ Len(J[i]) <= Len(J[k]) /\ \A p \in 1 .. Len(J[i]) : J[k][p] = J[i][p]
<1> PICK P : P = {j \in 1 .. k : i <= j => /\ Len(J[i]) <= Len(J[j])
                                          /\ \A p \in 1 .. Len(J[i]) : J[j][p] = J[i][p]}
    OBVIOUS
<1>0. \A j \in 1 .. k : Len(J[j]) \in Nat
    BY TextLen DEF JoinOf, IsJoin
<1> k \in Nat
    BY DEF JoinOf
<1>1. P \in SUBSET Nat /\ 1 \in P
    <2>1. 1 \in 1 .. k /\ (i <= 1 => i = 1)
        OBVIOUS
    <2> QED BY <1>0, <2>1
<1>2. ASSUME NEW j \in 1 .. k - 1, j \in P PROVE j + 1 \in P
    <2>1. j + 1 \in 1 .. k /\ j + 1 # 1 /\ (j + 1) - 1 = j /\ j \in 1 .. k
        OBVIOUS
    <2>2. Len(J[j]) <= Len(J[j + 1]) /\ \A p \in 1 .. Len(J[j]) : J[j + 1][p] = J[j][p]
        <3>1. PICK m \in 1 .. k : m = j + 1 /\ m # 1 /\ m - 1 = j
            BY <2>1
        <3>2. Len(J[m - 1]) <= Len(J[m]) /\ Continues(J, m, m - 1)
            BY <3>1, JoinSteps
        <3>3. Len(J[j]) <= Len(J[j + 1]) /\ Continues(J, j + 1, j)
            BY <3>1, <3>2, Zenon
        <3> QED BY <3>3, Zenon DEF Continues
    <2>3. CASE i <= j
        <3>1. Len(J[i]) <= Len(J[j]) /\ \A p \in 1 .. Len(J[i]) : J[j][p] = J[i][p]
            BY <1>2, <2>3
        <3>2. Len(J[i]) \in Nat /\ Len(J[j]) \in Nat /\ Len(J[j + 1]) \in Nat
            BY <1>0, <2>1
        <3>3. Len(J[i]) <= Len(J[j + 1])
            BY <2>2, <3>1, <3>2
        <3>4. \A p \in 1 .. Len(J[i]) : p \in 1 .. Len(J[j])
            BY <3>1, <3>2
        <3>5. \A p \in 1 .. Len(J[i]) : J[j + 1][p] = J[i][p]
            BY <2>2, <3>1, <3>4
        <3> QED BY <2>1, <3>3, <3>5
    <2>4. CASE i = j + 1
        <3>1. Len(J[i]) <= Len(J[j + 1])
            BY <1>0, <2>1, <2>4
        <3> QED BY <2>1, <2>4, <3>1
    <2>5. CASE i > j + 1
        BY <2>1, <2>5
    <2> QED BY <2>3, <2>4, <2>5
<1>3. \A j \in 1 .. k : j \in P
    BY <1>1, <1>2, UpTo
<1>4. QED BY <1>3

LEMMA BarsGrow ==
    ASSUME NEW fields, NEW k, NEW J, JoinOf(fields, k, J), NEW i \in 0 .. k, NEW j \in 0 .. k, i < j
    PROVE  Bar(J, i) < Bar(J, j)
<1> k \in Nat
    BY DEF JoinOf
<1>0. \A m \in 0 .. k : Bar(J, m) \in Nat
    <2> TAKE m \in 0 .. k
    <2>1. CASE m = 0
        BY <2>1 DEF Bar
    <2>2. CASE m # 0
        <3>1. m \in 1 .. k
            BY <2>2
        <3> QED BY <3>1, JoinSteps
    <2> QED BY <2>1, <2>2
<1>1. \A m \in 1 .. k : Bar(J, m - 1) < Bar(J, m)
    <2> TAKE m \in 1 .. k
    <2> PICK a : a = Len(fields[m])
        OBVIOUS
    <2>1. a \in Nat
        <3>1. fields[m] \in Text
            BY DEF JoinOf
        <3> QED BY <3>1, TextLen
    <2>2. Bar(J, m) = Bar(J, m - 1) + a + 1 /\ Bar(J, m - 1) \in Nat
        BY JoinSteps
    <2> QED BY <2>1, <2>2
<1> PICK P : P = {m \in 1 .. k : i < m => Bar(J, i) < Bar(J, m)}
    OBVIOUS
<1>2. P \in SUBSET Nat /\ 1 \in P
    <2>1. 1 \in 1 .. k /\ (i < 1 => i = 1 - 1)
        OBVIOUS
    <2>2. i < 1 => Bar(J, i) < Bar(J, 1)
        BY <1>1, <2>1
    <2> QED BY <2>1, <2>2
<1>3. ASSUME NEW m \in 1 .. k - 1, m \in P PROVE m + 1 \in P
    <2>1. m + 1 \in 1 .. k /\ (m + 1) - 1 = m /\ m \in 0 .. k /\ m + 1 \in 0 .. k
        OBVIOUS
    <2>2. Bar(J, m) < Bar(J, m + 1)
        BY <1>1, <2>1
    <2>3. CASE i < m
        <3>1. Bar(J, i) < Bar(J, m)
            BY <1>3, <2>3
        <3>2. Bar(J, i) < Bar(J, m + 1)
            BY <1>0, <2>1, <2>2, <3>1
        <3> QED BY <2>1, <3>2
    <2>4. CASE i = m
        BY <2>1, <2>2, <2>4
    <2>5. CASE i > m
        BY <2>1, <2>5
    <2> QED BY <2>3, <2>4, <2>5
<1>4. \A m \in 1 .. k : m \in P
    BY <1>2, <1>3, UpTo
<1>5. QED BY <1>4
LEMMA Places ==
    ASSUME NEW fields, NEW k, NEW J, JoinOf(fields, k, J), NEW i \in 1 .. k
    PROVE  Len(J[i]) = Bar(J, i - 1) + Len(fields[i])
<1>1. /\ J[i] \in Text /\ fields[i] \in Text /\ Bar(J, i - 1) \in Nat
      /\ Bar(J, i) = Len(J[i]) + 1 /\ Bar(J, i) = Bar(J, i - 1) + Len(fields[i]) + 1
    BY JoinSteps
<1>2. Len(J[i]) \in Nat /\ Len(fields[i]) \in Nat
    BY <1>1, TextLen
<1>3. Len(J[i]) + 1 = Bar(J, i - 1) + Len(fields[i]) + 1
    BY <1>1, Zenon
<1>4. QED BY <1>1, <1>2, <1>3, OneLess

\* The numbers of the bars, in one place.
LEMMA BarsAre ==
    ASSUME NEW fields, NEW k, NEW J, JoinOf(fields, k, J)
    PROVE  /\ k \in Nat \ {0} /\ Bar(J, 0) = 0
           /\ \A i \in 0 .. k : Bar(J, i) \in Nat
           /\ \A i \in 1 .. k : J[i] \in Text /\ Len(J[i]) + 1 = Bar(J, i) /\ fields[i] \in Text
           /\ \A i, j \in 0 .. k : i < j => Bar(J, i) < Bar(J, j)
<1>1. k \in Nat \ {0}
    BY DEF JoinOf
<1>2. Bar(J, 0) = 0
    BY DEF Bar
<1>3. \A i \in 1 .. k : J[i] \in Text /\ Len(J[i]) + 1 = Bar(J, i) /\ fields[i] \in Text /\ Bar(J, i) \in Nat
    BY JoinSteps
<1>4. \A i \in 0 .. k : Bar(J, i) \in Nat
    <2> TAKE i \in 0 .. k
    <2>1. CASE i = 0
        BY <1>2, <2>1
    <2>2. CASE i # 0
        BY <1>1, <1>3, <2>2
    <2> QED BY <2>1, <2>2
<1>5. QED BY <1>1, <1>2, <1>3, <1>4, BarsGrow

BarFree(fields, k) == \A i \in 1 .. k : \A p \in 1 .. Len(fields[i]) : fields[i][p] # "|"

\* A bar of the joined text is between two fields, if no field has one.
LEMMA BarIsBetween ==
    ASSUME NEW fields, NEW k, NEW J, JoinOf(fields, k, J), BarFree(fields, k),
           NEW x \in 1 .. Len(J[k]), J[k][x] = "|"
    PROVE  \E m \in 1 .. k - 1 : x = Bar(J, m)
<1> PICK P : P = {i \in 1 .. k : \A p \in 1 .. Len(J[i]) :
                                     J[i][p] = "|" => \E m \in 1 .. i - 1 : p = Bar(J, m)}
    OBVIOUS
<1>0. k \in Nat \ {0} /\ P \in SUBSET Nat
    BY BarsAre
<1>1. 1 \in P
    <2>1. 1 \in 1 .. k /\ J[1] = fields[1]
        BY <1>0 DEF JoinOf, IsJoin
    <2>2. \A p \in 1 .. Len(J[1]) : J[1][p] # "|"
        BY <2>1 DEF BarFree
    <2> QED BY <2>1, <2>2
<1>2. ASSUME NEW i \in 1 .. k - 1, i \in P PROVE i + 1 \in P
    <2> PICK m \in 1 .. k : m = i + 1 /\ m # 1 /\ m - 1 = i /\ i \in 1 .. k /\ i \in 0 .. k
        BY <1>0
    <2>0. i \in Nat /\ m \in Nat
        BY <1>0
    <2> PICK b \in Nat : b = Bar(J, i)
        BY BarsAre
    <2> PICK d \in Nat : d = Len(fields[m])
        BY BarsAre, TextLen
    <2> PICK e \in Nat : e = Len(J[m])
        BY BarsAre, TextLen
    <2> PICK a \in Nat : a = Len(J[i])
        BY BarsAre, TextLen
    <2>1. /\ a + 1 = b
          /\ \A p \in 1 .. d : J[m][b + p] = fields[m][p]
          /\ \A p \in 1 .. a : J[m][p] = J[i][p]
        <3>3. a + 1 = b
            BY BarsAre
        <3>4. \A p \in 1 .. d : J[m][b + p] = fields[m][p]
            <4>1. FollowsBar(fields, J, m, m - 1)
                BY JoinSteps
            <4>2. m - 1 = i
                OBVIOUS
            <4>3. FollowsBar(fields, J, m, i)
                BY <4>1, <4>2, Zenon
            <4> QED BY <4>3, Zenon DEF FollowsBar
        <3>5. \A p \in 1 .. a : J[m][p] = J[i][p]
            <4>1. Continues(J, m, m - 1)
                BY JoinSteps
            <4>2. m - 1 = i
                OBVIOUS
            <4>3. Continues(J, m, i)
                BY <4>1, <4>2, Zenon
            <4> QED BY <4>3, Zenon DEF Continues
        <3> QED BY <3>3, <3>4, <3>5
    <2>4. e = b + d
        <3>1. Len(J[m]) = Bar(J, m - 1) + Len(fields[m])
            BY Places
        <3>2. m - 1 = i
            OBVIOUS
        <3> QED BY <3>1, <3>2, Zenon
    <2>2. ASSUME NEW p \in 1 .. e, J[m][p] = "|"
          PROVE  \E q \in 1 .. m - 1 : p = Bar(J, q)
        <3>1. CASE p <= a
            <4>1. p \in 1 .. a
                BY <3>1
            <4>2. J[i][p] = "|"
                BY <2>1, <2>2, <4>1
            <4>3. PICK q \in 1 .. i - 1 : p = Bar(J, q)
                BY <1>2, <4>1, <4>2
            <4>4. q \in 1 .. m - 1
                BY <2>0
            <4> QED BY <4>3, <4>4
        <3>2. CASE p = b
            <4>1. i \in 1 .. m - 1
                BY <2>0
            <4> QED BY <3>2, <4>1
        <3>3. CASE p > b
            <4>1. PICK q \in 1 .. d : p = b + q
                <5>1. p \in 1 .. b + d
                    BY <2>4, Zenon
                <5> QED BY <3>3, <5>1, BehindPlace, ZenonT(40)
            <4>2. fields[m][q] = "|"
                BY <2>1, <2>2, <4>1
            <4>3. fields[m][q] # "|"
                BY DEF BarFree
            <4> QED BY <4>2, <4>3
        <3>4. p <= a \/ p = b \/ p > b
            BY <2>1
        <3> QED BY <3>1, <3>2, <3>3, <3>4
    <2>3. m \in P
        BY <2>2
    <2> QED BY <2>3
<1>3. \A i \in 1 .. k : i \in P
    BY <1>0, <1>1, <1>2, UpTo
<1>4. k \in P
    BY <1>0, <1>3
<1>5. QED BY <1>4

\* Each place between two fields has a bar.
LEMMA BetweenIsBar ==
    ASSUME NEW fields, NEW k, NEW J, JoinOf(fields, k, J), NEW i \in 1 .. k - 1
    PROVE  Bar(J, i) \in 1 .. Len(J[k]) /\ J[k][Bar(J, i)] = "|"
<1>0. k \in Nat \ {0}
    BY BarsAre
<1> PICK m \in 1 .. k : m = i + 1 /\ m # 1 /\ m - 1 = i /\ i \in 1 .. k /\ i \in 0 .. k
    BY <1>0
<1> PICK b \in Nat : b = Bar(J, i)
    BY BarsAre
<1> PICK d \in Nat : d = Len(fields[m])
    BY BarsAre, TextLen
<1> PICK e \in Nat : e = Len(J[m])
    BY BarsAre, TextLen
<1> PICK z \in Nat : z = Len(J[k])
    <2>1. k \in 1 .. k
        BY <1>0
    <2> QED BY <2>1, BarsAre, TextLen
<1>1. J[m][b] = "|"
    <2>1. HasBar(J, m, m - 1)
        BY JoinSteps
    <2>2. m - 1 = i
        OBVIOUS
    <2>3. HasBar(J, m, i)
        BY <2>1, <2>2, Zenon
    <2> QED BY <2>3, Zenon DEF HasBar
<1>2. e = b + d
    <2>1. Len(J[m]) = Bar(J, m - 1) + Len(fields[m])
        BY Places
    <2>2. m - 1 = i
        OBVIOUS
    <2> QED BY <2>1, <2>2, Zenon
<1>3. b # 0
    <2> PICK a \in Nat : a = Len(J[i])
        BY BarsAre, TextLen
    <2>1. a + 1 = b
        BY BarsAre
    <2> QED BY <2>1
<1>4. b \in 1 .. e
    BY <1>2, <1>3
<1>5. e <= z /\ \A p \in 1 .. e : J[k][p] = J[m][p]
    BY JoinPrefix
<1>6. b \in 1 .. z
    BY <1>4, <1>5
<1>7. J[k][b] = "|"
    BY <1>1, <1>4, <1>5
<1>8. QED BY <1>6, <1>7

LEMMA BarsOfText ==
    ASSUME NEW fields, NEW k, NEW J, JoinOf(fields, k, J), BarFree(fields, k)
    PROVE  Store!Bars(J[k]) = {Bar(J, m) : m \in 0 .. k - 1}
<1>0. k \in Nat \ {0} /\ k \in 1 .. k
    BY BarsAre
<1> PICK T \in Text : T = J[k]
    BY <1>0, BarsAre
<1>1. DOMAIN T = 1 .. Len(T)
    BY DEF Text
<1>2. Store!Bars(T) = {0} \cup {p \in 1 .. Len(T) : T[p] = "|"}
    BY <1>1, Zenon DEF Store!Bars
<1>3. \A p \in 1 .. Len(T) : T[p] = "|" => \E m \in 1 .. k - 1 : p = Bar(J, m)
    BY BarIsBetween
<1>4. \A m \in 1 .. k - 1 : Bar(J, m) \in 1 .. Len(T) /\ T[Bar(J, m)] = "|"
    BY BetweenIsBar
<1>5. Bar(J, 0) = 0 /\ 0 \in 0 .. k - 1
    BY <1>0, BarsAre
<1>6. \A m \in 0 .. k - 1 : m = 0 \/ m \in 1 .. k - 1
    BY <1>0
<1>7. \A m \in 1 .. k - 1 : m \in 0 .. k - 1
    BY <1>0
<1>8. ASSUME NEW p \in Store!Bars(T) PROVE p \in {Bar(J, m) : m \in 0 .. k - 1}
    BY <1>2, <1>3, <1>5, <1>7
<1>9. ASSUME NEW m \in 0 .. k - 1 PROVE Bar(J, m) \in Store!Bars(T)
    BY <1>2, <1>4, <1>5, <1>6
<1>10. QED BY <1>8, <1>9

LEMMA StoreCardinality == ASSUME NEW S PROVE Store!Cardinality(S) = Cardinality(S)
BY Zenon DEF Store!Cardinality, Cardinality

\* A bar has as many before it as its number says.
LEMMA BarsBefore ==
    ASSUME NEW fields, NEW k, NEW J, JoinOf(fields, k, J), NEW j \in 0 .. k - 1
    PROVE  Cardinality({q \in {Bar(J, m) : m \in 0 .. k - 1} : q < Bar(J, j)}) = j
<1>0. k \in Nat \ {0}
    BY BarsAre
<1> DEFINE Sooner(i) == {Bar(J, m) : m \in 0 .. i - 1}
<1> PICK P : P = {i \in 1 .. k : IsFiniteSet(Sooner(i - 1)) /\ Cardinality(Sooner(i - 1)) = i - 1}
    OBVIOUS
<1>1. 1 \in P
    <2>1. Sooner(1 - 1) = {}
        OBVIOUS
    <2>2. 1 \in 1 .. k
        BY <1>0
    <2> HIDE DEF Sooner
    <2>3. IsFiniteSet(Sooner(1 - 1)) /\ Cardinality(Sooner(1 - 1)) = 0
        BY <2>1, FS_EmptySet, Zenon
    <2> QED BY <2>2, <2>3
<1>2. ASSUME NEW i \in 1 .. k - 1, i \in P PROVE i + 1 \in P
    <2>1. i + 1 \in 1 .. k /\ (i + 1) - 1 = i /\ i \in Nat /\ i - 1 \in 0 .. k /\ i - 1 + 1 = i
        BY <1>0
    <2>2. Sooner(i) = Sooner(i - 1) \cup {Bar(J, i - 1)}
        <3>1. \A m : m \in 0 .. i - 1 <=> (m \in 0 .. (i - 1) - 1 \/ m = i - 1)
            BY <2>1
        <3> QED BY <3>1
    <2>3. Bar(J, i - 1) \notin Sooner(i - 1)
        <3> SUFFICES ASSUME NEW m \in 0 .. (i - 1) - 1, Bar(J, m) = Bar(J, i - 1) PROVE FALSE
            OBVIOUS
        <3>1. m \in 0 .. k /\ m < i - 1
            BY <1>0
        <3>2. Bar(J, m) < Bar(J, i - 1) /\ Bar(J, m) \in Nat
            BY <2>1, <3>1, BarsAre
        <3> QED BY <3>2
    <2> HIDE DEF Sooner
    <2>4. IsFiniteSet(Sooner(i - 1)) /\ Cardinality(Sooner(i - 1)) = i - 1
        BY <1>2
    <2>5. IsFiniteSet(Sooner(i)) /\ Cardinality(Sooner(i)) = (i - 1) + 1
        BY <2>2, <2>3, <2>4, FS_AddElement
    <2> QED BY <2>1, <2>5
<1>3. \A i \in 1 .. k : i \in P
    <2>1. P \in SUBSET Nat
        BY <1>0
    <2> QED BY <1>0, <1>1, <1>2, <2>1, UpTo
<1>4. j + 1 \in P /\ (j + 1) - 1 = j
    <2>1. j + 1 \in 1 .. k /\ (j + 1) - 1 = j
        BY <1>0
    <2> QED BY <1>3, <2>1
<1>5. Cardinality(Sooner(j)) = j
    <2> HIDE DEF Sooner
    <2> QED BY <1>4
<1>6. {q \in {Bar(J, m) : m \in 0 .. k - 1} : q < Bar(J, j)} = Sooner(j)
    <2>1. \A m \in 0 .. k - 1 : m \in 0 .. k /\ Bar(J, m) \in Nat
        BY <1>0, BarsAre
    <2>2. ASSUME NEW m \in 0 .. k - 1, Bar(J, m) < Bar(J, j) PROVE m \in 0 .. j - 1
        <3>1. CASE m < j
            BY <1>0, <3>1
        <3>2. CASE m = j
            BY <2>1, <2>2, <3>2
        <3>3. CASE m > j
            <4>1. Bar(J, j) < Bar(J, m)
                BY <2>1, <3>3, BarsAre
            <4> QED BY <2>1, <2>2, <4>1
        <3> QED BY <1>0, <3>1, <3>2, <3>3
    <2>3. ASSUME NEW m \in 0 .. j - 1 PROVE m \in 0 .. k - 1 /\ Bar(J, m) < Bar(J, j)
        <3>1. m \in 0 .. k - 1 /\ m < j
            BY <1>0
        <3> QED BY <2>1, <3>1, BarsAre
    <2> QED BY <2>2, <2>3
<1>7. QED BY <1>5, <1>6

LEMMA StartOfField ==
    ASSUME NEW fields, NEW k, NEW J, JoinOf(fields, k, J), BarFree(fields, k), NEW i \in 1 .. k
    PROVE  Store!Starts(J[k], i) = {Bar(J, i - 1)}
<1>0. k \in Nat \ {0}
    BY BarsAre
<1> PICK B : B = {Bar(J, m) : m \in 0 .. k - 1}
    OBVIOUS
<1>1. Store!Bars(J[k]) = B
    BY BarsOfText
<1>2. Store!Starts(J[k], i) = {p \in B : Cardinality({q \in B : q < p}) = i - 1}
    BY <1>1, StoreCardinality, Zenon DEF Store!Starts
<1>3. \A m \in 0 .. k - 1 : Cardinality({q \in B : q < Bar(J, m)}) = m
    BY BarsBefore
<1>4. i - 1 \in 0 .. k - 1
    BY <1>0
<1>5. ASSUME NEW p \in Store!Starts(J[k], i) PROVE p = Bar(J, i - 1)
    <2>1. PICK m \in 0 .. k - 1 : p = Bar(J, m)
        BY <1>2
    <2>2. m = i - 1
        BY <1>2, <1>3, <2>1
    <2> QED BY <2>1, <2>2
<1>6. Bar(J, i - 1) \in Store!Starts(J[k], i)
    BY <1>2, <1>3, <1>4
<1>7. QED BY <1>5, <1>6

\* The piece of a text behind a place is what is there.
LEMMA PieceBehind ==
    ASSUME NEW T \in Text, NEW v \in Text, NEW b \in Nat, NEW e \in Nat, e = b + Len(v) + 1,
           \A p \in 1 .. Len(v) : T[b + p] = v[p]
    PROVE  SubSeq(T, b + 1, e - 1) = v
<1> PICK d \in Nat : d = Len(v)
    BY TextLen
<1> PICK lo \in Int : lo = b + 1
    OBVIOUS
<1> PICK hi \in Int : hi = e - 1
    OBVIOUS
<1>1. hi - lo + 1 = d /\ (lo <= hi => hi - lo + 1 = d) /\ (~ (lo <= hi) => d = 0)
    <2>1. e = b + d + 1
        OBVIOUS
    <2> QED BY <2>1
<1>2. \A p \in 1 .. d : lo + p - 1 = b + p
    OBVIOUS
<1>3. \A x \in lo .. hi : T[x] \in Letters
    <2> TAKE x \in lo .. hi
    <2>1. x - b \in 1 .. d /\ x = b + (x - b)
        BY <1>1
    <2>2. T[b + (x - b)] = v[x - b]
        BY <2>1
    <2>3. v[x - b] \in Letters
        BY <2>1 DEF Text
    <2> QED BY <2>1, <2>2, <2>3
<1>9. PICK w : w = SubSeq(T, lo, hi)
    OBVIOUS
<1>4. /\ w \in Seq(Letters) /\ Len(w) = (IF lo <= hi THEN hi - lo + 1 ELSE 0)
      /\ \A p \in 1 .. hi - lo + 1 : w[p] = T[lo + p - 1]
    <2>1. /\ SubSeq(T, lo, hi) \in Seq(Letters)
          /\ Len(SubSeq(T, lo, hi)) = (IF lo <= hi THEN hi - lo + 1 ELSE 0)
          /\ \A p \in 1 .. hi - lo + 1 : SubSeq(T, lo, hi)[p] = T[lo + p - 1]
        BY <1>3, SubSeqProperties
    <2> QED BY <1>9, <2>1, Zenon
<1>5. Len(w) = d
    BY <1>1, <1>4
<1>6. \A p \in 1 .. d : w[p] = v[p]
    BY <1>1, <1>2, <1>4
<1>7. w = v
    <2>1. w \in [1 .. d -> Letters]
        BY <1>4, <1>5
    <2>2. v \in [1 .. d -> Letters]
        BY DEF Text
    <2> QED BY <1>6, <2>1, <2>2
<1>8. QED BY <1>7, <1>9

\* A field is between its bars.
LEMMA FieldPiece ==
    ASSUME NEW fields, NEW k, NEW J, JoinOf(fields, k, J), NEW i \in 1 .. k
    PROVE  SubSeq(J[k], Bar(J, i - 1) + 1, Bar(J, i) - 1) = fields[i]
<1>0. k \in Nat \ {0} /\ k \in 1 .. k /\ i - 1 \in 0 .. k /\ i \in 0 .. k
    BY BarsAre
<1> PICK T \in Text : T = J[k]
    BY <1>0, BarsAre
<1> PICK b \in Nat : b = Bar(J, i - 1)
    BY <1>0, BarsAre
<1> PICK e \in Nat : e = Bar(J, i)
    BY <1>0, BarsAre
<1> PICK v \in Text : v = fields[i]
    BY BarsAre
<1>10. e = b + Len(v) + 1
    BY JoinSteps
<1>11. \A p \in 1 .. Len(v) : T[b + p] = v[p]
    <2>1. FollowsBar(fields, J, i, i - 1)
        BY JoinSteps
    <2>2. \A p \in 1 .. Len(v) : J[i][b + p] = v[p]
        BY <2>1, Zenon DEF FollowsBar
    <2>3. \A p \in 1 .. Len(J[i]) : T[p] = J[i][p]
        BY JoinPrefix
    <2> PICK c \in Nat : c = Len(J[i])
        BY BarsAre, TextLen
    <2>4. c + 1 = e
        BY BarsAre
    <2> PICK d \in Nat : d = Len(v)
        BY TextLen
    <2>5. e = b + d + 1
        BY <1>10
    <2>8. c + 1 = b + d + 1
        BY <2>4, <2>5, Zenon
    <2>6. \A p \in 1 .. d : b + p \in 1 .. c
        BY <2>8, PlacesBehind, Zenon
    <2>7. \A p \in 1 .. Len(v) : T[b + p] = J[i][b + p]
        BY <2>3, <2>6
    <2> QED BY <2>2, <2>7
<1>12. SubSeq(T, b + 1, e - 1) = v
    BY <1>10, <1>11, PieceBehind, ZenonT(40)
<1>13. QED BY <1>12, Zenon

LEMMA FieldIsRead ==
    ASSUME NEW fields, NEW k, NEW J, JoinOf(fields, k, J), BarFree(fields, k), NEW i \in 1 .. k
    PROVE  Store!Field(J[k], i) = fields[i]
<1>0. k \in Nat \ {0} /\ k \in 1 .. k /\ i - 1 \in 0 .. k /\ i \in 0 .. k /\ k \in 0 .. k
    BY BarsAre
<1>a. Store!Starts(J[k], i) = {Bar(J, i - 1)}
    BY StartOfField
<1>c. SubSeq(J[k], Bar(J, i - 1) + 1, Bar(J, i) - 1) = fields[i]
    BY FieldPiece
<1>b. Store!Bars(J[k]) = {Bar(J, m) : m \in 0 .. k - 1}
    BY BarsOfText
<1> PICK T \in Text : T = J[k]
    BY <1>0, BarsAre
<1> PICK b \in Nat : b = Bar(J, i - 1)
    BY <1>0, BarsAre
<1> PICK e \in Nat : e = Bar(J, i)
    BY <1>0, BarsAre
<1> PICK z \in Nat : z = Len(T)
    BY TextLen
<1> PICK B : B = {Bar(J, m) : m \in 0 .. k - 1}
    OBVIOUS
<1> PICK ends : ends = {p \in B : p > b} \cup {z + 1}
    OBVIOUS
<1>1. Store!Starts(T, i) = {b}
    BY <1>a, Zenon
<1>2. Store!Bars(T) = B
    BY <1>b, Zenon
<1>3. z + 1 = Bar(J, k)
    BY <1>0, BarsAre
<1>4. e \in ends
    <2>1. CASE i = k
        BY <1>3, <2>1
    <2>2. CASE i # k
        <3>1. i \in 0 .. k - 1
            BY <1>0, <2>2
        <3>2. e \in B
            BY <3>1
        <3>3. b < e
            BY <1>0, BarsAre
        <3> QED BY <3>2, <3>3
    <2> QED BY <2>1, <2>2
<1>5. \A q \in ends : e <= q
    <2> TAKE q \in ends
    <2>1. CASE q = z + 1
        <3>1. CASE i = k
            BY <1>3, <2>1, <3>1
        <3>2. CASE i # k
            <4>1. i < k
                BY <1>0, <3>2
            <4>2. Bar(J, i) < Bar(J, k)
                BY <1>0, <4>1, BarsAre
            <4> QED BY <1>3, <2>1, <4>2
        <3> QED BY <3>1, <3>2
    <2>2. CASE q # z + 1
        <3>1. PICK m \in 0 .. k - 1 : q = Bar(J, m) /\ q > b
            BY <2>2
        <3>2. m \in 0 .. k /\ q \in Nat
            BY <1>0, <3>1, BarsAre
        <3>3. CASE m < i - 1
            <4>1. Bar(J, m) < Bar(J, i - 1)
                BY <1>0, <3>2, <3>3, BarsAre
            <4> QED BY <3>1, <3>2, <4>1
        <3>4. CASE m = i - 1
            BY <3>1, <3>4
        <3>5. CASE m = i
            BY <3>1, <3>5
        <3>6. CASE m > i
            <4>1. Bar(J, i) < Bar(J, m)
                BY <1>0, <3>2, <3>6, BarsAre
            <4> QED BY <3>1, <3>2, <4>1
        <3>7. m < i - 1 \/ m = i - 1 \/ m = i \/ m > i
            BY <3>2
        <3> QED BY <3>3, <3>4, <3>5, <3>6, <3>7
    <2> QED BY <2>1, <2>2
<1>6. \A p \in ends : p \in Nat
    <2> TAKE p \in ends
    <2>1. CASE p = z + 1
        BY <2>1
    <2>2. CASE p # z + 1
        <3>1. PICK m \in 0 .. k - 1 : p = Bar(J, m)
            BY <2>2
        <3>2. m \in 0 .. k
            BY <1>0
        <3> QED BY <3>1, <3>2, BarsAre
    <2> QED BY <2>1, <2>2
<1>9. Store!Field(T, i) = SubSeq(T, b + 1, e - 1)
    <2> DEFINE from == CHOOSE p \in Store!Starts(T, i) : TRUE
               all == {p \in Store!Bars(T) : p > from} \cup {Len(T) + 1}
               to == CHOOSE p \in all : \A q \in all : p <= q
    <2>1. Store!Field(T, i) = IF Store!Starts(T, i) = {} THEN <<>> ELSE SubSeq(T, from + 1, to - 1)
        BY Zenon DEF Store!Field
    <2>2. from = b
        BY <1>1
    <2> HIDE DEF from
    <2>3. all = ends
        BY <1>2, <2>2
    <2> HIDE DEF all
    <2>4. to \in ends /\ \A q \in ends : to <= q
        BY <1>4, <1>5, <2>3
    <2> HIDE DEF to
    <2>5. to = e
        <3>1. to <= e /\ e <= to /\ to \in Nat
            BY <1>4, <1>5, <1>6, <2>4
        <3> QED BY <3>1
    <2>6. Store!Starts(T, i) # {}
        BY <1>1
    <2> QED BY <2>1, <2>2, <2>5, <2>6, Zenon
<1>12. SubSeq(T, b + 1, e - 1) = fields[i]
    BY <1>c, Zenon
<1>13. QED BY <1>9, <1>12, Zenon

-----------------------------------------------------------------------------
(* The archives                                                            *)

\* What was not cut reads back as it was packed.
LEMMA PackedIsRead ==
    ASSUME NEW fields \in Seq(Text), fields # <<>>, Len(Store!Packed(fields)) < BufferSize,
           BarFree(fields, Len(fields)), NEW i \in DOMAIN fields
    PROVE  Store!Field(Store!Packed(fields), i) = fields[i]
<1> PICK k \in Nat : k = Len(fields) /\ k >= 1 /\ DOMAIN fields = 1 .. k
    OBVIOUS
<1> DEFINE J == Store!Joined(fields)
<1>1. IsJoin(fields, k, J)
    BY JoinedIsJoin
<1> HIDE DEF J
<1>2. JoinOf(fields, k, J)
    BY <1>1 DEF JoinOf
<1>3. k \in 1 .. k /\ i \in 1 .. k
    OBVIOUS
<1>4. Store!Field(J[k], i) = fields[i]
    BY <1>2, <1>3, FieldIsRead
<1>5. J[k] \in Text
    BY <1>2, <1>3, BarsAre
<1>6. Store!Packed(fields) = SubSeq(J[k], 1, IF Len(J[k]) > BufferSize THEN BufferSize ELSE Len(J[k]))
    BY Zenon DEF Store!Packed, J
<1>7. Store!Packed(fields) = J[k]
    <2>0. BufferSize \in Nat
        BY MessagesAssumption DEF MessagesAssumption
    <2>1. J[k] \in Seq(Letters) /\ Len(J[k]) \in Nat
        BY <1>5 DEF Text
    <2>2. CASE Len(J[k]) > BufferSize
        <3>1. Store!Packed(fields) = SubSeq(J[k], 1, BufferSize)
            BY <1>6, <2>2
        <3>2. \A x \in 1 .. BufferSize : J[k][x] \in Letters
            <4>1. \A x \in 1 .. BufferSize : x \in 1 .. Len(J[k])
                BY <2>0, <2>1, <2>2
            <4> QED BY <2>1, <4>1
        <3>3. Len(SubSeq(J[k], 1, BufferSize)) = IF 1 <= BufferSize THEN BufferSize - 1 + 1 ELSE 0
            BY <2>0, <3>2, SubSeqProperties
        <3>4. Len(SubSeq(J[k], 1, BufferSize)) = BufferSize
            BY <2>0, <3>3
        <3> QED BY <2>0, <3>1, <3>4
    <2>3. CASE ~ (Len(J[k]) > BufferSize)
        <3>1. Store!Packed(fields) = SubSeq(J[k], 1, Len(J[k]))
            BY <1>6, <2>3
        <3> QED BY <2>1, <3>1, SubSeqFull
    <2> QED BY <2>2, <2>3
<1>8. QED BY <1>4, <1>7

LEMMA TwoTexts == ASSUME NEW u \in Text, NEW v \in Text PROVE <<u, v>> \in Seq(Text) /\ <<u, v>> # <<>>
OBVIOUS

LEMMA PackableAreTexts == ASSUME NEW m \in Packable PROVE m \in Seq(Text) /\ m # <<>>
<1>1. <<"a">> \in Text /\ <<"b", "c">> \in Text /\ <<"a", "b", "c", "d">> \in Text
    BY DEF Text, Letters
<1>2. <<"e">> \in Text /\ <<"a", "|">> \in Text /\ <<"b">> \in Text
    BY DEF Text, Letters
<1>3. \E u \in Text, v \in Text : m = <<u, v>>
    BY <1>1, <1>2, Zenon DEF Packable
<1>4. QED BY <1>3, TwoTexts

\* A path of an archive that is not too old.
Young(p) == \E t \in Nat : p = Store!Databases(t) /\ t + MaxAge * 4 >= StartTime
Rows == {[fields |-> m, data |-> Store!Packed(m)] : m \in Packable}

\* The archives are young and hold what was packed; what a worker brings is a message, and
\* what it finds open is a young archive or none.
StoreInv ==
    /\ now \in Nat /\ now >= StartTime
    /\ db = Store!NoDb \/ Young(db)
    /\ \A p \in DOMAIN files : Young(p) /\ files[p] \in Seq(Rows)
    /\ busy \in [Workers -> Packable \cup {<<>>}]
    /\ removed = {t \in OldFiles : Store!Expired(t)}

StorePart == part = "archives" => StoreInv

LEMMA ExpiredAt ==
    ASSUME NEW t \in Nat
    PROVE  /\ Store!Expired(t) => t + MaxAge * 4 < StartTime + 4
           /\ ~ Store!Expired(t) => t + MaxAge * 4 >= StartTime
<1> PICK a \in Nat : a = MaxAge
    BY MessagesAssumption DEF MessagesAssumption
<1> PICK s \in Nat : s = StartTime
    BY MessagesAssumption DEF MessagesAssumption
<1>1. Store!Expired(t) <=> (t \div 4) * 4 < s - a * 4
    BY DEF Store!Expired, Store!Day
<1>2. PICK q \in Int : q = t \div 4
    OBVIOUS
<1>3. 4 * q <= t /\ t < 4 * q + 4
    BY <1>2
<1>4. Store!Expired(t) <=> q * 4 < s - a * 4
    BY <1>1, <1>2
<1>5. QED BY <1>3, <1>4

LEMMA StoreInit == ASSUME Store!Init PROVE StoreInv
<1>1. now = StartTime /\ now \in Nat /\ now >= StartTime
    BY MessagesAssumption DEF MessagesAssumption, Store!Init
<1>2. db = Store!NoDb /\ removed = {t \in OldFiles : Store!Expired(t)}
    BY DEF Store!Init
<1>3. busy \in [Workers -> Packable \cup {<<>>}]
    BY DEF Store!Init
<1>4. ASSUME NEW p \in DOMAIN files PROVE Young(p) /\ files[p] \in Seq(Rows)
    <2>1. files = [x \in {Store!Databases(t) : t \in OldFiles \ removed} |-> <<>>]
        BY Zenon DEF Store!Init
    <2>2. PICK t \in OldFiles \ removed : p = Store!Databases(t)
        BY <2>1
    <2>3. t \in Nat /\ ~ Store!Expired(t)
        BY <1>2, MessagesAssumption DEF MessagesAssumption
    <2>4. t + MaxAge * 4 >= StartTime
        BY <2>3, ExpiredAt
    <2>5. files[p] = <<>>
        BY <2>1
    <2>6. <<>> \in Seq(Rows)
        OBVIOUS
    <2> QED BY <2>2, <2>3, <2>4, <2>5, <2>6 DEF Young
<1>5. QED BY <1>1, <1>2, <1>3, <1>4 DEF StoreInv

LEMMA StoreStep == ASSUME StoreInv, Store!Next PROVE StoreInv'
<1>0. /\ now \in Nat /\ now >= StartTime
      /\ db = Store!NoDb \/ Young(db)
      /\ \A p \in DOMAIN files : Young(p) /\ files[p] \in Seq(Rows)
      /\ busy \in [Workers -> Packable \cup {<<>>}]
      /\ removed = {t \in OldFiles : Store!Expired(t)}
    BY DEF StoreInv
<1>1. CASE Store!Tick
    <2>1. now' = now + 1 /\ UNCHANGED <<db, files, busy, removed>>
        BY <1>1, Zenon DEF Store!Tick
    <2>2. now' \in Nat /\ now' >= StartTime
        BY <1>0, <2>1, MessagesAssumption DEF MessagesAssumption
    <2> QED BY <1>0, <2>1, <2>2, Zenon DEF StoreInv
<1>2. CASE Store!Toggle \/ Store!ScanArchives \/ \E i \in 0 .. 2 : Store!Choose(i)
    <2>1. UNCHANGED <<now, db, files, busy, removed>>
        BY <1>2, Zenon DEF Store!Toggle, Store!ScanArchives, Store!Choose
    <2> QED BY <1>0, <2>1, Zenon DEF StoreInv
<1>3. CASE Store!OpenSession
    <2>1. /\ db' = Store!Databases(now) /\ UNCHANGED <<now, busy, removed>>
          /\ files' = [p \in DOMAIN files \cup {db'} |-> IF p \in DOMAIN files THEN files[p] ELSE <<>>]
        BY <1>3, Zenon DEF Store!OpenSession
    <2>2. Young(db')
        <3>1. now + MaxAge * 4 >= StartTime
            BY <1>0, MessagesAssumption DEF MessagesAssumption
        <3> QED BY <1>0, <2>1, <3>1 DEF Young
    <2>3. <<>> \in Seq(Rows)
        OBVIOUS
    <2>4. \A p \in DOMAIN files' : Young(p) /\ files'[p] \in Seq(Rows)
        BY <1>0, <2>1, <2>2, <2>3
    <2> QED BY <1>0, <2>1, <2>2, <2>4, Zenon DEF StoreInv
<1>4. CASE Store!CloseCurrent
    <2>1. db' = Store!NoDb /\ UNCHANGED <<now, files, busy, removed>>
        BY <1>4, Zenon DEF Store!CloseCurrent
    <2> QED BY <1>0, <2>1, Zenon DEF StoreInv
<1>5. CASE \E w \in Workers, m \in Packable : Store!StoreCheck(w, m)
    <2>1. PICK w \in Workers, m \in Packable : Store!StoreCheck(w, m)
        BY <1>5
    <2>2. busy' = [busy EXCEPT ![w] = m] /\ UNCHANGED <<now, db, files, removed>>
        BY <2>1, Zenon DEF Store!StoreCheck
    <2>3. busy' \in [Workers -> Packable \cup {<<>>}]
        BY <1>0, <2>2
    <2> QED BY <1>0, <2>2, <2>3, Zenon DEF StoreInv
<1>6. CASE \E w \in Workers : Store!StoreInsert(w)
    <2>1. PICK w \in Workers : Store!StoreInsert(w)
        BY <1>6
    <2>2. /\ busy[w] # <<>> /\ busy' = [busy EXCEPT ![w] = <<>>]
          /\ UNCHANGED <<now, db, removed>>
        BY <2>1, Zenon DEF Store!StoreInsert
    <2>3. busy' \in [Workers -> Packable \cup {<<>>}] /\ busy[w] \in Packable
        BY <1>0, <2>2
    <2>4. \A p \in DOMAIN files' : Young(p) /\ files'[p] \in Seq(Rows)
        <3>1. CASE db = Store!NoDb
            <4>1. files' = files
                BY <2>1, <3>1, Zenon DEF Store!StoreInsert, Store!Writable
            <4> QED BY <1>0, <4>1, Zenon
        <3>2. CASE db # Store!NoDb
            <4> PICK row : row = [fields |-> busy[w], data |-> Store!Packed(busy[w])]
                OBVIOUS
            <4> PICK rows : rows = IF db \in DOMAIN files THEN files[db] ELSE <<>>
                OBVIOUS
            <4>1. files' = [p \in DOMAIN files \cup {db} |-> IF p = db THEN Append(rows, row) ELSE files[p]]
                BY <2>1, <3>2, Zenon DEF Store!StoreInsert, Store!Writable
            <4>2. row \in Rows
                BY <2>3, Zenon DEF Rows
            <4>3. <<>> \in Seq(Rows)
                OBVIOUS
            <4>4. rows \in Seq(Rows)
                BY <1>0, <4>3, Zenon
            <4>5. Append(rows, row) \in Seq(Rows)
                BY <4>2, <4>4
            <4>6. Young(db)
                BY <1>0, <3>2
            <4> QED BY <1>0, <4>1, <4>5, <4>6
        <3> QED BY <3>1, <3>2
    <2> QED BY <1>0, <2>2, <2>3, <2>4, Zenon DEF StoreInv
<1>7. QED BY <1>1, <1>2, <1>3, <1>4, <1>5, <1>6, Zenon DEF Store!Next

LEMMA StoreAlways == SumSpec => []StorePart
<1>1. SumInit => StorePart
    BY StoreInit DEF SumInit, StorePart
<1>2. StorePart /\ [SumNext]_sumVars => StorePart'
    <2> SUFFICES ASSUME StorePart, [SumNext]_sumVars, part' = "archives"
                 PROVE  StoreInv'
        BY DEF StorePart
    <2>1. CASE UNCHANGED sumVars
        <3>1. part' = part /\ UNCHANGED archives
            BY <2>1 DEF sumVars
        <3>2. StoreInv /\ UNCHANGED <<now, db, files, busy, removed>>
            BY <3>1, Zenon DEF archives, StorePart
        <3> QED BY <3>2, Zenon DEF StoreInv
    <2>2. CASE SumNext
        <3>1. part = "archives" /\ Store!Next
            BY <2>2 DEF SumNext
        <3> QED BY <3>1, StoreStep DEF StorePart
    <2> QED BY <2>1, <2>2
<1>3. QED BY <1>1, <1>2, PTL DEF SumSpec

\* MessageStore and archive loading: a worker writes to the open archive or to none, what
\* was packed without a cut reads back field by field, and the cleanup at start removes
\* what is older than maxDbAgeDays and nothing that is a day younger.
THEOREM ArchivesAreKept == SumSpec => []ArchiveIsKept
<1>1. StorePart => ArchiveIsKept
    <2> SUFFICES ASSUME StoreInv
                 PROVE  /\ Store!WritesOnlyToOpenSession /\ Store!PackedReadsBack
                        /\ Store!CleanupKeepsTheAge
        BY DEF StorePart, ArchiveIsKept, Store!ArchiveIsKept
    <2>0. /\ \A p \in DOMAIN files : Young(p) /\ files[p] \in Seq(Rows)
          /\ removed = {t \in OldFiles : Store!Expired(t)}
        BY DEF StoreInv
    <2>1. Store!WritesOnlyToOpenSession
        <3>1. ~ Young(Store!NoDb)
            BY DEF Young, Store!NoDb, Store!Databases
        <3> QED BY <2>0, <3>1 DEF Store!WritesOnlyToOpenSession
    <2>2. Store!PackedReadsBack
        <3> SUFFICES ASSUME NEW p \in DOMAIN files, NEW r \in DOMAIN files[p],
                            Len(files[p][r].data) < BufferSize,
                            \A i \in DOMAIN files[p][r].fields :
                                ~ Store!Contains(files[p][r].fields[i], "|"),
                            NEW i \in DOMAIN files[p][r].fields
                     PROVE  Store!Field(files[p][r].data, i) = files[p][r].fields[i]
            BY Zenon DEF Store!PackedReadsBack
        <3>1. files[p] \in Seq(Rows)
            BY <2>0
        <3>2. files[p][r] \in Rows
            BY <3>1
        <3>3. PICK m \in Packable : files[p][r] = [fields |-> m, data |-> Store!Packed(m)]
            BY <3>2 DEF Rows
        <3>4. files[p][r].fields = m /\ files[p][r].data = Store!Packed(m)
            BY <3>3
        <3>5. m \in Seq(Text) /\ m # <<>> /\ DOMAIN m = 1 .. Len(m)
            BY PackableAreTexts
        <3>6. BarFree(m, Len(m))
            BY <3>4, <3>5, Zenon DEF BarFree, Store!Contains
        <3> QED BY <3>4, <3>5, <3>6, PackedIsRead, Zenon
    <2>3. Store!CleanupKeepsTheAge
        <3>1. ASSUME NEW p \in DOMAIN files PROVE p[2] >= StartTime - MaxAge * 4
            <4>1. PICK t \in Nat : p = Store!Databases(t) /\ t + MaxAge * 4 >= StartTime
                BY <2>0 DEF Young
            <4>2. p[2] = t
                BY <4>1 DEF Store!Databases
            <4> QED BY <4>1, <4>2, MessagesAssumption DEF MessagesAssumption
        <3>2. ASSUME NEW t \in removed PROVE t < StartTime - (MaxAge - 1) * 4
            <4>1. t \in Nat /\ Store!Expired(t)
                BY <2>0, MessagesAssumption DEF MessagesAssumption
            <4>2. t + MaxAge * 4 < StartTime + 4
                BY <4>1, ExpiredAt
            <4> QED BY <4>1, <4>2, MessagesAssumption DEF MessagesAssumption
        <3> QED BY <3>1, <3>2 DEF Store!CleanupKeepsTheAge, Store!Day
    <2> QED BY <2>1, <2>2, <2>3
<1>2. QED BY <1>1, StoreAlways, PTL

-----------------------------------------------------------------------------
(* IQ recordings                                                           *)

\* The variables of IqRecorder behave as it says in every behaviour of the sum, so that what
\* IqRecorderProofs proves of Spec holds of what the run checks.
THEOREM RecorderInSum == SumSpec => Spec
<1>1. SumInit => Init
    BY Zenon DEF SumInit
<1>2. [SumNext]_sumVars => [Next]_vars
    <2>1. UNCHANGED recorder => UNCHANGED vars
        BY Zenon DEF recorder, vars, shared, reader, ui, history
    <2>2. UNCHANGED sumVars => UNCHANGED recorder
        BY Zenon DEF sumVars
    <2>3. SumNext => Next \/ UNCHANGED recorder
        BY Zenon DEF SumNext
    <2> QED BY <2>1, <2>2, <2>3
<1>3. QED BY <1>1, <1>2, PTL DEF SumSpec, Spec
=============================================================================
