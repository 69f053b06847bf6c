------------------------------ MODULE UsbBusInv ------------------------------
(***************************************************************************)
(* What the IN direction of the packet engine relies on: the scenarios     *)
(* whose faults it masks, and the inductive invariant that shows that it   *)
(* does.  The invariant ties together the engine, the packet buffer, the   *)
(* host, the wire and the streams; UsbBusInpProofs proves it.              *)
(***************************************************************************)
EXTENDS UsbBus

\* A packet fits into the buffer, with at least a word to spare (packets carry
\* up to 1024 bytes, the buffer has 2048 words).
ASSUME BufferAssumption == MaxPkt < BufSize

\* The mark of an empty wire is no packet.
ASSUME WireAssumption == NoPkt \notin TxPacket

(* Classes of scenarios.                                                   *)
NoInp(s)   == \A e \in EP : s.inp[e] = <<>>
NoSetup(s) == \A e \in EP : \A i \in DOMAIN s.outPkts[e] : s.outPkts[e][i].tok = "OUT"

\* Nothing a device sends in an IN transaction, and no answer to it, is lost.
Lossless(s) == s.lose \intersect {"dat", "ack"} = {}

AbortsMasked(s) == s.aborts = 0 \/ (s.aborts = 1 /\ Lossless(s))

\* A damaged OUT packet leaves its words in the buffer; the part of a packet
\* kept after an abort is replayed right only once; a cleared halt resets the
\* toggles, which repeats a packet whose acknowledgement was lost.
Maskable(s) ==
  /\ NoSetup(s) /\ "crc" \notin s.lose /\ AbortsMasked(s)
  /\ "ack" \notin s.lose \/ \A e \in EP : <<"inp", e>> \notin s.halts

\* A stream f can be cut into packets none of which is empty: S holds the
\* places where one begins, and the end.
Cut(f, S) ==
  /\ S \subseteq 1 .. Len(f) + 1 /\ 1 \in S
  /\ f # <<>> => f[Len(f)] = DON
  /\ \A p \in S : p <= Len(f) => f[p] # DON
  /\ \A p \in S, q \in 1 .. Len(f) + 1 :
       (p < q /\ \A i \in p .. q - 1 : f[i] # DON) =>
          /\ q = p + MaxPkt => q \in S
          /\ (q < p + MaxPkt /\ q <= Len(f) /\ f[q] = DON) => q + 1 \in S

Splits(f) == \E S \in SUBSET (1 .. Len(f) + 1) : Cut(f, S) /\ Len(f) + 1 \in S

\* The owner of an empty packet in the buffer is not recorded: it must be the
\* one the buffer had before, or there must not be any.
SoleFrom(s, e) ==
  /\ \A f \in EP \ {e} : s.inp[f] = <<>>
  /\ s.inp[e] # <<>> => (s.inp[e][1] # <<>> /\ s.inp[e][1][1] # DON)

FramesSplit(s) ==
  \A e \in EP : s.inp[e] # <<>> =>
     e \notin Unframed /\ \A i \in DOMAIN s.inp[e] : Splits(s.inp[e][i])

InpMasked(s) ==
  \/ NoInp(s)
  \/ Maskable(s) /\ ((\E e \in EP : SoleFrom(s, e)) \/ FramesSplit(s))
-----------------------------------------------------------------------------
(* The engine in an IN transaction: a packet is going out, or is out and    *)
(* waits for its acknowledgement.                                          *)
Sending == Phase \in {"DATA_INP", "DATA_REP"} \/ (Phase = "WAIT_DON" /\ r.donFlg)
Sent    == \/ Phase \in {"WAIT_FS_SE0", "WAIT_FS_J", "WAIT_FS_K", "WAIT_ACK"}
           \/ Phase = "WAIT_DON" /\ ~r.donFlg
OnWire  == wire # NoPkt /\ wire.pid \in DatPids

Taken(e) == Len(offered[e]) - Len(src[e])
Lacks(e) == Taken(e) - Len(rcv[e])
Behind(e) == hTglInp[e] # r.dataTglInp[e]       \* the engine lacks the host's ACK

\* What is left of the scenario.
EnvInv ==
  /\ NoSetup(env) /\ "crc" \notin env.lose /\ AbortsMasked(env)
  /\ "ack" \notin env.lose \/ \A e \in EP : <<"inp", e>> \notin env.halts /\ e \notin halted.inp

\* Host and engine are in the same transaction.
AlignInv ==
  /\ Sending => /\ h.st = "inp" /\ h.ep = r.epIdx /\ wire = NoPkt
                /\ r.pid = DatPid(r.dataTglInp[r.epIdx])
  /\ OnWire  => /\ Sent /\ h.st = "inp" /\ h.ep = r.epIdx
                /\ wire.pid = DatPid(r.dataTglInp[r.epIdx])
  /\ h.st = "ack" => Sent /\ h.ep = r.epIdx /\ wire = NoPkt /\ Behind(r.epIdx)
  /\ (Sent /\ Lossless(env)) => (OnWire \/ h.st = "ack")

\* The registers that name the owner of the buffer.
OwnInv ==
  /\ BufBusy => ~r.retryExpired
  /\ (Phase \in InpStates /\ BufBusy) => r.bufInpEpIdx = r.epIdx
  /\ (Phase = "DATA_INP" /\ ~BufBusy) => src[r.epIdx] # <<>>
  /\ Phase \notin InpStates \union {"DATA_OUT"} => r.bufRWIdx = r.bufVldIdx
  /\ Phase \in InpStates \ {"DATA_INP", "DATA_REP"} => r.bufInpVld
  /\ r.tok # "SETUP"

\* What the host has is the start of what was offered, what the endpoint still
\* offers is the end of it.
StreamInv ==
  \A e \in EP :
    /\ Len(src[e]) <= Len(offered[e]) /\ Len(rcv[e]) <= Taken(e)
    /\ \A i \in 1 .. Len(rcv[e]) : rcv[e][i] = offered[e][i]
    /\ \A i \in 1 .. Len(src[e]) : src[e][i] = offered[e][Taken(e) + i]

\* Only the owner of the buffer may be behind: with a packet the host lacks, or
\* with one it has, complete, of which the engine does not know that.
TglInv ==
  \A e \in EP :
    /\ Lacks(e) > 0 => BufBusy /\ r.bufInpEpIdx = e
    /\ Behind(e) => r.bufInpVld /\ r.bufInpEpIdx = e /\ Lacks(e) = 0
    /\ ("ack" \notin env.lose /\ Behind(e)) => h.st = "ack" /\ h.ep = e

\* The i-th item the host lacks, and the k bytes of the packet it begins with.
Next1(e, i) == offered[e][Len(rcv[e]) + i]

Shape(e, k) ==
  /\ \A i \in 1 .. k : Next1(e, i) # DON
  /\ IF r.bufInpVld
     THEN \/ Lacks(e) = k /\ (e \in Unframed \/ k = MaxPkt)
          \/ Lacks(e) = k + 1 /\ e \notin Unframed /\ k < MaxPkt /\ Next1(e, k + 1) = DON
     ELSE Lacks(e) = k /\ k < MaxPkt /\ (r.bufInpPart <=> k > 0)

Pos(k) == (r.bufVldIdx + k) % BufSize

Stores(e, k) == \A i \in 1 .. k : mem[Pos(i - 1)].dat = Next1(e, i)
Carries(s, e, k) == Len(s) = k /\ \A i \in 1 .. k : s[i] = Next1(e, i)
Exact(e, k) == r.bufRWIdx = Pos(k) /\ Stores(e, k)

\* No more fault can make the engine send the packet once more.
Blind == env.aborts = 0 /\ Lossless(env)

TxNow == IF r.state = "WAIT_TX" THEN <<>> ELSE tx

Holds(e, k) ==
  /\ Phase \notin InpStates =>
       r.bufEndIdx = Pos(k) /\ Stores(e, k) /\ (r.bufInpPart => Blind)
  /\ Phase = "DATA_REP" =>
       /\ r.bufEndIdx = Pos(k) /\ Stores(e, k) /\ (r.bufInpPart => Blind)
       /\ Len(TxNow) < k /\ Carries(TxNow, e, Len(TxNow))
       /\ r.bufRWIdx = Pos(Len(TxNow) + 1) /\ r.dataCounter = MaxPkt - 1 - Len(TxNow)
  /\ Phase = "DATA_INP" =>
       Carries(TxNow, e, k) /\ r.dataCounter = MaxPkt - 1 - k /\ (Exact(e, k) \/ Blind)
  /\ (Phase = "WAIT_DON" /\ r.donFlg) =>
       Carries(TxNow, e, k) /\ (Exact(e, k) \/ Blind)
  /\ Sent =>
       (OnWire => Carries(wire.dat, e, k)) /\ (Exact(e, k) \/ Blind)

Owner == IF Phase \in InpStates THEN r.epIdx ELSE r.bufInpEpIdx

DataInv ==
  ((BufBusy \/ Phase = "DATA_INP") /\ ~Behind(Owner)) =>
     \E k \in 0 .. MaxPkt : Shape(Owner, k) /\ Holds(Owner, k)

\* The invariant of the IN direction.
InpInv == EnvInv /\ AlignInv /\ OwnInv /\ StreamInv /\ TglInv /\ DataInv
-----------------------------------------------------------------------------
(* Empty packets, the owner of which the buffer does not record.           *)
Owns(e) == r.bufInpEpIdx = e /\ ~r.retryExpired

EmptyOwned ==
  ~BufBusy =>
     /\ \A e \in r.lstPktFullSz \intersect Unframed : Owns(e)
     /\ (Phase = "DATA_INP" /\ Don(r.epIdx)) => Owns(r.epIdx)

\* One endpoint, and its first packet is not empty.
SoleInv(e) ==
  /\ \A f \in EP \ {e} : src[f] = <<>> /\ todo[f] = <<>>
  /\ Phase \in InpStates => r.epIdx = e
  /\ \/ Owns(e) /\ r.lstPktFullSz \subseteq {e}
     \/ /\ ~BufBusy /\ r.lstPktFullSz = {}
        /\ src[e] # <<>> => Head(src[e]) # DON
        /\ (src[e] = <<>> /\ todo[e] # <<>>) => todo[e][1] # <<>> /\ todo[e][1][1] # DON

\* Frames without empty packets.
Mark(e) == IF r.bufInpPart /\ r.bufInpEpIdx = e THEN Len(rcv[e]) + 1 ELSE Taken(e) + 1

SplitInv ==
  /\ r.lstPktFullSz \intersect Unframed = {}
  /\ \A e \in EP :
       /\ (todo[e] # <<>> \/ offered[e] # <<>>) => e \notin Unframed
       /\ \A i \in DOMAIN todo[e] : Splits(todo[e][i])
       /\ \E S \in SUBSET (1 .. Len(offered[e]) + 1) :
             Cut(offered[e], S) /\ Len(offered[e]) + 1 \in S /\ Mark(e) \in S

\* Endpoints that never offer anything.
NoInpInv ==
  /\ NoInp(env)
  /\ \A e \in EP : todo[e] = <<>> /\ src[e] = <<>> /\ offered[e] = <<>> /\ rcv[e] = <<>>
  /\ Phase \notin InpStates /\ ~BufBusy /\ h.st \notin {"inp", "ack"}

\* What holds in every scenario whose faults the IN direction masks.
MaskedInv == \/ NoInpInv
             \/ InpInv /\ ((\E e \in EP : SoleInv(e)) \/ SplitInv)
-----------------------------------------------------------------------------
(* Transactions without an answer.                                         *)
NoOut(s) == \A e \in EP : s.outPkts[e] = <<>>

\* A packet lost in an OUT transaction, and a token after lost IN data or a
\* lost acknowledgement, leave the engine a packet behind the host for as long
\* as the host sends OUT packets.  SETUP goes to control endpoints only.
Answerable(s) ==
  /\ NoOut(s) \/ s.lose \subseteq {"hsk"}
  /\ \A e \in EP \ Control : \A i \in DOMAIN s.outPkts[e] : s.outPkts[e][i].tok = "OUT"

\* No fault is left that has not cost an answer; one is.
Even == nSilent <= nLost
Owed == nSilent + 1 <= nLost

\* The host waits: the engine prepares the answer, or it is on the wire.
Waiting == h.st \in {"inp", "hsk", "ping"}

Answering ==
  /\ Waiting /\ wire = NoPkt /\ Even
  /\ Phase = "HSK" \/ (h.st = "inp" /\ Sending)
Answered ==
  /\ Waiting /\ wire # NoPkt /\ Even
  /\ IF wire.pid \in DatPids THEN h.st = "inp" /\ Sent ELSE r.state = "IDLE"

\* It waits in vain, or for the next transaction.
Unanswered == h.st \in {"idle", "inp"} /\ Owed /\ (r.state = "IDLE" \/ (Sent /\ NoOut(env)))
Resting    == h.st = "idle" /\ Even /\ r.state = "IDLE"

\* It is about to send.
Talking ==
  /\ Even
  /\ \/ h.st = "ack" /\ Sent
     \/ h.st = "out" /\ r.state = "DATA_PID"
     \/ h.st = "pld" /\ r.state \in {"DATA_OUT", "DRAIN"}

AnswerInv ==
  /\ Answerable(env)
  /\ (hPing # {} \/ r.pid = "NYET" \/ (wire # NoPkt /\ wire.pid = "NYET")) => HiSpeed
  /\ NoOut(env) => h.st \in {"idle", "inp", "ack"}
  /\ Answering \/ Answered \/ (wire = NoPkt /\ (Unanswered \/ Resting \/ Talking))
=============================================================================
