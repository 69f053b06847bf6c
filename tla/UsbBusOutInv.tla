---------------------------- MODULE UsbBusOutInv ----------------------------
(***************************************************************************)
(* What the OUT direction of the packet engine relies on: the scenarios    *)
(* whose faults it masks, and the inductive invariant that shows that it   *)
(* does.  The invariant follows a packet from the host through the buffer  *)
(* and the reader to the endpoint, and its acknowledgement back;           *)
(* UsbBusOutProofs proves it.                                              *)
(***************************************************************************)
EXTENDS UsbBusInv

\* A packet and its header fit into the buffer, with a word to spare: the
\* reader takes equal indices for an empty buffer.
ASSUME HeaderAssumption == MaxPkt + 1 < BufSize

(* Classes of scenarios.                                                   *)
HasSetup(s, e) == \E i \in DOMAIN s.outPkts[e] : s.outPkts[e][i].tok = "SETUP"
HasOut(s, e)   == s.outPkts[e] # <<>>

\* The toggles do not show whether the engine has a packet whose
\* acknowledgement the host did not get: SETUP resets them, and so does the end
\* of a halt.
Fragile(s, e) == HasSetup(s, e) \/ <<"out", e>> \in s.halts

\* The acknowledgements of e are not lost, nor replaced by STALL after the data
\* were accepted (the halt of the IN direction does that).
Certain(s, e) == "hsk" \notin s.lose /\ <<"inp", e>> \notin s.halts

\* A damaged packet stays in the buffer, a lost token leaves the data to the
\* endpoint before; the reader must be done when the next packet comes.
OutPlain(s) ==
  /\ "crc" \notin s.lose /\ ~s.lag
  /\ "tok" \in s.lose => \A e \in EP : ~HasOut(s, e)
  /\ \A e \in EP : \A i \in DOMAIN s.outPkts[e] : Len(s.outPkts[e][i].dat) <= MaxPkt

\* An endpoint of which the engine has dropped an unacknowledged packet answers
\* STALL for good; that can only be endpoint 0, and happens only where the
\* faults of its IN direction are not masked.
OutMasked(s) ==
  /\ OutPlain(s)
  /\ \A e \in EP : Fragile(s, e) =>
       /\ Certain(s, e)
       /\ HasSetup(s, e) => <<"out", e>> \notin s.halts
       /\ e = 0 => InpMasked(s)

\* Host and engine also agree on toggles where no handshake is ever lost.
ToggleMasked(s) ==
  /\ OutMasked(s) /\ InpMasked(s)
  /\ "hsk" \notin s.lose => \A e \in EP : HasOut(s, e) => Certain(s, e)
-----------------------------------------------------------------------------
(* The acknowledgement.                                                    *)
\* The host is about to learn that its packet for e was accepted.
Positive(e) ==
  /\ h.st = "hsk" /\ h.ep = e
  /\ \/ Phase = "HSK" /\ r.pid = "ACK"
     \/ wire # NoPkt /\ wire.pid \in {"ACK", "NYET"}

\* The engine has the packet that the host still takes for unsent.
Took(e) ==
  /\ More(e)
  /\ IF OutPkt(e).tok = "SETUP" THEN Positive(e) ELSE hTglOut[e] # r.dataTglOut[e]

\* All that the engine has taken for e.
Total(e) == sent[e] \o (IF Took(e) THEN PktItems(OutPkt(e)) ELSE <<>>)

Sure(e) == Certain(env, e) /\ e \notin halted.inp \union r.deadInp

\* The endpoints S are those whose answers can be relied on.
SureInv(S) ==
  /\ \A e \in S : Sure(e)
  /\ \A e \in EP : Fragile(env, e) \/ e \in halted.out => e \in S
  /\ \A e \in EP : HasSetup(env, e) => e \notin halted.out /\ <<"out", e>> \notin env.halts
  /\ r.deadInp \subseteq {0} /\ (r.retryExpired => r.bufInpEpIdx = 0)

TookInv(S) ==
  \A e \in EP :
    /\ Positive(e) => Took(e)
    /\ hTglOut[e] # r.dataTglOut[e] => Took(e)
    /\ (Took(e) /\ e \in S) => Positive(e)
    /\ (Positive(e) /\ OutPkt(e).tok = "SETUP") => r.dataTglOut[e] = 1
-----------------------------------------------------------------------------
(* The transaction.                                                        *)
InStep == r.epIdx = h.ep /\ r.tok = OutPkt(h.ep).tok

TransInv ==
  /\ h.st = "out" => /\ wire = NoPkt
                     /\ r.state = "IDLE" \/ (r.state = "DATA_PID" /\ InStep)
  /\ h.st = "pld" => wire = NoPkt /\ r.state \in {"IDLE", "DATA_PID", "DATA_OUT", "DRAIN"}
  /\ h.st = "hsk" => r.state \in {"IDLE", "DATA_PID", "HSK"} \/ (r.state = "WAIT_TX" /\ Phase = "HSK")
  /\ Phase \in {"DATA_OUT", "DRAIN"} => h.st = "pld" /\ InStep
  /\ (Phase = "HSK" /\ h.st = "hsk") => wire = NoPkt /\ r.epIdx = h.ep
  /\ ((Phase = "HSK" /\ h.st = "hsk") \/ Phase \in {"DATA_OUT", "DRAIN"}) =>
        (r.pid = "ACK" => h.ep \notin halted.out)
  /\ Phase \in {"HSK", "DRAIN"} => r.pid # "NYET"
  /\ Phase = "DATA_OUT" => /\ r.pid = "ACK"
                           /\ r.tok = "SETUP" \/ hTglOut[h.ep] = r.dataTglOut[h.ep]
  /\ (Phase = "DRAIN" /\ r.pid = "ACK") =>
        r.tok # "SETUP" /\ hTglOut[h.ep] # r.dataTglOut[h.ep]

\* Only a packet in DATA_OUT is in the buffer without being released, its header
\* first; the reader rests except right after a packet was released.
BufOutInv ==
  /\ Phase \notin InpStates \union {"DATA_OUT"} => r.bufRWIdx = r.bufVldIdx
  /\ Phase = "DATA_OUT" => /\ r.bufRWIdx = Inc(r.bufVldIdx)
                           /\ mem[r.bufVldIdx] = HdrWord(r.tok, r.epIdx)
  /\ Phase \notin {"IDLE", "HSK"} => ReaderIdle
-----------------------------------------------------------------------------
(* The reader.                                                             *)
Rest(e)   == Len(Total(e)) - Len(out[e])
Due(e, i) == Total(e)[Len(out[e]) + i]

Ahead(pos, k) == (pos + k) % BufSize

PortOf(setup) == IF setup THEN "ctl" ELSE "out"

\* Behind the first n items due at e come w bytes at pos, the last in the buffer, and
\* a marker if the packet ends a transfer.
Comes(e, setup, n, pos, w, end) ==
  /\ r.bufVldIdx = Ahead(pos, w)
  /\ Rest(e) = n + w + (IF end THEN 1 ELSE 0)
  /\ \A i \in 1 .. w : /\ ~mem[Ahead(pos, i - 1)].hdr
                       /\ Due(e, n + i) = [port |-> PortOf(setup), item |-> mem[Ahead(pos, i - 1)].dat]
  /\ end => Due(e, n + w + 1) = [port |-> PortOf(setup), item |-> DON]

Only(e) == \A f \in EP \ {e} : Rest(f) = 0

\* Nothing to read.
Drained ==
  /\ rd.mst = "none" /\ rd.dataCounter >= MaxPkt /\ ~rd.isSetup
  /\ rd.bufRdIdx = r.bufVldIdx
  /\ \A e \in EP : Rest(e) = 0

\* A packet of w bytes is in the buffer, its header unread.
Unread(w) ==
  /\ rd.mst = "none" /\ rd.dataCounter >= MaxPkt /\ ~rd.isSetup
  /\ LET hd    == mem[rd.bufRdIdx]
         setup == hd.tok = "SETUP"
     IN  /\ hd.hdr /\ Only(hd.ep)
         /\ Comes(hd.ep, setup, 0, Ahead(rd.bufRdIdx, 1), w, w < MaxPkt \/ setup)

\* w bytes of the packet are unread, one may be offered.
Reading(w) ==
  LET n == IF rd.mst = "vld" THEN 1 ELSE 0
      c == rd.dataCounter + w
  IN  /\ rd.mst # "don" /\ c <= MaxPkt /\ Only(rd.epIdx)
      /\ rd.mst = "vld" => Due(rd.epIdx, 1) = [port |-> Port, item |-> rd.dat]
      /\ Comes(rd.epIdx, rd.isSetup, n, rd.bufRdIdx, w, c < MaxPkt \/ rd.isSetup)

\* The marker is offered.
Ending ==
  /\ rd.mst = "don" /\ rd.bufRdIdx = r.bufVldIdx /\ Only(rd.epIdx)
  /\ Rest(rd.epIdx) = 1 /\ Due(rd.epIdx, 1) = [port |-> Port, item |-> DON]

ReadInv == Drained \/ Ending \/ \E w \in 0 .. MaxPkt : Unread(w) \/ Reading(w)

\* What e has got is the start of what the engine has taken for it.
GotInv ==
  \A e \in EP : /\ Len(out[e]) <= Len(Total(e))
                /\ \A i \in 1 .. Len(out[e]) : out[e][i] = Total(e)[i]

\* The invariant of the OUT direction.
OutInv(S) ==
  OutPlain(env) /\ SureInv(S) /\ TookInv(S) /\ TransInv /\ BufOutInv /\ ReadInv /\ GotInv

\* What holds in every scenario whose faults the OUT direction masks.
OutMaskedInv == \E S \in SUBSET EP : OutInv(S) /\ (0 \in S => MaskedInv)

\* Without IN data, the toggles of the IN direction change with SETUP only.
SetupTgl ==
  \A e \in EP :
    /\ hTglInp[e] # r.dataTglInp[e] => Took(e) /\ OutPkt(e).tok = "SETUP"
    /\ (Positive(e) /\ OutPkt(e).tok = "SETUP") => r.dataTglInp[e] = 1

\* What holds where the toggles of both directions agree.
ToggleInv ==
  /\ \/ NoInpInv /\ SetupTgl
     \/ InpInv /\ ((\E e \in EP : SoleInv(e)) \/ SplitInv)
  /\ \E S \in SUBSET EP :
       OutInv(S) /\ ("hsk" \notin env.lose => \A e \in EP : HasOut(env, e) => e \in S)
=============================================================================
