------------------------------ MODULE MCUsbBus ------------------------------
(***************************************************************************)
(* The scenarios TLC runs UsbBus with.  Endpoint 0 is the control pipe,    *)
(* 1 and 3 have framed IN streams, that of 2 is unframed; a packet carries *)
(* at most two bytes, the packet buffer has eight words.  Bytes are        *)
(* distinct, so that every confusion of two of them is seen.               *)
(***************************************************************************)
EXTENDS UsbBusOutInv

None  == [e \in EP |-> <<>>]
Quiet == [inp |-> None, outPkts |-> None, faults |-> 0, lose |-> {}, aborts |-> 0,
          halts |-> {}, lag |-> FALSE]
For(e, x)        == [None EXCEPT ![e] = x]
For2(e, x, f, y) == [None EXCEPT ![e] = x, ![f] = y]
Out(s)   == [tok |-> "OUT", dat |-> s]
Setup(s) == [tok |-> "SETUP", dat |-> s]
-----------------------------------------------------------------------------
(* Faults the engine must mask.                                            *)
LossyFramed   == [Quiet EXCEPT !.inp = For(1, << <<11, 12, 13, DON>>, <<DON>>, <<14, 15, DON>> >>),
                               !.faults = 2, !.lose = {"tok", "dat", "ack"}]
LossyUnframed == [Quiet EXCEPT !.inp = For(2, << <<21>>, <<22, 23, 24>>, <<25>> >>),
                               !.faults = 2, !.lose = {"tok", "dat", "ack"}]
LossyTwo      == [Quiet EXCEPT !.inp = For2(1, << <<11, 12, 13, DON>> >>,
                                            3, << <<31, DON>>, <<32, DON>> >>),
                               !.faults = 2, !.lose = {"tok", "dat", "ack"}]
LossyOut      == [Quiet EXCEPT !.outPkts = For2(1, <<Out(<<1, 2>>), Out(<<3>>), Out(<<>>)>>,
                                                2, <<Out(<<4>>), Out(<<5, 6>>)>>),
                               !.faults = 1, !.lose = {"pid", "hsk"}]
LossyMixed    == [Quiet EXCEPT !.inp = For(3, << <<31, 32, 33, DON>> >>),
                               !.outPkts = For(3, <<Out(<<1, 2>>), Out(<<4>>)>>),
                               !.faults = 1, !.lose = {"pid", "dat", "ack"}]
LossyControl  == [Quiet EXCEPT !.outPkts = For2(0, <<Setup(<<1, 2>>), Out(<<3, 4>>), Out(<<5>>),
                                                     Setup(<<6, 7>>)>>, 1, <<Out(<<8>>)>>),
                               !.faults = 1, !.lose = {"pid"}]
AbortedFramed   == [Quiet EXCEPT !.inp = For(1, << <<11, 12, 13, DON>>, <<14, 15, DON>> >>),
                                 !.aborts = 1]
AbortedUnframed == [Quiet EXCEPT !.inp = For(2, << <<21>>, <<22, 23, 24>>, <<25>> >>),
                                 !.aborts = 1]
Halting         == [Quiet EXCEPT !.inp = For(1, << <<11, 12, 13, DON>>, <<14, 15, DON>> >>),
                                 !.outPkts = For(3, <<Out(<<1, 2>>), Out(<<3>>)>>),
                                 !.halts = {<<"inp", 1>>, <<"out", 3>>}]

Masked == {LossyFramed, LossyUnframed, LossyTwo, LossyOut, LossyMixed, LossyControl,
           AbortedFramed, AbortedUnframed, Halting}

\* The faults of these are of a kind both directions mask, with the toggles in agreement: they
\* satisfy the hypotheses of the theorems.
ASSUME MaskedScenarios == \A s \in Masked : InpMasked(s) /\ OutMasked(s) /\ ToggleMasked(s)
-----------------------------------------------------------------------------
(* For liveness: the host repeats what is lost until all is delivered.     *)
LiveFramed   == [Quiet EXCEPT !.inp = For(1, << <<11, 12, 13, DON>> >>),
                              !.faults = 2, !.lose = {"tok", "dat", "ack"}]
LiveUnframed == [Quiet EXCEPT !.inp = For(2, << <<21>>, <<22, 23>> >>),
                              !.faults = 1, !.lose = {"tok", "dat", "ack"}]
LiveTwo      == [Quiet EXCEPT !.inp = For2(1, << <<11, DON>> >>, 3, << <<31, DON>> >>),
                              !.faults = 1, !.lose = {"tok", "dat", "ack"}]
LiveOut      == [Quiet EXCEPT !.inp = For(3, << <<31, DON>> >>),
                              !.outPkts = For(1, <<Out(<<1, 2>>), Out(<<3>>)>>),
                              !.faults = 1, !.lose = {"hsk"}]

LiveAbort    == [Quiet EXCEPT !.inp = For2(1, << <<11, 12, DON>> >>, 2, << <<21>> >>),
                              !.aborts = 1]
Fruitful == {LiveFramed, LiveUnframed, LiveTwo, LiveOut, LiveAbort}

\* The host misses no more answers in these than their faults cost.
ASSUME FruitfulScenarios == \A s \in Fruitful : Answerable(s)
-----------------------------------------------------------------------------
(* Faults the engine does not mask.                                        *)
BadChecksum == {[Quiet EXCEPT !.outPkts = For(1, <<Out(<<1, 2>>), Out(<<3>>)>>),
                              !.faults = 1, !.lose = {"crc"}]}
LostZlp     == {[Quiet EXCEPT !.inp = For(1, << <<DON>>, <<11, DON>> >>),
                              !.faults = 1, !.lose = {"dat"}]}
AbortAndLoss == {[Quiet EXCEPT !.inp = For(1, << <<11, 12, 13, DON>>, <<14, 15, DON>> >>),
                               !.faults = 1, !.lose = {"dat"}, !.aborts = 1]}
Abandoned   == {[Quiet EXCEPT !.inp = For2(1, << <<11, DON>> >>, 3, << <<31, DON>> >>),
                              !.faults = 1, !.lose = {"dat", "ack"}]}

\* The host may stop polling endpoint 1 at any time.
AbandonSpec == Spec /\ FairnessFor(EP \ {1})

\* Usb2PktProc.vhd, RegType.retryTimeout: when a host gives an IN transaction up, the retry
\* timeout releases the buffer, and the other endpoints are served again.
OthersServed == <>[](rcv[3] = InpStream(3))
=============================================================================
