---------------------------- MODULE MCExampleDev ----------------------------
(* Instances of ExampleDev for TLC: the YAML files. *)
EXTENDS ExampleDev, TLC

None_ == <<>>
Entry(key, s) == IF s = None_ THEN None_ ELSE key :> s

Yml(sp, acm, spkr, mic, ecm, ncm) ==
  [dev |-> [idProduct |-> 1, speeds |-> sp, iProduct |-> <<80, 233>>],
   cfg |-> Entry("functionACM", acm) @@ Entry("functionUAC2I2SOutput", spkr)
             @@ Entry("functionUAC2Input", mic) @@ Entry("functionECM", ecm)
             @@ Entry("functionNCM", ncm)]

Off == [enabled |-> FALSE]
On  == [enabled |-> TRUE]
\* "123456789abc", "0A345678DEFf" with a newline.
Mac1 == <<49, 50, 51, 52, 53, 54, 55, 56, 57, 97, 98, 99>>
Mac2 == <<48, 65, 51, 52, 53, 54, 55, 56, 68, 69, 70, 102, 10>>
Group == [Mac1 EXCEPT ![2] = 51]

ACMs  == {On, [haveSendBreak |-> FALSE, iFunction |-> <<>>, maxPktSizeOUT |-> 32],
          [haveSendBreak |-> FALSE, haveLineState |-> FALSE]}
SPKRs == {On, [numChannels |-> 1, numBits |-> 16, maxSamplingFrequency |-> 44100],
          [numBits |-> 32, maxSamplingFrequency |-> 100000, haveMasterMute |-> FALSE,
           iFunction |-> <<80, 233>>]}
Names3 == << <<76>>, <<>>, <<82>> >>
MICRs == {On, [iInputTerminal |-> << <<76>> >>, numBits |-> 8, numChannels |-> 1,
               maxSamplingFrequency |-> 1],
          [iInputTerminal |-> Names3, iSelector |-> <<83>>, numBits |-> 17]}
ECMs  == {[iMACAddress |-> Mac1], [iMACAddress |-> Mac2, iInterfaceData |-> <<69>>]}
NCMs  == {[iMACAddress |-> Mac2], [iMACAddress |-> Mac1, numMulticastFilters |-> 300,
                                   haveDynamicMACAddress |-> TRUE],
          [iMACAddress |-> Mac1, numMulticastFilters |-> 33000]}

\* Every subset of the functions at every speed, and every variant of each among all others.
Subsets == {Yml(sp, IF "a" \in S THEN None_ ELSE Off, IF "s" \in S THEN On ELSE None_,
                IF "m" \in S THEN On ELSE None_, IF "e" \in S THEN [iMACAddress |-> Mac1] ELSE Off,
                IF "n" \in S THEN [iMACAddress |-> Mac2] ELSE None_) :
              sp \in {"dual", "high", "full"}, S \in SUBSET {"a", "s", "m", "e", "n"}}
Variants(sp) ==
  LET e == [iMACAddress |-> Mac1]
  IN  {Yml(sp, a, On, On, e, e) : a \in ACMs} \cup {Yml(sp, On, s, On, e, e) : s \in SPKRs}
        \cup {Yml(sp, On, On, m, e, e) : m \in MICRs} \cup {Yml(sp, On, On, On, x, e) : x \in ECMs}
        \cup {Yml(sp, On, On, On, e, n) : n \in NCMs}
\* No address: for one function, the other, or both.
NoAddress == LET e == [iMACAddress |-> Mac1]
                 n == [numMulticastFilters |-> 2, iInterfaceCtrl |-> <<78>>]
             IN  {Yml(sp, On, None_, None_, p[1], p[2]) : sp \in {"dual", "full"},
                    p \in {<<On, None_>>, <<None_, On>>, <<On, e>>, <<e, n>>, <<On, n>>}}

Many(n) == Yml("full", Off, None_, [iInputTerminal |-> [k \in 1 .. n |-> <<>>]], None_, None_)
Emoji   == [Yml("dual", On, None_, None_, None_, None_) EXCEPT !.dev.iProduct = <<55357, 56832>>]
Invalid == {[dev |-> [speeds |-> "full"], cfg |-> <<>>], Many(242), Emoji,
            Yml("full", On, On, None_, None_, [iMACAddress |-> Group]),
            Yml("full", On, None_, None_, [iMACAddress |-> <<49>>], None_),
            Yml("full", On, None_, None_, None_, [iMACAddress |-> <<>>]),
            Yml("full", On, [numBits |-> 33], None_, None_, None_)}

MCYmls == Subsets \cup Variants("dual") \cup Variants("full") \cup NoAddress \cup {Many(20)} \cup Invalid
MCLaterYmls == {Emoji, Yml("high", On, None_, On, None_, None_)}
=============================================================================
