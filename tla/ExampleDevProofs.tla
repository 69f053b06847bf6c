-------------------------- MODULE ExampleDevProofs --------------------------
(***************************************************************************)
(* Theorems about the example device's generator: whichever YAML files it  *)
(* is run with, however often, and wherever the runs end, a table that a   *)
(* run has completed is replaced by a run with -F only; and a function     *)
(* gets the same interfaces and endpoints in the sections of both speeds.  *)
(***************************************************************************)
EXTENDS ExampleDev, TLAPS

\* From open() until the table is written the file is no table.
Opened == pc = "write" => ~IsTable

\* The places of a run that AddFunction leads to.
LEMMA FunctionPlaces ==
  ASSUME NEW k \in DOMAIN Steps, AddFunction(k)
  PROVE  pc # "write" /\ pc' # "write" /\ file' = file
  <1>1. k \in 1 .. 5 /\ Len(Steps) = 5
    BY DEF Steps
  <1>2. \A j \in 1 .. 5 : Steps[j].pc # "write"
    BY DEF Steps
  <1>3. pc = Steps[k].pc /\ file' = file
    BY DEF AddFunction
  <1>4. pc' \in {"raised", "speed"} \/ (k # 5 /\ pc' = Steps[k + 1].pc)
    BY <1>1 DEF AddFunction
  <1>5. k # 5 => k + 1 \in 1 .. 5
    BY <1>1
  <1> QED BY <1>1, <1>2, <1>3, <1>4, <1>5

\* The other steps that do not touch the file.
LEMMA OtherPlaces ==
  ASSUME Validate \/ MkDevice \/ NextSpeed \/ Wrapup \/ Rerun
  PROVE  pc' # "write" /\ file' = file
  <1>1. Validate => pc' # "write" /\ file' = file
    BY DEF Validate
  <1>2. MkDevice => pc' # "write" /\ file' = file
    BY DEF MkDevice
  <1>3. NextSpeed => pc' # "write" /\ file' = file
    BY DEF NextSpeed
  <1>4. Wrapup => pc' # "write" /\ file' = file
    BY DEF Wrapup
  <1>5. Rerun => pc' # "write" /\ file' = file
    BY DEF Rerun
  <1> QED BY <1>1, <1>2, <1>3, <1>4, <1>5

LEMMA OpenedStep == Opened /\ [Next]_vars => Opened'
  <1> SUFFICES ASSUME Opened, [Next]_vars PROVE Opened'
    OBVIOUS
  <1>1. CASE Validate \/ MkDevice \/ NextSpeed \/ Wrapup \/ Rerun
    BY <1>1, OtherPlaces DEF Opened
  <1>2. CASE Write \/ Kill
    BY <1>2 DEF Write, Kill, Opened
  <1>3. CASE Open
    <2>1. pc' = "write" => file' = Partial
      BY <1>3 DEF Open
    <2> QED BY <2>1 DEF Opened, IsTable
  <1>4. CASE \E k \in DOMAIN Steps : AddFunction(k)
    BY <1>4, FunctionPlaces DEF Opened
  <1>5. CASE UNCHANGED vars
    BY <1>5 DEF vars, Opened, IsTable
  <1> QED BY <1>1, <1>2, <1>3, <1>4, <1>5 DEF Next

\* A step that changes a complete table belongs to a run with -F.
LEMMA KeptByStep == Opened /\ [Next]_vars => (IsTable /\ ~force => file' = file)
  <1> SUFFICES ASSUME Opened, [Next]_vars, IsTable, ~force PROVE file' = file
    OBVIOUS
  <1>1. CASE Validate \/ MkDevice \/ NextSpeed \/ Wrapup \/ Rerun \/ Kill
    BY <1>1, OtherPlaces DEF Kill
  <1>2. CASE Write
    BY <1>2 DEF Write, Opened
  <1>3. CASE Open
    BY <1>3 DEF Open, IsTable
  <1>4. CASE \E k \in DOMAIN Steps : AddFunction(k)
    BY <1>4, FunctionPlaces
  <1>5. CASE UNCHANGED vars
    BY <1>5 DEF vars
  <1> QED BY <1>1, <1>2, <1>3, <1>4, <1>5 DEF Next

\* A complete table is only replaced by a run with -F (exclusive creation in
\* genAppCfgPkgBody.py).
THEOREM TableKeptHolds == Spec => TableKept
  <1>1. Init => Opened
    BY DEF Init, Opened
  <1> QED BY <1>1, OpenedStep, KeptByStep, PTL DEF Spec, TableKept
-----------------------------------------------------------------------------
(* The numbers of interfaces and endpoints.                                *)

\* What the functions before the k-th one take: two interfaces each, one or two
\* endpoint addresses.
Takes(y, k, n) == IF Enabled(y, Steps[k].fcn) THEN n ELSE 0
Interfaces(y, k) ==
  LET n(j) == IF j < k THEN Takes(y, j, 2) ELSE 0
  IN  n(1) + n(2) + n(3) + n(4) + n(5)
Addresses(y, k) ==
  LET n(j) == IF j < k THEN Takes(y, j, IF j \in {2, 3} THEN 1 ELSE 2) ELSE 0
  IN  1 + n(1) + n(2) + n(3) + n(4) + n(5)

\* A function is numbered by those before it, at every speed.
NumbersAlike ==
  /\ \A k \in DOMAIN Steps :
       pc = Steps[k].pc => ifcNumber = Interfaces(yml, k) /\ epAddr = Addresses(yml, k)
  /\ pc = "speed" => ifcNumber = Interfaces(yml, 6) /\ epAddr = Addresses(yml, 6)

\* Which speed a section is of.
InSpeed ==
  pc \in {Steps[k].pc : k \in DOMAIN Steps} \cup {"speed"} => speed \in 1 .. Len(speeds(yml))

Numbering == Places /\ NumbersAlike /\ InSpeed

LEMMA StepsLemma ==
  /\ DOMAIN Steps = 1 .. 5 /\ Len(Steps) = 5
  /\ Steps[1] = [pc |-> "acm", fcn |-> "functionACM"]
  /\ Steps[2] = [pc |-> "spkr", fcn |-> "functionUAC2I2SOutput"]
  /\ Steps[3] = [pc |-> "mic", fcn |-> "functionUAC2Input"]
  /\ Steps[4] = [pc |-> "ecm", fcn |-> "functionECM"]
  /\ Steps[5] = [pc |-> "ncm", fcn |-> "functionNCM"]
  /\ {Steps[k].pc : k \in DOMAIN Steps} = {"acm", "spkr", "mic", "ecm", "ncm"}
  <1>1. /\ DOMAIN Steps = 1 .. 5 /\ Len(Steps) = 5
        /\ Steps[1] = [pc |-> "acm", fcn |-> "functionACM"]
        /\ Steps[2] = [pc |-> "spkr", fcn |-> "functionUAC2I2SOutput"]
        /\ Steps[3] = [pc |-> "mic", fcn |-> "functionUAC2Input"]
        /\ Steps[4] = [pc |-> "ecm", fcn |-> "functionECM"]
        /\ Steps[5] = [pc |-> "ncm", fcn |-> "functionNCM"]
    BY DEF Steps
  <1>2. {Steps[k].pc : k \in DOMAIN Steps} = {"acm", "spkr", "mic", "ecm", "ncm"}
    BY <1>1
  <1> QED BY <1>1, <1>2

\* One function more.
LEMMA TakesLemma ==
  ASSUME NEW y, NEW k \in 1 .. 5
  PROVE  /\ Interfaces(y, 1) = 0 /\ Addresses(y, 1) = 1
         /\ Interfaces(y, k) \in 0 .. 2 * k - 2
         /\ Interfaces(y, k + 1) = Interfaces(y, k) + Takes(y, k, 2)
         /\ Addresses(y, k) \in 1 .. 7
         /\ Addresses(y, k + 1) = Addresses(y, k) + Takes(y, k, IF k \in {2, 3} THEN 1 ELSE 2)
         /\ Interfaces(y, k + 1) \in 0 .. 10 /\ Addresses(y, k + 1) \in 1 .. 9
  <1>1. \A j \in 1 .. 5, n \in {1, 2} : Takes(y, j, n) \in {0, n}
    BY DEF Takes
  <1>2. /\ Takes(y, 1, 2) \in {0, 2} /\ Takes(y, 2, 2) \in {0, 2} /\ Takes(y, 3, 2) \in {0, 2}
        /\ Takes(y, 4, 2) \in {0, 2} /\ Takes(y, 5, 2) \in {0, 2}
        /\ Takes(y, 2, 1) \in {0, 1} /\ Takes(y, 3, 1) \in {0, 1}
    BY <1>1
  <1>3. k = 1 \/ k = 2 \/ k = 3 \/ k = 4 \/ k = 5
    OBVIOUS
  <1> QED BY <1>2, <1>3 DEF Interfaces, Addresses

\* A function is added or not, at the next numbers.
LEMMA FunctionNumbers ==
  ASSUME NEW k \in DOMAIN Steps, AddFunction(k), Numbering
  PROVE  Numbering'
  <1>1. /\ k \in 1 .. 5 /\ pc = Steps[k].pc /\ yml' = yml /\ runs' = runs /\ speed' = speed
        /\ ifcNumber = Interfaces(yml, k) /\ epAddr = Addresses(yml, k)
    BY StepsLemma DEF AddFunction, Unchanged, Numbering, NumbersAlike
  <1>2. \/ pc' = "raised" /\ ifcNumber' = ifcNumber /\ epAddr' = epAddr
        \/ /\ pc' = IF k = 5 THEN "speed" ELSE Steps[k + 1].pc
           /\ ifcNumber' = ifcNumber + Takes(yml, k, 2)
           /\ epAddr' = epAddr + Takes(yml, k, IF k \in {2, 3} THEN 1 ELSE 2)
    <2>1. CASE ~Enabled(yml, Steps[k].fcn)
      <3>1. /\ pc' = IF k = 5 THEN "speed" ELSE Steps[k + 1].pc
            /\ ifcNumber' = ifcNumber /\ epAddr' = epAddr
        BY <2>1, StepsLemma DEF AddFunction
      <3>2. ifcNumber + 0 = ifcNumber /\ epAddr + 0 = epAddr
        BY DEF Numbering, Places
      <3> QED BY <2>1, <3>1, <3>2 DEF Takes
    <2>2. CASE Enabled(yml, Steps[k].fcn) /\ pc' # "raised"
      <3>1. /\ pc' = IF k = 5 THEN "speed" ELSE Steps[k + 1].pc
            /\ ifcNumber' = ifcNumber + 2
            /\ epAddr' = epAddr + IF Steps[k].fcn \in {"functionUAC2I2SOutput", "functionUAC2Input"}
                                    THEN 1 ELSE 2
        BY <2>2, StepsLemma DEF AddFunction
      <3>2. Steps[k].fcn \in {"functionUAC2I2SOutput", "functionUAC2Input"} <=> k \in {2, 3}
        BY <1>1, StepsLemma
      <3> QED BY <2>2, <3>1, <3>2 DEF Takes
    <2>3. CASE Enabled(yml, Steps[k].fcn) /\ pc' = "raised"
      <3>1. pc' # "speed" /\ \A j \in 1 .. 5 : pc' # Steps[j].pc
        BY <2>3, StepsLemma
      <3>2. k # 5 => k + 1 \in 1 .. 5
        BY <1>1
      <3> QED BY <1>1, <2>3, <3>1, <3>2, StepsLemma DEF AddFunction
    <2> QED BY <2>1, <2>2, <2>3
  <1>3. CASE pc' = "raised" /\ ifcNumber' = ifcNumber /\ epAddr' = epAddr
    <2>1. Places'
      BY <1>1, <1>3 DEF Numbering, Places, Ended
    <2>2. pc' # "speed" /\ \A j \in DOMAIN Steps : pc' # Steps[j].pc
      BY <1>3, StepsLemma
    <2> QED BY <2>1, <2>2 DEF Numbering, NumbersAlike, InSpeed
  <1>4. CASE /\ pc' = IF k = 5 THEN "speed" ELSE Steps[k + 1].pc
             /\ ifcNumber' = ifcNumber + Takes(yml, k, 2)
             /\ epAddr' = epAddr + Takes(yml, k, IF k \in {2, 3} THEN 1 ELSE 2)
    <2>1. /\ ifcNumber' = Interfaces(yml', k + 1) /\ epAddr' = Addresses(yml', k + 1)
          /\ ifcNumber' \in 0 .. 10 /\ epAddr' \in 1 .. 9
      BY <1>1, <1>4, TakesLemma
    <2>2. pc' \in {"acm", "spkr", "mic", "ecm", "ncm", "speed"}
      BY <1>1, <1>4, StepsLemma
    <2>3. Places'
      BY <1>1, <2>1, <2>2, StepsLemma DEF Numbering, Places
    <2>4. \A j \in 1 .. 5 : pc' = Steps[j].pc => j = k + 1
      <3>1. CASE k = 5
        BY <1>4, <3>1, StepsLemma
      <3>2. CASE k # 5
        <4>1. pc' = Steps[k + 1].pc /\ k + 1 \in 1 .. 5
          BY <1>1, <1>4, <3>2
        <4>2. \A i, j \in 1 .. 5 : Steps[i].pc = Steps[j].pc => i = j
          BY StepsLemma
        <4> QED BY <4>1, <4>2
      <3> QED BY <3>1, <3>2
    <2>5. pc' = "speed" => k = 5
      BY <1>1, <1>4, StepsLemma
    <2>6. NumbersAlike'
      BY <2>1, <2>4, <2>5, StepsLemma DEF NumbersAlike
    <2>7. InSpeed'
      BY <1>1, StepsLemma DEF Numbering, InSpeed
    <2> QED BY <2>3, <2>6, <2>7 DEF Numbering
  <1> QED BY <1>2, <1>3, <1>4

\* The places outside the list of functions.
LEMMA RunPlaces ==
  ASSUME Places, UNCHANGED <<yml, runs, speed, ifcNumber, epAddr>>,
         pc' \in {"device", "wrapup", "open", "write"} \cup Ended
  PROVE  Numbering'
  <1>1. pc' # "speed" /\ \A k \in DOMAIN Steps : pc' # Steps[k].pc
    BY StepsLemma DEF Ended
  <1>2. Places'
    BY DEF Places, Ended
  <1> QED BY <1>1, <1>2, StepsLemma DEF Numbering, NumbersAlike, InSpeed

\* A section begins with the first function.
LEMMA SectionBegins ==
  ASSUME Places, yml' = yml, runs' = runs, speed' \in 1 .. Len(speeds(yml)),
         ifcNumber' = 0, epAddr' = 1, pc' = "acm"
  PROVE  Numbering'
  <1>1. \A k \in 1 .. 5 : pc' = Steps[k].pc => k = 1
    BY StepsLemma
  <1>2. Interfaces(yml', 1) = 0 /\ Addresses(yml', 1) = 1
    BY TakesLemma
  <1>3. Places'
    BY StepsLemma DEF Places
  <1> QED BY <1>1, <1>2, <1>3, StepsLemma DEF Numbering, NumbersAlike, InSpeed

LEMMA NumberingStep == Numbering /\ [Next]_vars => Numbering'
  <1> SUFFICES ASSUME Numbering, [Next]_vars PROVE Numbering'
    OBVIOUS
  <1>1. Places
    BY DEF Numbering
  <1>2. Len(speeds(yml)) \in {1, 2}
    BY DEF speeds
  <1>3. CASE Validate
    BY <1>1, <1>3, RunPlaces DEF Validate, Unchanged, Ended
  <1>4. CASE MkDevice
    <2>1. /\ yml' = yml /\ runs' = runs /\ speed' = 1
          /\ ifcNumber' = 0 /\ epAddr' = 1 /\ pc' = "acm"
      BY <1>4 DEF MkDevice, Unchanged
    <2>2. speed' \in 1 .. Len(speeds(yml))
      BY <1>2, <2>1
    <2> QED BY <1>1, <2>1, <2>2, SectionBegins
  <1>5. CASE \E k \in DOMAIN Steps : AddFunction(k)
    BY <1>5, FunctionNumbers
  <1>6. CASE NextSpeed
    <2>1. speed \in 1 .. Len(speeds(yml)) /\ yml' = yml /\ runs' = runs
      BY <1>6 DEF NextSpeed, Unchanged, Numbering, InSpeed
    <2>2. CASE speed < Len(speeds(yml))
      <3>1. speed' \in 1 .. Len(speeds(yml))
        BY <1>2, <1>6, <2>1, <2>2 DEF NextSpeed
      <3> QED BY <1>1, <1>6, <2>1, <2>2, <3>1, SectionBegins DEF NextSpeed
    <2>3. CASE ~(speed < Len(speeds(yml)))
      BY <1>1, <1>6, <2>1, <2>3, RunPlaces DEF NextSpeed
    <2> QED BY <2>2, <2>3
  <1>7. CASE Wrapup
    BY <1>1, <1>7, RunPlaces DEF Wrapup, Unchanged, Ended
  <1>8. CASE Open
    BY <1>1, <1>8, RunPlaces DEF Open, Unchanged, Ended
  <1>9. CASE Write \/ Kill
    BY <1>1, <1>9, RunPlaces DEF Write, Kill, Unchanged, Ended
  <1>10. CASE Rerun
    <2>1. pc' = "start" /\ speed' = 0 /\ ifcNumber' = 0 /\ epAddr' = 1 /\ runs' \in 1 .. MaxRuns
      BY <1>1, <1>10, MaxRunsAssumption DEF Rerun, Places
    <2>2. Len(speeds(yml')) \in {1, 2}
      BY DEF speeds
    <2>3. Places'
      BY <2>1, <2>2 DEF Places
    <2>4. pc' # "speed" /\ \A k \in DOMAIN Steps : pc' # Steps[k].pc
      BY <2>1, StepsLemma
    <2> QED BY <2>1, <2>3, <2>4, StepsLemma DEF Numbering, NumbersAlike, InSpeed
  <1>11. CASE UNCHANGED vars
    BY <1>11 DEF vars, Numbering, Places, NumbersAlike, InSpeed
  <1> QED BY <1>3, <1>4, <1>5, <1>6, <1>7, <1>8, <1>9, <1>10, <1>11 DEF Next

LEMMA NumberingInit == Init => Numbering
  <1> SUFFICES ASSUME Init PROVE Numbering
    OBVIOUS
  <1>1. Len(speeds(yml)) \in {1, 2}
    BY DEF speeds
  <1>2. Places
    BY <1>1, MaxRunsAssumption DEF Init, Places
  <1>3. pc # "speed" /\ \A k \in DOMAIN Steps : pc # Steps[k].pc
    BY StepsLemma DEF Init
  <1> QED BY <1>2, <1>3, StepsLemma DEF Numbering, NumbersAlike, InSpeed

\* Which interfaces and endpoint addresses mkExampleDevDescriptors() gives to a function
\* depends on the functions enabled before it and not on the speed: the firmware,
\* which looks them up in the first section, is wired for the second one as well.
\* They stay in the range of five functions, so that no endpoint address exceeds 15.
THEOREM NumbersAlikeHolds == Spec => [](Places /\ NumbersAlike)
  <1>1. Numbering => Places /\ NumbersAlike
    BY DEF Numbering
  <1> QED BY NumberingInit, NumberingStep, <1>1, PTL DEF Spec
=============================================================================
