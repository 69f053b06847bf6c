------------------------- MODULE DescContextProofs -------------------------
(***************************************************************************)
(* Theorems about DescContext: in every script, of any length, the strings *)
(* of the table are pairwise different and keep their indices, whichever   *)
(* calls of the script fail.                                               *)
(***************************************************************************)
EXTENDS DescContext, TLAPS

\* The string table of a context stays a sequence of strings without repetition;
\* the fields of the record are those of __init__.
Inv ==
  /\ DOMAIN ctx = {"descs", "strtbl", "wrapped"}
  /\ ctx.strtbl \in Seq(Strings)
  /\ UniqueStrings

\* The indices of the old table hold what they held.
Kept(old, new) == \A k \in DOMAIN old : k \in DOMAIN new /\ new[k] = old[k]

\* addString() appends a string only if it is not there, and moves none.
LEMMA AddStringLemma ==
  ASSUME NEW tbl \in Seq(Strings), NEW s \in Strings,
         \A i, j \in DOMAIN tbl : tbl[i] = tbl[j] => i = j
  PROVE  LET new == addString(tbl, s)
         IN  /\ new \in Seq(Strings)
             /\ \A i, j \in DOMAIN new : new[i] = new[j] => i = j
             /\ Kept(tbl, new)
<1>1. CASE s = <<>> \/ \E k \in DOMAIN tbl : tbl[k] = s
  BY <1>1 DEF addString, Kept
<1>2. CASE ~(s = <<>> \/ \E k \in DOMAIN tbl : tbl[k] = s)
  <2>1. addString(tbl, s) = Append(tbl, s)
    BY <1>2 DEF addString
  <2>2. /\ Append(tbl, s) \in Seq(Strings)
        /\ DOMAIN Append(tbl, s) = 1 .. Len(tbl) + 1
        /\ DOMAIN tbl = 1 .. Len(tbl) /\ Len(tbl) \in Nat
        /\ Append(tbl, s)[Len(tbl) + 1] = s
        /\ \A k \in 1 .. Len(tbl) : Append(tbl, s)[k] = tbl[k]
    OBVIOUS
  <2>3. \A k \in 1 .. Len(tbl) : tbl[k] # s
    BY <1>2, <2>2
  <2>4. \A i, j \in 1 .. Len(tbl) + 1 : Append(tbl, s)[i] = Append(tbl, s)[j] => i = j
    BY <2>2, <2>3
  <2>. QED
    BY <2>1, <2>2, <2>4 DEF Kept
<1>. QED
  BY <1>1, <1>2

\* A context in which only the list of descriptors and the flag changed.
LEMMA SameTable ==
  ASSUME Inv, DOMAIN ctx' = DOMAIN ctx, ctx'.strtbl = ctx.strtbl
  PROVE  Inv' /\ Kept(ctx.strtbl, ctx'.strtbl)
  BY DEF Inv, UniqueStrings, Kept

\* A step of the script keeps the invariant and every index.
LEMMA StepLemma ==
  ASSUME Inv, [Next]_vars
  PROVE  Inv' /\ Kept(ctx.strtbl, ctx'.strtbl)
<1>1. CASE UNCHANGED vars
  BY <1>1, SameTable DEF vars
<1>2. ASSUME NEW d, Create(d) PROVE Inv' /\ Kept(ctx.strtbl, ctx'.strtbl)
  BY <1>2, SameTable DEF Create, append, Inv
<1>3. CASE Clone
  BY <1>3, SameTable DEF Clone, clone, Inv
<1>4. CASE Name
  <2>1. PICK i \in DOMAIN ctx.descs, s \in Strings :
          ctx' = cvtString(ctx, i, nameOffset(ctx.descs[i]), s)
    BY <1>4 DEF Name
  <2>2. ctx'.strtbl = addString(ctx.strtbl, s) /\ DOMAIN ctx' = DOMAIN ctx
    BY <2>1 DEF cvtString, Inv
  <2>. QED
    BY <2>2, AddStringLemma DEF Inv, UniqueStrings
<1>5. CASE Wrapup
  BY <1>5, SameTable DEF Wrapup, wrapup, Inv
<1>6. CASE CreateDevice \/ CreateConfiguration \/ CreateInterface \/ CreateEndpoint
           \/ CreateSentinel
  BY <1>2, <1>6 DEF CreateDevice, CreateConfiguration, CreateInterface, CreateEndpoint,
                    CreateSentinel
<1>. QED
  BY <1>1, <1>3, <1>4, <1>5, <1>6 DEF Next

\* The invariant holds in the empty context.
LEMMA InitLemma == Init => Inv
  BY DEF Init, Inv, NewContext, UniqueStrings

\* The strings of the table are pairwise different, in every script (addString()
\* and wrapup(), whether it raises or not).
THEOREM UniqueStringsHolds == Spec => []UniqueStrings
<1>1. Inv /\ [Next]_vars => Inv'
  BY StepLemma
<1>2. Inv => UniqueStrings
  BY DEF Inv
<1>. QED
  BY InitLemma, <1>1, <1>2, PTL DEF Spec

\* A descriptor may hold the index of a string from the moment it is named:
\* addString() never moves a string, and nothing takes one away.
THEOREM StringsStayHolds == Spec => StringsStay
<1>1. Inv /\ [Next]_vars => Inv'
  BY StepLemma
<1>2. Inv /\ [Next]_vars
        => [\A k \in DOMAIN ctx.strtbl : k \in DOMAIN ctx.strtbl' /\ ctx.strtbl'[k] = ctx.strtbl[k]]_vars
  BY StepLemma DEF Kept
<1>. QED
  BY InitLemma, <1>1, <1>2, PTL DEF Spec, StringsStay
=============================================================================
