------------------------- MODULE ClockDividerProofs -------------------------
(***************************************************************************)
(* Theorems about ClockDivider for every counter width and divisor set.    *)
(* The inductive invariant ties the level of the output to the position of *)
(* the counter within the cycle.                                           *)
(***************************************************************************)
EXTENDS ClockDivider, TLAPS

DividerInv == TypeOK /\ NoLongCount /\ WaveShape

\* Half of a divisor above one lies strictly between zero and the divisor.
LEMMA HalfBounds ==
    ASSUME NEW d \in Nat, d > 1
    PROVE  Half(d) \in Nat /\ 1 <= Half(d) /\ Half(d) < d
BY DEF Half

\* Power-up under reset establishes the invariant.
LEMMA DividerInit == Init => DividerInv
<1>. SUFFICES ASSUME Init
              PROVE  DividerInv
  OBVIOUS
<1>1. TypeOK
  BY SpanAssumption DEF Init, TypeOK
<1>2. NoLongCount
  BY DivisorsAssumption, SpanAssumption DEF Init, NoLongCount
<1>3. WaveShape
  BY HalfBounds, DivisorsAssumption, SpanAssumption DEF Init, WaveShape
<1>. QED
  BY <1>1, <1>2, <1>3 DEF DividerInv

\* A divisor write under reset establishes it again.
LEMMA DividerLoad ==
    ASSUME NEW d \in Divisors, NEW pol \in BOOLEAN, NEW ph \in BOOLEAN,
           Load(d, pol, ph)
    PROVE  DividerInv'
<1>1. TypeOK'
  BY SpanAssumption DEF Load, TypeOK
<1>2. NoLongCount'
  BY DivisorsAssumption, SpanAssumption DEF Load, NoLongCount
<1>3. WaveShape'
  BY HalfBounds, DivisorsAssumption, SpanAssumption DEF Load, WaveShape
<1>. QED
  BY <1>1, <1>2, <1>3 DEF DividerInv

\* An edge of clk_in preserves it.
LEMMA DividerEdge ==
    ASSUME DividerInv, Edge
    PROVE  DividerInv'
<1>. USE DivisorsAssumption, SpanAssumption
<1>1. /\ div \in 0 .. Span - 1 /\ counter \in 0 .. Span - 1
      /\ baud_out \in BOOLEAN /\ polarity \in BOOLEAN
      /\ div' = div /\ polarity' = polarity
      /\ div > 0 => counter <= div
  BY DEF DividerInv, TypeOK, NoLongCount, Edge
<1>2. counter' = IF counter = div THEN 1
                 ELSE IF counter = Span - 1 THEN 0 ELSE counter + 1
  BY DEF Edge, cycle_full, next_count
<1>3. TypeOK'
  <2>1. counter' \in 0 .. Span - 1
    BY <1>1, <1>2
  <2>2. baud_out' \in BOOLEAN
    BY <1>1, Zenon DEF Edge
  <2>. QED
    BY <2>1, <2>2 DEF DividerInv, TypeOK, Edge
<1>4. NoLongCount'
  BY <1>1, <1>2 DEF NoLongCount
<1>5. ASSUME div > 1
      PROVE  baud_out' = polarity' <=> counter' <= Half(div)
  <2>1. Half(div) \in Nat /\ 1 <= Half(div) /\ Half(div) < div
    BY <1>1, <1>5, HalfBounds
  <2>2. baud_out = polarity <=> counter <= Half(div)
    BY <1>5 DEF DividerInv, WaveShape
  <2>3. CASE counter = div
    <3>1. ~(counter <= Half(div)) /\ counter' = 1
      BY <2>1, <2>3, <1>1, <1>2
    <3>2. baud_out' = ~baud_out
      BY <2>3 DEF Edge, switch_clk, cycle_full
    <3>. QED
      BY <3>1, <3>2, <2>1, <2>2, <1>1
  <2>4. CASE counter # div /\ counter = Half(div)
    <3>1. counter <= Half(div) /\ ~(counter' <= Half(div))
      BY <2>1, <2>4, <1>1, <1>2
    <3>2. baud_out' = ~baud_out
      BY <2>4 DEF Edge, switch_clk, half_cycle
    <3>. QED
      BY <3>1, <3>2, <2>2, <1>1
  <2>5. CASE counter # div /\ counter # Half(div)
    <3>1. counter <= Half(div) <=> counter' <= Half(div)
      BY <2>1, <2>5, <1>1, <1>2, <1>5
    <3>2. baud_out' = baud_out
      BY <2>5 DEF Edge, switch_clk, cycle_full, half_cycle
    <3>. QED
      BY <3>1, <3>2, <2>2, <1>1
  <2>. QED
    BY <2>3, <2>4, <2>5
<1>6. WaveShape'
  BY <1>1, <1>5 DEF WaveShape
<1>. QED
  BY <1>3, <1>4, <1>6 DEF DividerInv

\* Every step preserves the invariant.
LEMMA DividerNext == DividerInv /\ [Next]_vars => DividerInv'
<1>. SUFFICES ASSUME DividerInv, [Next]_vars
              PROVE  DividerInv'
  OBVIOUS
<1>1. CASE Edge
  BY <1>1, DividerEdge
<1>2. CASE \E d \in Divisors, pol, ph \in BOOLEAN : Load(d, pol, ph)
  BY <1>2, DividerLoad
<1>3. CASE UNCHANGED vars
  BY <1>3 DEF vars, DividerInv, TypeOK, NoLongCount, WaveShape
<1>. QED
  BY <1>1, <1>2, <1>3 DEF Next

\* For every width and divisor set, the divider's registers stay within their
\* widths: the counter wraps instead of outgrowing its bits.
THEOREM DividerTypeCorrect == Spec => []TypeOK
<1>1. Spec => []DividerInv
  BY DividerInit, DividerNext, PTL DEF Spec
<1>2. DividerInv => TypeOK
  BY DEF DividerInv
<1>. QED
  BY <1>1, <1>2, PTL

\* For every width, a divisor write never causes a long count.
THEOREM DividerNoLongCount == Spec => []NoLongCount
<1>1. Spec => []DividerInv
  BY DividerInit, DividerNext, PTL DEF Spec
<1>2. DividerInv => NoLongCount
  BY DEF DividerInv
<1>. QED
  BY <1>1, <1>2, PTL

\* For every width and every divisor above one, the output is the square wave
\* whose level is determined by the position of the counter in the cycle.
THEOREM DividerWaveShape == Spec => []WaveShape
<1>1. Spec => []DividerInv
  BY DividerInit, DividerNext, PTL DEF Spec
<1>2. DividerInv => WaveShape
  BY DEF DividerInv
<1>. QED
  BY <1>1, <1>2, PTL
=============================================================================
