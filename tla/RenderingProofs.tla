--------------------------- MODULE RenderingProofs ---------------------------
(***************************************************************************)
(* What holds of the conversions for every width of an integer, every set  *)
(* of units and thresholds, and texts of any length: durations and         *)
(* lifetimes, the condition of a write in its header fields, the author of *)
(* a commit, the age of an edit, the body of a page and search snippets.   *)
(***************************************************************************)
EXTENDS Rendering, FiniteSetTheorems, SequenceTheorems, WellFoundedInduction, TLAPS

\* The one input there is stays the same.
LEMMA InputStays == Spec => [](input \in Inputs)
  <1>1. Init => input \in Inputs
    BY DEF Init
  <1>2. input \in Inputs /\ [Next]_input => (input \in Inputs)'
    BY DEF Next
  <1> QED
    BY <1>1, <1>2, PTL DEF Spec

-----------------------------------------------------------------------------
(* Arithmetic.                                                             *)

\* Division with remainder.
LEMMA Division ==
    ASSUME NEW n \in Int, NEW m \in Nat \ {0}
    PROVE  /\ n \div m \in Int /\ n % m \in 0 .. m - 1
           /\ n = m * (n \div m) + (n % m)
           /\ n \in Nat => n \div m \in Nat
  OBVIOUS

\* The whole units in a number, and what they leave.
LEMMA WholeUnits ==
    ASSUME NEW n \in Nat, NEW m \in Nat \ {0}
    PROVE  m * (n \div m) \in Nat /\ n - m * (n \div m) \in 0 .. m - 1
  <1>1. PICK q, r : q = n \div m /\ r = n % m
    OBVIOUS
  <1>2. q \in Nat /\ r \in 0 .. m - 1 /\ n = m * q + r
    <2>1. n \in Int
      OBVIOUS
    <2> QED
      BY <1>1, <2>1, Division, Zenon
  <1>3. m * q \in Nat
    BY <1>2
  <1>4. n - m * q = r
    BY <1>2, <1>3
  <1> QED
    BY <1>1, <1>2, <1>3, <1>4

\* A larger number of seconds has no fewer whole units.
LEMMA DivisionGrows ==
    ASSUME NEW m \in Nat \ {0}, NEW a \in Int, NEW b \in Int, a =< b
    PROVE  m * (a \div m) =< m * (b \div m)
  <1>1. PICK q, r, s : q = a \div m /\ r = b \div m /\ s = q - r
    OBVIOUS
  <1>2. q \in Int /\ r \in Int /\ m * q =< a /\ b < m * r + m
    BY <1>1, Division
  <1>3. CASE q =< r
    BY <1>1, <1>2, <1>3
  <1>4. CASE q >= r + 1
    <2>1. m * q >= m * (r + 1)
      BY <1>2, <1>4
    <2> QED
      BY <1>2, <2>1
  <1> QED
    BY <1>2, <1>3, <1>4

\* A set of numbers has a least one, and one that is bounded a greatest.
LEMMA LeastExists ==
    ASSUME NEW S \in SUBSET Nat, S # {}
    PROVE  \E m \in S : \A n \in S : m =< n
  <1>1. PICK m \in S : \A n \in S : ~(<<n, m>> \in OpToRel(<, Nat))
    BY WFMin, NatLessThanWellFounded
  <1>2. \A n \in S : ~(n < m)
    BY <1>1 DEF OpToRel
  <1> QED
    BY <1>2

LEMMA GreatestExists ==
    ASSUME NEW b \in Nat, NEW S \in SUBSET (0 .. b), S # {}
    PROVE  \E m \in S : \A n \in S : n =< m
  <1> DEFINE T == {b - n : n \in S}
  <1>1. T \in SUBSET Nat /\ T # {}
    <2>1. \A n \in S : b - n \in Nat
      OBVIOUS
    <2>2. PICK n : n \in S
      OBVIOUS
    <2>3. b - n \in T
      BY <2>2
    <2> QED
      BY <2>1, <2>3
  <1>2. PICK t \in T : \A n \in T : t =< n
    BY <1>1, LeastExists
  <1>3. PICK m \in S : t = b - m
    OBVIOUS
  <1>4. \A n \in S : n =< m
    BY <1>2, <1>3
  <1> QED
    BY <1>4

-----------------------------------------------------------------------------
(* Durations and lifetimes.                                                *)

\* An integer of `Width` bits is never above the number it stands for, unless that
\* one is below all of its values; and it is the same for all that wrap to the same.
LEMMA SignedBounds ==
    ASSUME NEW n \in Int
    PROVE  /\ Signed(n) \in Int /\ Signed(n) >= -Half
           /\ n >= -Half => Signed(n) =< n
           /\ Signed(Wrap(n)) = Signed(n)
  <1>1. Half \in Nat \ {0} /\ Modulus = 2 * Half /\ Modulus \in Nat \ {0}
    BY WidthIsPositive
  <1>2. Wrap(n) \in 0 .. Modulus - 1
    BY <1>1, Division DEF Wrap
  <1>3. Wrap(Wrap(n)) = Wrap(n)
    BY <1>1, <1>2 DEF Wrap
  <1>4. Signed(n) \in Int /\ Signed(n) >= -Half /\ Signed(n) =< Wrap(n)
    BY <1>1, <1>2 DEF Signed
  <1>5. ASSUME n >= -Half
        PROVE  Signed(n) =< n
    <2>1. CASE n < 0
      <3>1. Wrap(n) = n + Modulus
        BY <1>1, <1>5, <2>1 DEF Wrap
      <3> QED
        BY <1>1, <1>5, <3>1 DEF Signed
    <2>2. CASE n >= 0
      <3>1. Wrap(n) =< n
        BY <1>1, <2>2, Division DEF Wrap
      <3> QED
        BY <1>2, <1>4, <3>1
    <2> QED
      BY <2>1, <2>2
  <1> QED
    BY <1>3, <1>4, <1>5 DEF Signed

\* The unit that format_duration takes divides the seconds.
LEMMA FormattedUnit ==
    ASSUME NEW secs \in Nat
    PROVE  /\ FormatDuration(secs).unit \in DOMAIN UnitSecs
           /\ secs % UnitSecs[FormatDuration(secs).unit] = 0
           /\ FormatDuration(secs).number = secs \div UnitSecs[FormatDuration(secs).unit]
  <1> DEFINE fits == {u \in {"y", "d", "h", "m", "s"} : secs % UnitSecs[u] = 0}
             values == {UnitSecs[u] : u \in fits}
             unit == CHOOSE u \in fits : \A v \in fits : UnitSecs[v] =< UnitSecs[u]
  <1>1. fits \subseteq DOMAIN UnitSecs /\ \A u \in fits : UnitSecs[u] \in Nat \ {0}
    BY UnitsDivide
  <1>2. "s" \in fits
    <2>1. secs % 1 = 0
      OBVIOUS
    <2> QED
      BY <2>1, UnitsDivide
  <1>3. \E u \in fits : \A v \in fits : UnitSecs[v] =< UnitSecs[u]
    <2>1. PICK b : b = UnitSecs["y"] + UnitSecs["d"] + UnitSecs["h"] + UnitSecs["m"] + UnitSecs["s"]
      OBVIOUS
    <2>2. \A u \in {"y", "d", "h", "m", "s"} : UnitSecs[u] \in Nat \ {0}
      BY UnitsDivide
    <2>3. b \in Nat /\ \A u \in {"y", "d", "h", "m", "s"} : UnitSecs[u] \in 0 .. b
      BY <2>1, <2>2
    <2>4. values \in SUBSET (0 .. b) /\ values # {}
      BY <1>2, <2>3
    <2>5. PICK m \in values : \A n \in values : n =< m
      BY <2>3, <2>4, GreatestExists
    <2> QED
      BY <2>5
  <1>4. unit \in fits
    BY <1>3
  <1>5. FormatDuration(secs) =
          [number |-> secs \div UnitSecs[unit], unit |-> unit, padded |-> FALSE]
    BY DEF FormatDuration
  <1>6. unit \in DOMAIN UnitSecs /\ secs % UnitSecs[unit] = 0
    BY <1>1, <1>4
  <1> HIDE DEF unit
  <1> QED
    BY <1>5, <1>6

\* A duration that is written out is read back as itself, whatever the width, the
\* units and the build.
THEOREM DurationsAlwaysRoundTrip == Spec => []DurationsRoundTrip
  <1>1. ASSUME input \in Inputs
        PROVE  DurationsRoundTrip
    <2> SUFFICES ASSUME input.of = "secs", NEW checks \in BOOLEAN
                 PROVE  ParseDuration(FormatDuration(input.secs), checks) = input.secs
      BY DEF DurationsRoundTrip, Is
    <2>1. PICK secs : secs = input.secs
      OBVIOUS
    <2>2. secs \in 0 .. Modulus - 1 /\ Modulus \in Nat \ {0}
      BY <1>1, <2>1, InputsAreInputs, WidthIsPositive
    <2>3. PICK text, u : text = FormatDuration(secs) /\ u = UnitSecs[text.unit]
      OBVIOUS
    <2>4. text.unit \in DOMAIN UnitSecs /\ secs % u = 0 /\ text.number = secs \div u
      BY <2>2, <2>3, FormattedUnit
    <2>5. u \in Nat \ {0}
      BY <2>3, <2>4, UnitsDivide
    <2>6. text.number \in Nat /\ text.number * u = secs
      BY <2>2, <2>4, <2>5, Division
    <2>7. text.number =< secs
      BY <2>2, <2>5, <2>6
    <2>8. text.number # None
      BY <2>6, InputsAreInputs
    <2>9. Wrap(secs) = secs
      BY <2>2 DEF Wrap
    <2> QED
      BY <2>1, <2>2, <2>3, <2>4, <2>6, <2>7, <2>8, <2>9 DEF ParseDuration
  <1> QED
    BY <1>1, InputStays, PTL

\* The two grammars of a lifetime agree, and one that overflows never outlives what
\* was written, for every width, number, unit and time of day.
THEOREM LifetimesAlwaysAgree == Spec => []LifetimesAgree
  <1>1. ASSUME input \in Inputs
        PROVE  LifetimesAgree
    <2> SUFFICES ASSUME input.of = "lifetime", ~Empty(input.text),
                        ParseLifetime(input.now, input.text, 0) # None
                 PROVE  /\ ParseLifetime(input.now, input.text, 0) =
                             ExpiryOf(input.now, ParseDuration(input.text, FALSE))
                        /\ ParseLifetime(input.now, input.text, 0) =<
                             input.now + input.text.number * UnitSecs[input.text.unit]
      BY DEF LifetimesAgree, Is
    <2>1. PICK now, number, unit, secs :
              /\ now = input.now /\ number = input.text.number /\ unit = input.text.unit
              /\ secs = number * UnitSecs[unit]
      OBVIOUS
    <2>2. now \in Nat /\ number \in Nat \cup {None}
      BY <1>1, <2>1, InputsAreInputs
    <2>3. number # None /\ ~(number >= Half) /\ unit \in DOMAIN UnitSecs
      BY <2>1 DEF ParseLifetime
    <2>4. ParseLifetime(input.now, input.text, 0) = ExpiryOf(now, secs)
      BY <2>1, <2>3 DEF ParseLifetime
    <2>5. ~(number >= Modulus)
      BY <2>2, <2>3, WidthIsPositive
    <2>6. ParseDuration(input.text, FALSE) = Wrap(secs)
      BY <2>1, <2>3, <2>5 DEF ParseDuration
    <2>7. UnitSecs[unit] \in Nat
      BY <2>3, UnitsDivide
    <2>8. secs \in Nat
      BY <2>1, <2>2, <2>3, <2>7
    <2>9. ExpiryOf(now, secs) = ExpiryOf(now, Wrap(secs))
      BY <2>8, SignedBounds DEF ExpiryOf
    <2>10. ExpiryOf(now, secs) =< now + secs
      <3>1. Half \in Nat
        BY WidthIsPositive
      <3>2. PICK s : s = Signed(secs)
        OBVIOUS
      <3>3. s \in Int /\ s >= -Half /\ s =< secs
        BY <2>8, <3>1, <3>2, SignedBounds
      <3>4. now + s \in Int /\ now + s >= -Half
        BY <2>2, <3>1, <3>3
      <3>5. Signed(now + s) \in Int /\ Signed(now + s) =< now + s
        BY <3>4, SignedBounds
      <3> QED
        BY <2>2, <2>8, <3>2, <3>3, <3>5 DEF ExpiryOf
    <2> QED
      BY <2>1, <2>4, <2>6, <2>9, <2>10
  <1> QED
    BY <1>1, InputStays, PTL

-----------------------------------------------------------------------------
(* Ages.                                                                   *)

\* The seconds that are shown.
SecsOf(age) == age.unit * age.amount

\* How many minutes, hours or days are shown, and how many seconds that leaves out.
LEMMA ShownAge ==
    ASSUME NEW d \in Int, RelTime(d) # Stamp
    PROVE  /\ SecsOf(RelTime(d)) \in Nat /\ RelTime(d).unit \in Nat
           /\ d - SecsOf(RelTime(d)) \in -Skew .. RelTime(d).unit - 1
           /\ \/ d < Soon /\ SecsOf(RelTime(d)) = 0
              \/ /\ Soon =< d /\ d < Hour
                 /\ SecsOf(RelTime(d)) = Minute * ((d + Minute \div 2) \div Minute)
              \/ Hour =< d /\ d < Day /\ SecsOf(RelTime(d)) = Hour * (d \div Hour)
              \/ Day =< d /\ d < Month /\ SecsOf(RelTime(d)) = Day * (d \div Day)
  <1>1. /\ Soon \in Nat \ {0} /\ Minute \in Nat \ {0} /\ Hour \in Nat \ {0} /\ Day \in Nat \ {0}
        /\ Month \in Nat \ {0} /\ Skew \in Nat \ {0}
        /\ Soon < Minute /\ Minute < Hour /\ Hour < Day /\ Day < Month
    BY AgesAscend
  <1>2. CASE d < -Skew
    BY <1>1, <1>2 DEF RelTime
  <1>3. CASE d >= -Skew /\ d < Soon
    <2>1. RelTime(d) = Ago(Soon, 0)
      BY <1>1, <1>3 DEF RelTime
    <2> QED
      BY <1>1, <1>3, <2>1 DEF Ago, SecsOf
  <1>4. CASE d >= Soon /\ d < Hour
    <2>1. PICK half, q : half = Minute \div 2 /\ q = (d + half) \div Minute
      OBVIOUS
    <2>2. RelTime(d) = Ago(Minute, q)
      BY <1>1, <1>4, <2>1 DEF RelTime
    <2>3. half \in Nat /\ half =< Skew /\ 2 * half =< Minute
      BY <1>1, <2>1, Division, AgesAscend
    <2>4. Minute * q \in Nat /\ (d + half) - Minute * q \in 0 .. Minute - 1
      <3>1. d + half \in Nat
        BY <1>1, <1>4, <2>3
      <3> QED
        BY <1>1, <2>1, <3>1, WholeUnits, Zenon
    <2>5. d - Minute * q \in -Skew .. Minute - 1
      BY <1>1, <1>4, <2>3, <2>4
    <2>6. SecsOf(RelTime(d)) = Minute * q /\ RelTime(d).unit = Minute
      BY <2>2 DEF Ago, SecsOf
    <2> QED
      BY <1>1, <1>4, <2>1, <2>4, <2>5, <2>6
  <1>5. CASE d >= Hour /\ d < Day
    <2>1. RelTime(d) = Ago(Hour, d \div Hour)
      BY <1>1, <1>5 DEF RelTime
    <2>2. Hour * (d \div Hour) \in Nat /\ d - Hour * (d \div Hour) \in 0 .. Hour - 1
      <3>1. d \in Nat
        BY <1>1, <1>5
      <3> QED
        BY <1>1, <3>1, WholeUnits, Zenon
    <2>3. SecsOf(RelTime(d)) = Hour * (d \div Hour) /\ RelTime(d).unit = Hour
      BY <2>1 DEF Ago, SecsOf
    <2> QED
      BY <1>1, <1>5, <2>2, <2>3
  <1>6. CASE d >= Day /\ d < Month
    <2>1. RelTime(d) = Ago(Day, d \div Day)
      BY <1>1, <1>6 DEF RelTime
    <2>2. Day * (d \div Day) \in Nat /\ d - Day * (d \div Day) \in 0 .. Day - 1
      <3>1. d \in Nat
        BY <1>1, <1>6
      <3> QED
        BY <1>1, <3>1, WholeUnits, Zenon
    <2>3. SecsOf(RelTime(d)) = Day * (d \div Day) /\ RelTime(d).unit = Day
      BY <2>1 DEF Ago, SecsOf
    <2> QED
      BY <1>1, <1>6, <2>2, <2>3
  <1>7. CASE d >= Month
    BY <1>1, <1>7 DEF RelTime
  <1> QED
    BY <1>1, <1>2, <1>3, <1>4, <1>5, <1>6, <1>7

\* Minutes, which are rounded, do not reach beyond the hour that is cut off.
LEMMA MinutesMeetHours ==
    ASSUME NEW d \in Int, Soon =< d, d < Hour
    PROVE  Minute * ((d + Minute \div 2) \div Minute) =< Hour
  <1>1. Minute \in Nat \ {0} /\ Hour \in Nat \ {0} /\ Soon \in Nat
    BY AgesAscend
  <1>2. PICK half, q, k : half = Minute \div 2 /\ q = (d + half) \div Minute /\ k = Hour \div Minute
    OBVIOUS
  <1>3. half \in Nat /\ half < Minute
    BY <1>1, <1>2, Division
  <1>4. k \in Int /\ Hour = Minute * k
    BY <1>1, <1>2, Division, AgesAscend
  <1>5. q \in Int /\ Minute * q =< d + half
    BY <1>1, <1>2, <1>3, Division
  <1>6. Minute * q < Minute * k + Minute
    BY <1>1, <1>3, <1>4, <1>5
  <1>7. CASE q >= k + 1
    <2>1. Minute * q >= Minute * (k + 1)
      BY <1>1, <1>4, <1>5, <1>7
    <2> QED
      BY <1>1, <1>4, <1>5, <1>6, <2>1
  <1>8. CASE q =< k
    <2>1. Minute * q =< Minute * k
      BY <1>1, <1>4, <1>5, <1>8
    <2> QED
      BY <1>2, <1>4, <2>1
  <1> QED
    BY <1>4, <1>5, <1>7, <1>8

\* An age is off by less than its unit or the skew, and no edit is shown as younger
\* than one that came after it, for any thresholds of which the larger are multiples.
THEOREM AgesAreAlwaysClose == Spec => []AgeIsClose
  <1>1. ASSUME input \in Inputs
        PROVE  AgeIsClose
    <2> SUFFICES ASSUME input.of = "ages"
                 PROVE  AgeIsClose
      BY DEF AgeIsClose, Is
    <2>1. PICK a, b : a = input.older /\ b = input.newer
      OBVIOUS
    <2>2. a \in Int /\ b \in Int
      BY <1>1, <2>1, RenderedInputs
    <2>3. RelTime(a) # Stamp => a - SecsOf(RelTime(a)) \in -Skew .. RelTime(a).unit - 1
      BY <2>2, ShownAge
    <2>4. ASSUME b =< a, RelTime(a) # Stamp, RelTime(b) # Stamp
          PROVE  SecsOf(RelTime(b)) =< SecsOf(RelTime(a))
      <3>1. PICK s, t : s = SecsOf(RelTime(a)) /\ t = SecsOf(RelTime(b))
        OBVIOUS
      <3>2. /\ Soon \in Nat /\ Minute \in Nat \ {0} /\ Hour \in Nat \ {0} /\ Day \in Nat \ {0}
            /\ Minute < Hour /\ Hour < Day /\ Soon < Minute
        BY AgesAscend
      <3>3. PICK half : half = Minute \div 2
        OBVIOUS
      <3>4. half \in Nat
        BY <3>2, <3>3, Division
      <3>5. /\ s \in Nat
            /\ \/ a < Soon /\ s = 0
               \/ Soon =< a /\ a < Hour /\ s = Minute * ((a + half) \div Minute)
               \/ Hour =< a /\ a < Day /\ s = Hour * (a \div Hour)
               \/ Day =< a /\ s = Day * (a \div Day)
        BY <2>2, <2>4, <3>1, <3>3, ShownAge
      <3>6. /\ t \in Nat
            /\ \/ b < Soon /\ t = 0
               \/ Soon =< b /\ b < Hour /\ t = Minute * ((b + half) \div Minute)
               \/ Hour =< b /\ b < Day /\ t = Hour * (b \div Hour)
               \/ Day =< b /\ t = Day * (b \div Day)
        BY <2>2, <2>4, <3>1, <3>3, ShownAge
      <3>7. CASE b < Soon /\ t = 0
        BY <3>1, <3>5, <3>7
      <3>8. CASE Soon =< b /\ b < Hour /\ t = Minute * ((b + half) \div Minute)
        <4>1. t =< Hour
          BY <2>2, <3>3, <3>8, MinutesMeetHours
        <4>2. CASE a < Hour
          <5>1. s = Minute * ((a + half) \div Minute)
            BY <2>2, <2>4, <3>2, <3>5, <3>8, <4>2
          <5>2. a + half \in Int /\ b + half \in Int /\ b + half =< a + half
            BY <2>2, <2>4, <3>4
          <5> QED
            BY <3>1, <3>2, <3>8, <5>1, <5>2, DivisionGrows
        <4>3. CASE Hour =< a /\ a < Day /\ s = Hour * (a \div Hour)
          <5>1. Hour * (Hour \div Hour) =< s
            BY <2>2, <3>2, <4>3, DivisionGrows
          <5>2. Hour \div Hour = 1
            BY <3>2
          <5> QED
            BY <3>1, <3>2, <3>5, <3>6, <4>1, <5>1, <5>2
        <4>4. CASE Day =< a /\ s = Day * (a \div Day)
          <5>1. Day * (Day \div Day) =< s
            BY <2>2, <3>2, <4>4, DivisionGrows
          <5>2. Day \div Day = 1
            BY <3>2
          <5> QED
            BY <3>1, <3>2, <3>5, <3>6, <4>1, <5>1, <5>2
        <4> QED
          BY <2>2, <3>2, <3>5, <4>2, <4>3, <4>4
      <3>9. CASE Hour =< b /\ b < Day /\ t = Hour * (b \div Hour)
        <4>1. CASE a < Day
          <5>1. s = Hour * (a \div Hour)
            BY <2>2, <2>4, <3>2, <3>5, <3>9, <4>1
          <5> QED
            BY <2>2, <2>4, <3>1, <3>2, <3>9, <5>1, DivisionGrows
        <4>2. CASE Day =< a
          <5>1. s = Day * (a \div Day)
            BY <2>2, <3>2, <3>5, <4>2
          <5>2. Day * (Day \div Day) =< s
            BY <2>2, <3>2, <4>2, <5>1, DivisionGrows
          <5>3. Day \div Day = 1
            BY <3>2
          <5>4. t =< b
            BY <2>2, <3>2, <3>9, Division
          <5> QED
            BY <2>2, <3>1, <3>2, <3>5, <3>6, <3>9, <5>2, <5>3, <5>4
        <4> QED
          BY <2>2, <3>2, <4>1, <4>2
      <3>10. CASE Day =< b /\ t = Day * (b \div Day)
        <4>1. s = Day * (a \div Day)
          BY <2>2, <2>4, <3>2, <3>5, <3>10
        <4> QED
          BY <2>2, <2>4, <3>1, <3>2, <3>10, <4>1, DivisionGrows
      <3> QED
        BY <3>6, <3>7, <3>8, <3>9, <3>10
    <2> QED
      BY <2>1, <2>3, <2>4 DEF AgeIsClose, SecsOf
  <1> QED
    BY <1>1, InputStays, PTL

-----------------------------------------------------------------------------
(* Texts: sequences of characters of some set C.                           *)

NotBlank(text) == {i \in DOMAIN text : text[i] # "blank"}

\* The places of a text that trimming looks for.
LEMMA TrimParts ==
    ASSUME NEW C, NEW text \in Seq(C)
    PROVE  /\ NotBlank(text) \in SUBSET (0 .. Len(text)) /\ NotBlank(text) \in SUBSET Nat
           /\ \A i : i \in NotBlank(text) <=> i \in 1 .. Len(text) /\ text[i] # "blank"
           /\ NotBlank(text) = {} => Trim(text) = <<>>
           /\ NotBlank(text) # {} =>
                Trim(text) = SubSeq(text,
                                    CHOOSE i \in NotBlank(text) : \A j \in NotBlank(text) : i =< j,
                                    CHOOSE i \in NotBlank(text) : \A j \in NotBlank(text) : j =< i)
  <1>1. DOMAIN text = 1 .. Len(text) /\ Len(text) \in Nat
    OBVIOUS
  <1>2. \A i : i \in NotBlank(text) <=> i \in DOMAIN text /\ text[i] # "blank"
    BY Zenon DEF NotBlank
  <1>3. \A i \in 1 .. Len(text) : i \in Nat /\ i \in 0 .. Len(text)
    BY <1>1
  <1>4. NotBlank(text) = {} => Trim(text) = <<>>
    BY Zenon DEF Trim, NotBlank
  <1>5. NotBlank(text) # {} =>
          Trim(text) = SubSeq(text,
                              CHOOSE i \in NotBlank(text) : \A j \in NotBlank(text) : i =< j,
                              CHOOSE i \in NotBlank(text) : \A j \in NotBlank(text) : j =< i)
    BY Zenon DEF Trim, NotBlank
  <1>6. \A i : i \in NotBlank(text) <=> i \in 1 .. Len(text) /\ text[i] # "blank"
    BY <1>1, <1>2, Zenon
  <1>7. NotBlank(text) \in SUBSET (0 .. Len(text)) /\ NotBlank(text) \in SUBSET Nat
    BY <1>3, <1>6, Zenon
  <1> QED
    BY <1>4, <1>5, <1>6, <1>7, Zenon

\* Trimmed of blanks, a text begins and ends with its outermost other characters.
LEMMA TrimSpans ==
    ASSUME NEW C, NEW text \in Seq(C), NEW a \in NotBlank(text), NEW b \in NotBlank(text),
           \A i \in NotBlank(text) : a =< i /\ i =< b
    PROVE  Trim(text) = SubSeq(text, a, b)
  <1>1. \A i \in NotBlank(text) : i \in Nat
    BY TrimParts, Zenon
  <1>2. (CHOOSE i \in NotBlank(text) : \A j \in NotBlank(text) : i =< j) = a
    <2>1. \A i \in NotBlank(text) : (\A j \in NotBlank(text) : i =< j) => i = a
      BY <1>1
    <2> QED
      BY <2>1
  <1>3. (CHOOSE i \in NotBlank(text) : \A j \in NotBlank(text) : j =< i) = b
    <2>1. \A i \in NotBlank(text) : (\A j \in NotBlank(text) : j =< i) => i = b
      BY <1>1
    <2> QED
      BY <2>1
  <1>4. NotBlank(text) # {}
    OBVIOUS
  <1> QED
    BY <1>2, <1>3, <1>4, TrimParts, Zenon

\* Trimmed of blanks, a text is a text.
LEMMA TrimIsText ==
    ASSUME NEW C, NEW text \in Seq(C)
    PROVE  Trim(text) \in Seq(C)
  <1>1. CASE NotBlank(text) = {}
    <2>1. Trim(text) = <<>>
      BY <1>1, TrimParts, Zenon
    <2> QED
      BY <2>1
  <1>2. CASE NotBlank(text) # {}
    <2>1. PICK a \in NotBlank(text) : \A i \in NotBlank(text) : a =< i
      BY <1>2, TrimParts, LeastExists, Zenon
    <2>2. Len(text) \in Nat
      OBVIOUS
    <2>3. PICK b \in NotBlank(text) : \A i \in NotBlank(text) : i =< b
      BY <1>2, <2>2, TrimParts, GreatestExists, Zenon
    <2>4. Trim(text) = SubSeq(text, a, b)
      BY <2>1, <2>3, TrimSpans, Zenon
    <2>5. a \in 1 .. Len(text) /\ b \in 1 .. Len(text)
      BY TrimParts, Zenon
    <2>6. a \in Int /\ b \in Int /\ \A i \in a .. b : text[i] \in C
      BY <2>5
    <2>7. SubSeq(text, a, b) \in Seq(C)
      BY <2>6, SubSeqProperties
    <2> QED
      BY <2>4, <2>7, Zenon
  <1> QED
    BY <1>1, <1>2

\* The first and the last place of a text that is not empty.
LEMMA OutermostPlaces ==
    ASSUME NEW C, NEW text \in Seq(C), text # <<>>
    PROVE  /\ 1 \in 1 .. Len(text) /\ Len(text) \in 1 .. Len(text)
           /\ \A i \in 1 .. Len(text) : 1 =< i /\ i =< Len(text)
  BY EmptySeq

\* A text without a blank at either end is trimmed already.
LEMMA TrimKeeps ==
    ASSUME NEW C, NEW text \in Seq(C), text # <<>>, text[1] # "blank", text[Len(text)] # "blank"
    PROVE  Trim(text) = text
  <1>1. PICK n : n = Len(text)
    OBVIOUS
  <1>2. 1 \in 1 .. n /\ n \in 1 .. n /\ \A i \in 1 .. n : 1 =< i /\ i =< n
    BY <1>1, OutermostPlaces, Zenon
  <1>3. /\ 1 \in NotBlank(text) /\ n \in NotBlank(text)
        /\ \A i \in NotBlank(text) : 1 =< i /\ i =< n
    BY <1>1, <1>2, TrimParts, Zenon
  <1>4. Trim(text) = SubSeq(text, 1, n)
    BY <1>3, TrimSpans, Zenon
  <1> QED
    BY <1>1, <1>4, SubSeqFull

-----------------------------------------------------------------------------
(* Entity tags and conditions.                                             *)

\* A tag is its revision between quotes.
LEMMA EtagShape ==
    ASSUME NEW C, "quote" \in C, NEW rev \in Seq(C)
    PROVE  /\ EtagFor(rev) \in Seq(C) /\ Len(EtagFor(rev)) = Len(rev) + 2
           /\ EtagFor(rev)[1] = "quote" /\ EtagFor(rev)[Len(rev) + 2] = "quote"
           /\ \A i \in 1 .. Len(rev) : EtagFor(rev)[i + 1] = rev[i]
  <1>0. <<"quote">> \in Seq(C) /\ Len(<<"quote">>) = 1 /\ <<"quote">>[1] = "quote"
    OBVIOUS
  <1>1. PICK q : q = <<"quote">> /\ q \in Seq(C) /\ Len(q) = 1 /\ q[1] = "quote"
    BY <1>0, Zenon
  <1>2. PICK left : left = q \o rev
    OBVIOUS
  <1>3. Len(rev) \in Nat
    OBVIOUS
  <1>4. left \in Seq(C) /\ Len(left) = Len(rev) + 1 /\ left[1] = "quote"
        /\ \A i \in 1 .. Len(rev) : left[i + 1] = rev[i]
    BY <1>1, <1>2, <1>3, ConcatProperties
  <1>5. EtagFor(rev) = left \o q
    BY <1>1, <1>2 DEF EtagFor
  <1>6. EtagFor(rev) \in Seq(C) /\ Len(EtagFor(rev)) = Len(left) + 1
        /\ \A i \in 1 .. Len(left) + 1 :
              EtagFor(rev)[i] = IF i =< Len(left) THEN left[i] ELSE q[i - Len(left)]
    BY <1>1, <1>4, <1>5, ConcatProperties
  <1> QED
    BY <1>1, <1>3, <1>4, <1>6

\* The revision of a tag is what is between its quotes.
LEMMA EtagParts ==
    ASSUME NEW C, "quote" \in C, NEW raw \in Seq(C), Len(raw) >= 2,
           raw[1] = "quote", raw[Len(raw)] = "quote",
           NEW rev, rev = SubSeq(raw, 2, Len(raw) - 1)
    PROVE  rev \in Seq(C) /\ raw = EtagFor(rev)
  <1>1. PICK n \in Nat : n = Len(raw)
    OBVIOUS
  <1>2. \A i \in 2 .. n - 1 : raw[i] \in C
    BY <1>1
  <1>3. rev \in Seq(C) /\ Len(rev) = n - 2 /\ \A i \in 1 .. n - 2 : rev[i] = raw[i + 1]
    BY <1>1, <1>2, SubSeqProperties
  <1>4. PICK tag : tag = EtagFor(rev)
    OBVIOUS
  <1>5. /\ tag \in Seq(C) /\ Len(tag) = Len(rev) + 2
        /\ tag[1] = "quote" /\ tag[Len(rev) + 2] = "quote"
        /\ \A i \in 1 .. Len(rev) : tag[i + 1] = rev[i]
    BY <1>3, <1>4, EtagShape, Zenon
  <1>6. Len(tag) = n
    BY <1>1, <1>3, <1>5
  <1>7. \A i \in 1 .. n : tag[i] = raw[i]
    <2> SUFFICES ASSUME NEW i \in 1 .. n PROVE tag[i] = raw[i]
      OBVIOUS
    <2>1. CASE i = 1
      BY <1>5, <2>1
    <2>2. CASE i = n
      BY <1>1, <1>3, <1>5, <2>2
    <2>3. CASE i \in 2 .. n - 1
      <3>1. i - 1 \in 1 .. n - 2 /\ (i - 1) + 1 = i
        BY <1>1, <2>3
      <3>2. tag[(i - 1) + 1] = rev[i - 1] /\ rev[i - 1] = raw[(i - 1) + 1]
        BY <1>3, <1>5, <3>1
      <3> QED
        BY <3>1, <3>2
    <2> QED
      BY <1>1, <2>1, <2>2, <2>3
  <1> QED
    BY <1>1, <1>3, <1>4, <1>5, <1>6, <1>7, SeqEqual

\* parse_etag takes back what etag_for makes, and trimming leaves a tag as it is.
LEMMA EtagIsParsed ==
    ASSUME NEW C, "quote" \in C, NEW rev \in Seq(C)
    PROVE  Trim(EtagFor(rev)) = EtagFor(rev) /\ ParseEtag(EtagFor(rev)) = rev
  <1>1. PICK e, n : e = EtagFor(rev) /\ n = Len(rev) + 2
    OBVIOUS
  <1>2. /\ e \in Seq(C) /\ Len(e) = n /\ e[1] = "quote" /\ e[n] = "quote"
        /\ \A i \in 1 .. Len(rev) : e[i + 1] = rev[i]
    BY <1>1, EtagShape, Zenon
  <1>3. n \in Nat /\ n >= 2 /\ Len(rev) = n - 2
    BY <1>1
  <1>4. Trim(e) = e
    <2>1. e # <<>> /\ e[1] # "blank" /\ e[Len(e)] # "blank"
      BY <1>2, <1>3
    <2> QED
      BY <1>2, <2>1, TrimKeeps, Zenon
  <1>5. PICK s : s = SubSeq(e, 2, n - 1)
    OBVIOUS
  <1>6. s = rev
    <2>1. \A i \in 2 .. n - 1 : e[i] \in C
      BY <1>2, <1>3
    <2>2. s \in Seq(C) /\ Len(s) = n - 2 /\ \A i \in 1 .. n - 2 : s[i] = e[i + 1]
      BY <1>3, <1>5, <2>1, SubSeqProperties
    <2>3. Len(s) = Len(rev) /\ \A i \in 1 .. Len(rev) : s[i] = rev[i]
      BY <1>2, <1>3, <2>2
    <2> QED
      BY <2>2, <2>3, SeqEqual
  <1>7. ParseEtag(e) = s
    BY <1>2, <1>3, <1>4, <1>5 DEF ParseEtag
  <1> QED
    BY <1>1, <1>4, <1>6, <1>7, Zenon

\* A field that was not sent, or whose first line is skipped, has no text; the text
\* of another is its first line.
LEMMA HeaderTexts ==
    ASSUME NEW lines \in Seq([visible : BOOLEAN, text : Seq(STRING)])
    PROVE  /\ lines = <<>> \/ Skipped(lines) => HeaderText(lines) = None
           /\ lines # <<>> => 1 \in DOMAIN lines /\ Head(lines) = lines[1]
           /\ lines # <<>> /\ ~Skipped(lines) =>
                /\ HeaderText(lines) = lines[1].text
                /\ HeaderText(lines) \in Seq(STRING) /\ HeaderText(lines) # None
  <1>1. lines = <<>> \/ Skipped(lines) => HeaderText(lines) = None
    BY DEF HeaderText, Skipped
  <1>2. ASSUME lines # <<>>
        PROVE  /\ 1 \in DOMAIN lines /\ Head(lines) = lines[1]
               /\ lines[1].text \in Seq(STRING)
               /\ ~Skipped(lines) => HeaderText(lines) = lines[1].text
    <2>1. 1 \in 1 .. Len(lines) /\ DOMAIN lines = 1 .. Len(lines)
      BY <1>2, OutermostPlaces
    <2>2. Head(lines) = lines[1]
      BY <1>2, HeadTailProperties
    <2>3. lines[1] \in [visible : BOOLEAN, text : Seq(STRING)]
      BY <2>1, ElementOfSeq, Zenon
    <2>4. lines[1].text \in Seq(STRING)
      BY <2>3
    <2>5. ~Skipped(lines) => HeaderText(lines) = lines[1].text
      BY <1>2, <2>2, Zenon DEF HeaderText, Skipped
    <2> QED
      BY <2>1, <2>2, <2>4, <2>5, Zenon
  <1>3. None \notin Seq(STRING)
    BY InputsAreInputs
  <1> QED
    BY <1>1, <1>2, <1>3, Zenon

\* A tag that parse_etag accepts is etag_for its revision, but for blanks around it.
LEMMA EtagIsTag ==
    ASSUME NEW C, NEW text \in Seq(C), None \notin Seq(C), ParseEtag(text) # None
    PROVE  Trim(text) = EtagFor(ParseEtag(text))
  <1>1. PICK raw : raw = Trim(text) /\ raw \in Seq(C)
    BY TrimIsText
  <1>2. /\ Len(raw) >= 2 /\ raw[1] = "quote" /\ raw[Len(raw)] = "quote"
        /\ ParseEtag(text) = SubSeq(raw, 2, Len(raw) - 1)
    BY <1>1 DEF ParseEtag
  <1>3. raw[1] \in C
    BY <1>1, <1>2
  <1>4. "quote" \in C
    BY <1>2, <1>3
  <1> QED
    BY <1>1, <1>2, <1>4, EtagParts, Zenon

\* A conditional write goes through only on a page as each of its fields asks for,
\* but for a field whose first line is not visible ASCII, and one that sends back the
\* ETag it was given goes through, for every row and fields of any number of lines.
THEOREM ConditionsAreHonoured == Spec => []ConditionIsHonoured
  <1>1. ASSUME input \in Inputs, input.of = "headers"
        PROVE  ConditionIsHonoured
    <2>1. PICK headers, row, match, none_match, m, n, pre :
              /\ headers = input.headers /\ row = input.row
              /\ match = headers.if_match /\ none_match = headers.if_none_match
              /\ m = HeaderText(match) /\ n = HeaderText(none_match)
              /\ pre = PreconditionFromHeaders(headers)
      OBVIOUS
    <2>2. /\ match \in Seq([visible : BOOLEAN, text : Seq(STRING)])
          /\ none_match \in Seq([visible : BOOLEAN, text : Seq(STRING)])
          /\ row.present \in BOOLEAN /\ row.content_hash \in Seq(STRING \ {"comma"}) \cup {None}
          /\ row.content_hash # None => row.present
      BY <1>1, <2>1, InputsAreInputs
    <2>3. /\ m = None => match = <<>> \/ Skipped(match)
          /\ m # None => /\ 1 \in DOMAIN match /\ m = match[1].text
                         /\ m \in Seq(STRING)
          /\ match # <<>> => Head(match) = match[1]
          /\ match # <<>> /\ Head(match).visible => m # None
          /\ n = None <=> none_match = <<>> \/ Skipped(none_match)
      BY <2>1, <2>2, HeaderTexts, Zenon DEF Skipped
    <2>4. pre = CASE m = None /\ n = None -> Condition("None", None)
                  [] m = None /\ n # None ->
                       IF Trim(n) = <<"star">> THEN Condition("Absent", None) ELSE None
                  [] m # None /\ n = None /\ Trim(m) = <<"star">> -> Condition("Exists", None)
                  [] m # None /\ n = None /\ Trim(m) # <<"star">> ->
                       IF Contains(m, "comma") \/ ParseEtag(m) = None THEN None
                       ELSE Condition("Revision", ParseEtag(m))
                  [] OTHER -> None
      BY <2>1, Zenon DEF PreconditionFromHeaders
    <2>5. ASSUME pre # None, Data!Allows(pre, row)
          PROVE  /\ match = <<>> \/ Skipped(match) \/ MatchMeets(match, row)
                 /\ none_match = <<>> \/ Skipped(none_match) \/ ~row.present
      <3>1. CASE m = None /\ n = None
        BY <2>3, <3>1
      <3>2. CASE m = None /\ n # None
        <4>1. pre.kind = "Absent"
          BY <2>4, <2>5, <3>2 DEF Condition
        <4>2. ~row.present
          BY <2>5, <4>1 DEF Data!Allows
        <4> QED
          BY <2>3, <3>2, <4>2
      <3>3. CASE m # None /\ n = None /\ Trim(m) = <<"star">>
        <4>1. pre.kind = "Exists"
          BY <2>4, <3>3 DEF Condition
        <4>2. row.present
          BY <2>5, <4>1 DEF Data!Allows
        <4> QED
          BY <2>3, <3>3, <4>2, Zenon DEF MatchMeets
      <3>4. CASE m # None /\ n = None /\ Trim(m) # <<"star">>
        <4>1. ParseEtag(m) # None /\ pre.kind = "Revision" /\ pre.rev = ParseEtag(m)
          BY <2>4, <2>5, <3>4 DEF Condition
        <4>2. row.present /\ row.content_hash = ParseEtag(m)
          BY <2>5, <4>1 DEF Data!Allows
        <4>3. None \notin Seq(STRING)
          BY InputsAreInputs
        <4>4. Trim(m) = EtagFor(row.content_hash)
          BY <2>3, <3>4, <4>1, <4>2, <4>3, EtagIsTag, Zenon
        <4> QED
          BY <2>3, <3>4, <4>1, <4>2, <4>4, Zenon DEF MatchMeets
      <3>5. CASE m # None /\ n # None
        BY <2>4, <2>5, <3>5
      <3> QED
        BY <3>1, <3>2, <3>3, <3>4, <3>5
    <2>6. ASSUME row.content_hash # None, none_match = <<>> \/ Skipped(none_match),
                 match # <<>>,
                 Head(match) = [visible |-> TRUE, text |-> EtagFor(row.content_hash)]
          PROVE  pre # None /\ Data!Allows(pre, row)
      <3>1. PICK rev : rev = row.content_hash
        OBVIOUS
      <3>2. PICK S : S = STRING \cup {"quote"}
        OBVIOUS
      <3>3. rev \in Seq(S) /\ "quote" \in S /\ \A i \in 1 .. Len(rev) : rev[i] # "comma"
        <4>1. rev \in Seq(STRING \ {"comma"})
          BY <2>2, <2>6, <3>1
        <4>2. STRING \ {"comma"} \subseteq S
          BY <3>2
        <4>3. \A i \in 1 .. Len(rev) : rev[i] \in STRING \ {"comma"}
          BY <4>1
        <4> QED
          BY <3>2, <4>1, <4>2, <4>3, SeqMonotonic
      <3>4. n = None /\ m # None /\ m = EtagFor(rev)
        <4>1. Head(match).visible /\ Head(match).text = EtagFor(rev)
          BY <2>6, <3>1
        <4> QED
          BY <2>3, <2>6, <4>1, Zenon
      <3>5. Trim(m) = m /\ ParseEtag(m) = rev
        BY <3>3, <3>4, EtagIsParsed, Zenon
      <3>6. /\ m \in Seq(S) /\ Len(m) = Len(rev) + 2 /\ m[1] = "quote" /\ m[Len(rev) + 2] = "quote"
            /\ \A i \in 1 .. Len(rev) : m[i + 1] = rev[i]
        BY <3>3, <3>4, EtagShape, Zenon
      <3>7. m # <<"star">>
        BY <3>6
      <3>8. ~Contains(m, "comma")
        <4>1. ASSUME NEW i \in 1 .. Len(m)
              PROVE  m[i] # "comma"
          <5>1. Len(rev) \in Nat
            BY <3>3
          <5>2. i = 1 \/ i = Len(rev) + 2 \/ (i - 1 \in 1 .. Len(rev) /\ i = (i - 1) + 1)
            BY <3>6, <5>1
          <5>3. ASSUME i - 1 \in 1 .. Len(rev), i = (i - 1) + 1
                PROVE  m[i] # "comma"
            <6>1. m[(i - 1) + 1] = rev[i - 1] /\ rev[i - 1] # "comma"
              BY <3>3, <3>6, <5>3
            <6> QED
              BY <5>3, <6>1
          <5>4. "quote" # "comma"
            OBVIOUS
          <5> QED
            BY <3>6, <5>2, <5>3, <5>4
        <4> QED
          BY <4>1 DEF Contains
      <3>9. pre = Condition("Revision", rev)
        BY <2>4, <2>6, <3>1, <3>4, <3>5, <3>7, <3>8
      <3>10. pre.kind = "Revision" /\ pre.rev = row.content_hash
        BY <3>1, <3>9 DEF Condition
      <3>11. pre # None
        <4>1. rev \in Seq(STRING)
          <5>1. STRING \ {"comma"} \subseteq STRING /\ rev \in Seq(STRING \ {"comma"})
            BY <2>2, <2>6, <3>1
          <5> QED
            BY <5>1, SeqMonotonic
        <4>2. pre \in [kind : {"Revision"}, rev : Seq(STRING)]
          BY <3>9, <4>1 DEF Condition
        <4> QED
          BY <4>2, InputsAreInputs
      <3>12. Data!Allows(pre, row)
        BY <2>2, <2>6, <3>10 DEF Data!Allows
      <3> QED
        BY <3>11, <3>12
    <2> QED
      BY <2>1, <2>5, <2>6 DEF ConditionIsHonoured
  <1>2. input \in Inputs => ConditionIsHonoured
    BY <1>1 DEF ConditionIsHonoured, Is
  <1> QED
    BY <1>2, InputStays, PTL

-----------------------------------------------------------------------------
(* Authors.                                                                *)

\* Find returns the place of the first of a character, or 0.
LEMMA FindIsFirst ==
    ASSUME NEW C, NEW text \in Seq(C), NEW c
    PROVE  /\ \/ Find(text, c) = 0
              \/ /\ Find(text, c) \in 1 .. Len(text) /\ text[Find(text, c)] = c
                 /\ \A j \in 1 .. (Find(text, c) - 1) : text[j] # c
           /\ (\E i \in 1 .. Len(text) : text[i] = c) => Find(text, c) # 0
           /\ Contains(text, c) <=> \E i \in 1 .. Len(text) : text[i] = c
  <1> DEFINE S == {i \in 1 .. Len(text) : text[i] = c}
             first == CHOOSE i \in DOMAIN text : text[i] = c /\ \A j \in 1 .. (i - 1) : text[j] # c
  <1>1. Contains(text, c) <=> \E i \in 1 .. Len(text) : text[i] = c
    BY DEF Contains
  <1>2. Find(text, c) = IF Contains(text, c) THEN first ELSE 0
    BY DEF Find
  <1>3. DOMAIN text = 1 .. Len(text) /\ Len(text) \in Nat
    OBVIOUS
  <1>4. ASSUME \E i \in 1 .. Len(text) : text[i] = c
        PROVE  /\ first \in 1 .. Len(text) /\ text[first] = c
               /\ \A j \in 1 .. (first - 1) : text[j] # c
    <2>1. S \in SUBSET Nat /\ S # {}
      BY <1>3, <1>4
    <2>2. PICK m \in S : \A n \in S : m =< n
      BY <2>1, LeastExists, Zenon
    <2>3. m \in 1 .. Len(text) /\ text[m] = c
      OBVIOUS
    <2>4. \A n \in 1 .. Len(text) : text[n] = c => m =< n
      BY <2>2
    <2>5. \A j \in 1 .. (m - 1) : j \in 1 .. Len(text) /\ ~(m =< j)
      BY <1>3, <2>3
    <2>6. \A j \in 1 .. (m - 1) : text[j] # c
      BY <2>4, <2>5, Zenon
    <2> QED
      BY <1>3, <2>3, <2>6, Zenon
  <1> HIDE DEF first
  <1>5. CASE Contains(text, c)
    <2>1. Find(text, c) = first
      BY <1>2, <1>5
    <2>2. first \in 1 .. Len(text) => first # 0
      OBVIOUS
    <2> QED
      BY <1>1, <1>4, <1>5, <2>1, <2>2, Zenon
  <1>6. CASE ~Contains(text, c)
    BY <1>1, <1>2, <1>6, Zenon
  <1> QED
    BY <1>5, <1>6, Zenon

\* Two texts, one after the other.
IsJoined(both, s, r) == both = s \o r

Follows(both, s, n, r) ==
    /\ Len(both) = n + Len(r)
    /\ \A i \in 1 .. n : both[i] = s[i]
    /\ \A i \in 1 .. Len(r) : both[n + i] = r[i]

LEMMA Joined ==
    ASSUME NEW C, NEW s \in Seq(C), NEW r \in Seq(C),
           NEW n, n = Len(s), NEW both, IsJoined(both, s, r)
    PROVE  both \in Seq(C) /\ Follows(both, s, n, r)
  <1>1. n \in Nat /\ Len(r) \in Nat
    OBVIOUS
  <1>2. /\ both \in Seq(C) /\ Len(both) = n + Len(r)
        /\ \A i \in 1 .. n + Len(r) : both[i] = IF i =< n THEN s[i] ELSE r[i - n]
    BY ConcatProperties DEF IsJoined
  <1>3. \A i \in 1 .. n : i \in 1 .. n + Len(r) /\ i =< n
    BY <1>1
  <1>4. \A i \in 1 .. Len(r) : n + i \in 1 .. n + Len(r) /\ ~(n + i =< n) /\ (n + i) - n = i
    BY <1>1
  <1>5. \A i \in 1 .. n : both[i] = s[i]
    BY <1>2, <1>3, Zenon
  <1>6. ASSUME NEW i \in 1 .. Len(r)
        PROVE  both[n + i] = r[i]
    <2>1. both[n + i] = r[(n + i) - n]
      BY <1>2, <1>4, Zenon
    <2> QED
      BY <1>4, <2>1, Zenon
  <1> QED
    BY <1>2, <1>5, <1>6, Zenon DEF Follows

\* What render_author writes, place by place.
AuthorAt(rendered, type, handle, T, H) ==
    /\ Len(rendered) = T + H + H + 5
    /\ \A i \in 1 .. T : rendered[i] = type[i]
    /\ rendered[T + 1] = "colon"
    /\ \A i \in 1 .. H : rendered[(T + 1) + i] = handle[i]
    /\ rendered[T + H + 2] = "blank" /\ rendered[T + H + 3] = "less"
    /\ \A i \in 1 .. H : rendered[(T + H + 3) + i] = handle[i]
    /\ rendered[T + H + H + 4] = "at" /\ rendered[T + H + H + 5] = "greater"

LEMMA AuthorShape ==
    ASSUME NEW C, {"colon", "blank", "less", "at", "greater"} \subseteq C,
           NEW type \in Seq(C), NEW handle \in Seq(C),
           NEW T, T = Len(type), NEW H, H = Len(handle),
           NEW rendered, rendered = RenderAuthor(type, handle)
    PROVE  rendered \in Seq(C) /\ AuthorAt(rendered, type, handle, T, H)
  <1>1. PICK s1, s2, s3 : s1 = <<"colon">> /\ s2 = <<"blank", "less">> /\ s3 = <<"at", "greater">>
    OBVIOUS
  <1>2. /\ s1 \in Seq(C) /\ Len(s1) = 1 /\ s1[1] = "colon"
        /\ s2 \in Seq(C) /\ Len(s2) = 2 /\ s2[1] = "blank" /\ s2[2] = "less"
        /\ s3 \in Seq(C) /\ Len(s3) = 2 /\ s3[1] = "at" /\ s3[2] = "greater"
    BY <1>1
  <1>3. PICK a, b, c, d : /\ IsJoined(a, type, s1) /\ IsJoined(b, a, handle)
                          /\ IsJoined(c, b, s2) /\ IsJoined(d, c, handle)
    BY DEF IsJoined
  <1>4. IsJoined(rendered, d, s3)
    BY <1>1, <1>3 DEF RenderAuthor, IsJoined
  <1>5. T \in Nat /\ H \in Nat
    OBVIOUS
  <1>6. /\ a \in Seq(C) /\ Len(a) = T + 1
        /\ \A i \in 1 .. T : a[i] = type[i]
        /\ a[T + 1] = "colon"
    <2>0. a \in Seq(C) /\ Follows(a, type, T, s1)
      BY <1>2, <1>3, Joined, Zenon
    <2>1. /\ a \in Seq(C) /\ Len(a) = T + Len(s1)
          /\ \A i \in 1 .. T : a[i] = type[i]
          /\ \A i \in 1 .. Len(s1) : a[T + i] = s1[i]
      BY <2>0, Zenon DEF Follows
    <2>2. 1 \in 1 .. Len(s1)
      BY <1>2
    <2> QED
      BY <1>2, <2>1, <2>2, Zenon
  <1>7. /\ b \in Seq(C) /\ Len(b) = T + H + 1
        /\ \A i \in 1 .. (T + 1) : b[i] = a[i]
        /\ \A i \in 1 .. H : b[(T + 1) + i] = handle[i]
    <2>0. b \in Seq(C) /\ Follows(b, a, T + 1, handle)
      BY <1>3, <1>6, Joined, Zenon
    <2>1. /\ b \in Seq(C) /\ Len(b) = (T + 1) + H
          /\ \A i \in 1 .. (T + 1) : b[i] = a[i]
          /\ \A i \in 1 .. H : b[(T + 1) + i] = handle[i]
      BY <2>0, Zenon DEF Follows
    <2>2. (T + 1) + H = T + H + 1
      BY <1>5
    <2> QED
      BY <2>1, <2>2, Zenon
  <1>8. /\ c \in Seq(C) /\ Len(c) = T + H + 3
        /\ \A i \in 1 .. (T + H + 1) : c[i] = b[i]
        /\ c[T + H + 2] = "blank" /\ c[T + H + 3] = "less"
    <2>0. c \in Seq(C) /\ Follows(c, b, T + H + 1, s2)
      BY <1>2, <1>3, <1>7, Joined, Zenon
    <2>1. /\ c \in Seq(C) /\ Len(c) = (T + H + 1) + Len(s2)
          /\ \A i \in 1 .. (T + H + 1) : c[i] = b[i]
          /\ \A i \in 1 .. Len(s2) : c[(T + H + 1) + i] = s2[i]
      BY <2>0, Zenon DEF Follows
    <2>2. 1 \in 1 .. Len(s2) /\ 2 \in 1 .. Len(s2)
      BY <1>2
    <2>3. c[(T + H + 1) + 1] = "blank" /\ c[(T + H + 1) + 2] = "less"
      BY <1>2, <2>1, <2>2, Zenon
    <2>4. /\ (T + H + 1) + 1 = T + H + 2 /\ (T + H + 1) + 2 = T + H + 3
          /\ (T + H + 1) + Len(s2) = T + H + 3
      BY <1>2, <1>5
    <2> QED
      BY <2>1, <2>3, <2>4, Zenon
  <1>9. /\ d \in Seq(C) /\ Len(d) = T + H + H + 3
        /\ \A i \in 1 .. (T + H + 3) : d[i] = c[i]
        /\ \A i \in 1 .. H : d[(T + H + 3) + i] = handle[i]
    <2>0. d \in Seq(C) /\ Follows(d, c, T + H + 3, handle)
      BY <1>3, <1>8, Joined, Zenon
    <2>1. /\ d \in Seq(C) /\ Len(d) = (T + H + 3) + H
          /\ \A i \in 1 .. (T + H + 3) : d[i] = c[i]
          /\ \A i \in 1 .. H : d[(T + H + 3) + i] = handle[i]
      BY <2>0, Zenon DEF Follows
    <2>2. (T + H + 3) + H = T + H + H + 3
      BY <1>5
    <2> QED
      BY <2>1, <2>2, Zenon
  <1>10. /\ rendered \in Seq(C) /\ Len(rendered) = T + H + H + 5
         /\ \A i \in 1 .. (T + H + H + 3) : rendered[i] = d[i]
         /\ rendered[T + H + H + 4] = "at" /\ rendered[T + H + H + 5] = "greater"
    <2>0. rendered \in Seq(C) /\ Follows(rendered, d, T + H + H + 3, s3)
      BY <1>2, <1>4, <1>9, Joined, Zenon
    <2>1. /\ rendered \in Seq(C) /\ Len(rendered) = (T + H + H + 3) + Len(s3)
          /\ \A i \in 1 .. (T + H + H + 3) : rendered[i] = d[i]
          /\ \A i \in 1 .. Len(s3) : rendered[(T + H + H + 3) + i] = s3[i]
      BY <2>0, Zenon DEF Follows
    <2>2. 1 \in 1 .. Len(s3) /\ 2 \in 1 .. Len(s3)
      BY <1>2
    <2>3. rendered[(T + H + H + 3) + 1] = "at" /\ rendered[(T + H + H + 3) + 2] = "greater"
      BY <1>2, <2>1, <2>2, Zenon
    <2>4. /\ (T + H + H + 3) + 1 = T + H + H + 4 /\ (T + H + H + 3) + 2 = T + H + H + 5
          /\ (T + H + H + 3) + Len(s3) = T + H + H + 5
      BY <1>2, <1>5
    <2> QED
      BY <2>1, <2>3, <2>4, Zenon
  <1>11. /\ \A i \in 1 .. (T + 1) : i \in 1 .. (T + H + 1)
         /\ \A i \in 1 .. (T + H + 1) : i \in 1 .. (T + H + 3)
         /\ \A i \in 1 .. (T + H + 3) : i \in 1 .. (T + H + H + 3)
         /\ \A i \in 1 .. T : i \in 1 .. (T + 1)
         /\ T + 1 \in 1 .. (T + 1)
         /\ \A i \in 1 .. H : /\ (T + 1) + i \in 1 .. (T + H + 1)
                              /\ (T + H + 3) + i \in 1 .. (T + H + H + 3)
         /\ T + H + 2 \in 1 .. (T + H + 3) /\ T + H + 3 \in 1 .. (T + H + 3)
    BY <1>5
  <1>12. /\ \A i \in 1 .. (T + H + 3) : rendered[i] = c[i]
         /\ \A i \in 1 .. (T + H + 1) : rendered[i] = b[i]
         /\ \A i \in 1 .. (T + 1) : rendered[i] = a[i]
    <2>1. \A i \in 1 .. (T + H + 3) : rendered[i] = c[i]
      BY <1>9, <1>10, <1>11, Zenon
    <2>2. \A i \in 1 .. (T + H + 1) : rendered[i] = b[i]
      BY <1>8, <1>11, <2>1, Zenon
    <2>3. \A i \in 1 .. (T + 1) : rendered[i] = a[i]
      BY <1>7, <1>11, <2>2, Zenon
    <2> QED
      BY <2>1, <2>2, <2>3
  <1>13. /\ \A i \in 1 .. T : rendered[i] = type[i]
         /\ rendered[T + 1] = "colon"
    BY <1>6, <1>11, <1>12, Zenon
  <1>14. \A i \in 1 .. H : rendered[(T + 1) + i] = handle[i]
    BY <1>7, <1>11, <1>12, Zenon
  <1>15. rendered[T + H + 2] = "blank" /\ rendered[T + H + 3] = "less"
    BY <1>8, <1>11, <1>12, Zenon
  <1>16. \A i \in 1 .. H : rendered[(T + H + 3) + i] = handle[i]
    <2> TAKE i \in 1 .. H
    <2>1. d[(T + H + 3) + i] = handle[i]
      BY <1>9, Zenon
    <2>2. rendered[(T + H + 3) + i] = d[(T + H + 3) + i]
      BY <1>10, <1>11, Zenon
    <2> QED
      BY <2>1, <2>2, Zenon
  <1> QED
    BY <1>10, <1>13, <1>14, <1>15, <1>16, Zenon DEF AuthorAt

\* The place found is the least that holds the character.
HoldsAt(text, c, p) == p \in 1 .. Len(text) /\ text[p] = c

LEMMA FindIsLeast ==
    ASSUME NEW C, NEW text \in Seq(C), NEW c, NEW p, HoldsAt(text, c, p)
    PROVE  HoldsAt(text, c, Find(text, c)) /\ Find(text, c) =< p
  <1>0. p \in 1 .. Len(text) /\ text[p] = c
    BY DEF HoldsAt
  <1>1. PICK f : f = Find(text, c)
    OBVIOUS
  <1>2. f \in 1 .. Len(text) /\ text[f] = c /\ \A j \in 1 .. (f - 1) : text[j] # c
    BY <1>0, <1>1, FindIsFirst, Zenon
  <1>3. p \notin 1 .. (f - 1)
    BY <1>0, <1>2, Zenon
  <1>4. f =< p
    BY <1>0, <1>2, <1>3
  <1> QED
    BY <1>1, <1>2, <1>4, Zenon DEF HoldsAt

\* The places of an angle bracket in a rendered author, whose type has none.
BracketAt(c, j, handle, T, H) ==
    \/ \E k \in 1 .. H : handle[k] = c /\ j = (T + 1) + k
    \/ c = "less" /\ j = T + H + 3
    \/ \E k \in 1 .. H : handle[k] = c /\ j = (T + H + 3) + k
    \/ c = "greater" /\ j = T + H + H + 5

LEMMA Brackets ==
    ASSUME NEW C, {"colon", "blank", "less", "at", "greater"} \subseteq C,
           NEW type \in Seq(C), NEW handle \in Seq(C),
           NEW T, T = Len(type), NEW H, H = Len(handle),
           NEW rendered, rendered = RenderAuthor(type, handle),
           NEW c \in {"less", "greater"}, \A i \in 1 .. T : type[i] # c,
           NEW j \in 1 .. (T + H + H + 5), rendered[j] = c
    PROVE  BracketAt(c, j, handle, T, H)
  <1>0. AuthorAt(rendered, type, handle, T, H)
    BY AuthorShape, Zenon
  <1>1. T \in Nat /\ H \in Nat
    OBVIOUS
  <1>2. /\ \A i \in 1 .. T : rendered[i] = type[i]
        /\ rendered[T + 1] = "colon"
        /\ \A i \in 1 .. H : rendered[(T + 1) + i] = handle[i]
        /\ rendered[T + H + 2] = "blank" /\ rendered[T + H + 3] = "less"
        /\ \A i \in 1 .. H : rendered[(T + H + 3) + i] = handle[i]
        /\ rendered[T + H + H + 4] = "at" /\ rendered[T + H + H + 5] = "greater"
    BY <1>0, Zenon DEF AuthorAt
  <1>3. c # "colon" /\ c # "blank" /\ c # "at"
    OBVIOUS
  <1>4. CASE j \in 1 .. T \/ j = T + 1 \/ j = T + H + 2 \/ j = T + H + H + 4
    BY <1>2, <1>3, <1>4, Zenon DEF BracketAt
  <1>5. CASE j = T + H + 3 \/ j = T + H + H + 5
    BY <1>2, <1>5, Zenon DEF BracketAt
  <1>6. CASE j \in (T + 2) .. (T + 1 + H)
    <2>1. j - (T + 1) \in 1 .. H /\ j = (T + 1) + (j - (T + 1))
      BY <1>1, <1>6
    <2>2. PICK k \in 1 .. H : j = (T + 1) + k
      BY <2>1, Zenon
    <2> QED
      BY <1>2, <2>2, Zenon DEF BracketAt
  <1>7. CASE j \in (T + H + 4) .. (T + H + 3 + H)
    <2>1. j - (T + H + 3) \in 1 .. H /\ j = (T + H + 3) + (j - (T + H + 3))
      BY <1>1, <1>7
    <2>2. PICK k \in 1 .. H : j = (T + H + 3) + k
      BY <2>1, Zenon
    <2> QED
      BY <1>2, <2>2, Zenon DEF BracketAt
  <1>8. \/ j \in 1 .. T \/ j = T + 1 \/ j = T + H + 2 \/ j = T + H + H + 4
        \/ j = T + H + 3 \/ j = T + H + H + 5
        \/ j \in (T + 2) .. (T + 1 + H) \/ j \in (T + H + 4) .. (T + H + 3 + H)
    BY <1>1
  <1> QED
    BY <1>4, <1>5, <1>6, <1>7, <1>8, Zenon

\* A handle whose first bracket closes: the commit fails, as its mail would end
\* before it begins.
LEMMA ClosedFirst ==
    ASSUME NEW C, {"colon", "blank", "less", "at", "greater"} \subseteq C,
           NEW type \in Seq(C), NEW handle \in Seq(C),
           \A i \in 1 .. Len(type) : type[i] # "less" /\ type[i] # "greater",
           NEW f \in 1 .. Len(handle), handle[f] = "greater",
           \A k \in 1 .. Len(handle) : handle[k] = "less" => f < k
    PROVE  CommitAuthor(ParseSig(RenderAuthor(type, handle))) = None
  <1>1. PICK T, H, rendered, open, close :
            /\ T = Len(type) /\ H = Len(handle) /\ rendered = RenderAuthor(type, handle)
            /\ open = Find(rendered, "less") /\ close = Find(rendered, "greater")
    BY Zenon
  <1>2. T \in Nat /\ H \in Nat
    BY <1>1
  <1>3. /\ rendered \in Seq(C) /\ Len(rendered) = T + H + H + 5
        /\ \A i \in 1 .. H : rendered[(T + 1) + i] = handle[i]
        /\ rendered[T + H + 3] = "less"
    <2>1. rendered \in Seq(C) /\ AuthorAt(rendered, type, handle, T, H)
      BY <1>1, AuthorShape, Zenon
    <2> QED
      BY <2>1, Zenon DEF AuthorAt
  <1>4. /\ T + H + 3 \in 1 .. Len(rendered) /\ f \in 1 .. H
        /\ (T + 1) + f \in 1 .. Len(rendered)
    BY <1>1, <1>2, <1>3
  <1>5. close \in 1 .. Len(rendered) /\ close =< (T + 1) + f
    <2>1. HoldsAt(rendered, "greater", (T + 1) + f)
      BY <1>3, <1>4, Zenon DEF HoldsAt
    <2>2. HoldsAt(rendered, "greater", close) /\ close =< (T + 1) + f
      BY <1>1, <1>3, <2>1, FindIsLeast, Zenon
    <2> QED
      BY <2>2, Zenon DEF HoldsAt
  <1>6. open \in 1 .. Len(rendered) /\ rendered[open] = "less"
    <2>1. HoldsAt(rendered, "less", T + H + 3)
      BY <1>3, <1>4, Zenon DEF HoldsAt
    <2>2. HoldsAt(rendered, "less", open)
      BY <1>1, <1>3, <2>1, FindIsLeast, Zenon
    <2> QED
      BY <2>2, Zenon DEF HoldsAt
  <1>7. \/ \E k \in 1 .. H : handle[k] = "less" /\ open = (T + 1) + k
        \/ open = T + H + 3
        \/ \E k \in 1 .. H : open = (T + H + 3) + k
    <2>1. "less" \in {"less", "greater"} /\ "less" # "greater"
      OBVIOUS
    <2>2. \A i \in 1 .. T : type[i] # "less"
      BY <1>1, Zenon
    <2>3. open \in 1 .. (T + H + H + 5)
      BY <1>3, <1>6, Zenon
    <2>4. BracketAt("less", open, handle, T, H)
      BY <1>1, <1>6, <2>1, <2>2, <2>3, Brackets, Zenon
    <2> QED
      BY <2>1, <2>2, <2>4, Zenon DEF BracketAt
  <1>8. (T + 1) + f < open
    <2>1. CASE \E k \in 1 .. H : handle[k] = "less" /\ open = (T + 1) + k
      <3>1. PICK k \in 1 .. H : handle[k] = "less" /\ open = (T + 1) + k
        BY <2>1
      <3>2. f < k
        BY <1>1, <3>1, Zenon
      <3> QED
        BY <1>2, <1>4, <3>1, <3>2
    <2>2. CASE open = T + H + 3
      BY <1>2, <1>4, <2>2
    <2>3. CASE \E k \in 1 .. H : open = (T + H + 3) + k
      BY <1>2, <1>4, <2>3
    <2> QED
      BY <1>7, <2>1, <2>2, <2>3
  <1>9. close < open /\ open # 0 /\ close # 0
    BY <1>2, <1>4, <1>5, <1>6, <1>8
  <1>10. ParseSig(rendered) = None
    BY <1>1, <1>9, Zenon DEF ParseSig
  <1> QED
    BY <1>1, <1>10, Zenon DEF CommitAuthor

\* A handle with an opening bracket and no closing one: the commit fails, as its
\* mail has a bracket.
LEMMA OpenedOnly ==
    ASSUME NEW C, {"colon", "blank", "less", "at", "greater"} \subseteq C,
           NEW type \in Seq(C), NEW handle \in Seq(C),
           \A i \in 1 .. Len(type) : type[i] # "less" /\ type[i] # "greater",
           NEW f \in 1 .. Len(handle), handle[f] = "less",
           \A k \in 1 .. Len(handle) : handle[k] # "greater"
    PROVE  CommitAuthor(ParseSig(RenderAuthor(type, handle))) = None
  <1>1. PICK T, H, rendered, open, close :
            /\ T = Len(type) /\ H = Len(handle) /\ rendered = RenderAuthor(type, handle)
            /\ open = Find(rendered, "less") /\ close = Find(rendered, "greater")
    BY Zenon
  <1>2. T \in Nat /\ H \in Nat
    BY <1>1
  <1>3. /\ rendered \in Seq(C) /\ Len(rendered) = T + H + H + 5
        /\ \A i \in 1 .. H : rendered[(T + 1) + i] = handle[i]
        /\ rendered[T + H + 3] = "less" /\ rendered[T + H + H + 5] = "greater"
    <2>1. rendered \in Seq(C) /\ AuthorAt(rendered, type, handle, T, H)
      BY <1>1, AuthorShape, Zenon
    <2> QED
      BY <2>1, Zenon DEF AuthorAt
  <1>4. /\ T + H + H + 5 \in 1 .. Len(rendered) /\ f \in 1 .. H
        /\ (T + 1) + f \in 1 .. Len(rendered)
    BY <1>1, <1>2, <1>3
  <1>5. open \in 1 .. Len(rendered) /\ open =< (T + 1) + f
    <2>1. HoldsAt(rendered, "less", (T + 1) + f)
      BY <1>3, <1>4, Zenon DEF HoldsAt
    <2>2. HoldsAt(rendered, "less", open) /\ open =< (T + 1) + f
      BY <1>1, <1>3, <2>1, FindIsLeast, Zenon
    <2> QED
      BY <2>2, Zenon DEF HoldsAt
  <1>6. close \in 1 .. Len(rendered) /\ rendered[close] = "greater"
    <2>1. HoldsAt(rendered, "greater", T + H + H + 5)
      BY <1>3, <1>4, Zenon DEF HoldsAt
    <2>2. HoldsAt(rendered, "greater", close)
      BY <1>1, <1>3, <2>1, FindIsLeast, Zenon
    <2> QED
      BY <2>2, Zenon DEF HoldsAt
  <1>7. close = T + H + H + 5
    <2>1. "greater" \in {"less", "greater"} /\ "less" # "greater"
      OBVIOUS
    <2>2. /\ \A i \in 1 .. T : type[i] # "greater"
          /\ \A k \in 1 .. H : handle[k] # "greater"
      BY <1>1, Zenon
    <2>3. close \in 1 .. (T + H + H + 5)
      BY <1>3, <1>6, Zenon
    <2>4. BracketAt("greater", close, handle, T, H)
      BY <1>1, <1>6, <2>1, <2>2, <2>3, Brackets, Zenon
    <2> QED
      BY <2>1, <2>2, <2>4, Zenon DEF BracketAt
  <1>8. open # 0 /\ close # 0 /\ ~(close < open)
    BY <1>2, <1>4, <1>5, <1>6, <1>7
  <1>9. PICK sig, email : /\ sig = ParseSig(rendered) /\ email = sig.email
                          /\ email = SubSeq(rendered, open + 1, close - 1)
    <2>1. ParseSig(rendered) = [name |-> Trim(SubSeq(rendered, 1, open - 1)),
                                email |-> SubSeq(rendered, open + 1, close - 1)]
      BY <1>1, <1>8, Zenon DEF ParseSig
    <2> QED
      BY <2>1
  <1>10. "less" \in ToSet(email)
    <2>1. \A i \in open + 1 .. close - 1 : rendered[i] \in C
      BY <1>3, <1>5, <1>6
    <2>2. /\ Len(email) = close - 1 - open /\ DOMAIN email = 1 .. Len(email)
          /\ \A i \in 1 .. Len(email) : email[i] = rendered[open + i]
      <3>1. open + 1 \in Int /\ close - 1 \in Int /\ open + 1 =< close
        BY <1>2, <1>4, <1>5, <1>7
      <3>2. email \in Seq(C) /\ Len(email) = close - 1 - open
            /\ \A i \in 1 .. close - 1 - open : email[i] = rendered[(open + 1) + i - 1]
        BY <1>5, <1>6, <1>9, <2>1, <3>1, SubSeqProperties
      <3>3. open \in Int /\ close \in Int
        BY <1>5, <1>6
      <3> QED
        BY <3>2, <3>3
    <2>3. PICK k : k = T + H + 3 - open
      OBVIOUS
    <2>4. k \in 1 .. Len(email) /\ open + k = T + H + 3
      BY <1>2, <1>3, <1>4, <1>5, <1>7, <2>2, <2>3
    <2>5. email[k] = "less"
      BY <1>3, <2>2, <2>4, Zenon
    <2> QED
      BY <2>2, <2>4, <2>5 DEF ToSet
  <1>11. {"less", "greater"} \cap (ToSet(sig.name) \cup ToSet(sig.email)) # {}
    BY <1>9, <1>10
  <1> QED
    BY <1>1, <1>9, <1>11, Zenon DEF CommitAuthor

\* The last character of a handle that is no blank, and its place K, or 0.
EndsAt(handle, H, K) ==
    /\ K \in 0 .. H
    /\ K # 0 => handle[K] # "blank"
    /\ \A i \in (K + 1) .. H : handle[i] = "blank"

\* What is kept of a handle is what ends there.
LEMMA KeptEnds ==
    ASSUME NEW C, NEW handle \in Seq(C)
    PROVE  \E K \in 0 .. Len(handle) :
               EndsAt(handle, Len(handle), K) /\ Kept(handle) = SubSeq(handle, 1, K)
  <1> DEFINE I == {i \in 1 .. Len(handle) : handle[i] # "blank"}
  <1>1. PICK H \in Nat : H = Len(handle)
    OBVIOUS
  <1>2. Kept(handle) = SubSeq(handle, 1, IF I # {} THEN Max(I) ELSE 0)
    BY DEF Kept, SelectLastInSeq
  <1>3. CASE I = {}
    <2>1. EndsAt(handle, H, 0) /\ 0 \in 0 .. H
      BY <1>1, <1>3 DEF EndsAt
    <2> QED
      BY <1>1, <1>2, <1>3, <2>1
  <1>4. CASE I # {}
    <2>1. I \in SUBSET (0 .. H) /\ \A i \in I : i \in 1 .. H
      BY <1>1
    <2>2. PICK K \in I : \A i \in I : i =< K
      BY <1>1, <1>4, <2>1, GreatestExists
    <2>3. Max(I) = K
      <3>1. \A i \in I : (\A j \in I : j =< i) => i = K
        BY <2>1, <2>2
      <3> QED
        BY <2>2, <3>1 DEF Max
    <2>4. K \in 1 .. H /\ handle[K] # "blank"
      BY <1>1, <2>1
    <2>5. \A i \in (K + 1) .. H : handle[i] = "blank"
      <3> SUFFICES ASSUME NEW i \in (K + 1) .. H, handle[i] # "blank"
                   PROVE  FALSE
        OBVIOUS
      <3>1. i \in 1 .. H /\ ~(i =< K)
        BY <2>4
      <3> QED
        BY <1>1, <2>2, <3>1
    <2> QED
      <3>1. EndsAt(handle, H, K) /\ K \in 0 .. H
        BY <2>4, <2>5 DEF EndsAt
      <3>2. Kept(handle) = SubSeq(handle, 1, K)
        BY <1>2, <1>4, <2>3, Zenon
      <3> QED
        BY <1>1, <3>1, <3>2
  <1> QED
    BY <1>3, <1>4

\* A handle without brackets: the name is what was rendered before the mail, up to
\* the last character that is no blank.
IsPlain(sig, rendered, T, H, K) ==
    sig = [name |-> SubSeq(rendered, 1, T + K + 1),
           email |-> SubSeq(rendered, T + H + 4, T + H + H + 4)]

LEMMA NameOfPlain ==
    ASSUME NEW C, {"colon", "blank", "less", "at", "greater"} \subseteq C,
           NEW type \in Seq(C), NEW handle \in Seq(C), type # <<>>, type[1] # "blank",
           \A i \in 1 .. Len(type) : type[i] # "less" /\ type[i] # "greater",
           \A i \in 1 .. Len(handle) : handle[i] # "less" /\ handle[i] # "greater",
           NEW T, T = Len(type), NEW H, H = Len(handle), NEW K, EndsAt(handle, H, K),
           NEW rendered, rendered = RenderAuthor(type, handle)
    PROVE  IsPlain(ParseSig(rendered), rendered, T, H, K)
  <1>1. T \in Nat /\ H \in Nat /\ 1 =< T /\ K \in 0 .. H
    BY EmptySeq DEF EndsAt
  <1>2. PICK open, close : open = Find(rendered, "less") /\ close = Find(rendered, "greater")
    BY Zenon
  <1>3. rendered \in Seq(C) /\ AuthorAt(rendered, type, handle, T, H)
    BY AuthorShape, Zenon
  <1>4. /\ Len(rendered) = T + H + H + 5
        /\ \A i \in 1 .. T : rendered[i] = type[i]
        /\ rendered[T + 1] = "colon"
        /\ \A i \in 1 .. H : rendered[(T + 1) + i] = handle[i]
        /\ rendered[T + H + 2] = "blank" /\ rendered[T + H + 3] = "less"
        /\ rendered[T + H + H + 5] = "greater"
    BY <1>3, Zenon DEF AuthorAt
  <1>5. T + H + 3 \in 1 .. Len(rendered) /\ T + H + H + 5 \in 1 .. Len(rendered)
    BY <1>1, <1>4
  <1>6. open = T + H + 3
    <2>1. HoldsAt(rendered, "less", T + H + 3)
      BY <1>4, <1>5, Zenon DEF HoldsAt
    <2>2. open \in 1 .. Len(rendered) /\ rendered[open] = "less"
      <3>1. HoldsAt(rendered, "less", open)
        BY <1>2, <1>3, <2>1, FindIsLeast, Zenon
      <3> QED
        BY <3>1, Zenon DEF HoldsAt
    <2>3. "less" \in {"less", "greater"} /\ "less" # "greater"
      OBVIOUS
    <2>4. BracketAt("less", open, handle, T, H)
      <3>1. /\ \A i \in 1 .. T : type[i] # "less"
            /\ open \in 1 .. (T + H + H + 5)
        BY <1>4, <2>2, Zenon
      <3> QED
        BY <2>2, <2>3, <3>1, Brackets, Zenon
    <2> QED
      BY <2>3, <2>4, Zenon DEF BracketAt
  <1>7. close = T + H + H + 5
    <2>1. HoldsAt(rendered, "greater", T + H + H + 5)
      BY <1>4, <1>5, Zenon DEF HoldsAt
    <2>2. close \in 1 .. Len(rendered) /\ rendered[close] = "greater"
      <3>1. HoldsAt(rendered, "greater", close)
        BY <1>2, <1>3, <2>1, FindIsLeast, Zenon
      <3> QED
        BY <3>1, Zenon DEF HoldsAt
    <2>3. "greater" \in {"less", "greater"} /\ "less" # "greater"
      OBVIOUS
    <2>4. BracketAt("greater", close, handle, T, H)
      <3>1. /\ \A i \in 1 .. T : type[i] # "greater"
            /\ close \in 1 .. (T + H + H + 5)
        BY <1>4, <2>2, Zenon
      <3> QED
        BY <2>2, <2>3, <3>1, Brackets, Zenon
    <2> QED
      BY <2>3, <2>4, Zenon DEF BracketAt
  <1>8. /\ open # 0 /\ close # 0 /\ ~(close < open)
        /\ open - 1 = T + H + 2 /\ open + 1 = T + H + 4 /\ close - 1 = T + H + H + 4
    BY <1>1, <1>6, <1>7
  <1>9. ParseSig(rendered) = [name |-> Trim(SubSeq(rendered, 1, T + H + 2)),
                              email |-> SubSeq(rendered, T + H + 4, T + H + H + 4)]
    BY <1>2, <1>8, Zenon DEF ParseSig
  <1>10. PICK N : N = SubSeq(rendered, 1, T + H + 2)
    OBVIOUS
  <1>11. /\ N \in Seq(C) /\ Len(N) = T + H + 2
         /\ \A i \in 1 .. T + H + 2 : N[i] = rendered[i]
    <2>1. \A i \in 1 .. T + H + 2 : rendered[i] \in C
      BY <1>1, <1>3, <1>4
    <2> QED
      BY <1>1, <1>10, <2>1, SubSeqProperties
  <1>12. Trim(N) = SubSeq(N, 1, T + K + 1)
    <2>1. N[1] # "blank"
      BY <1>1, <1>4, <1>11
    <2>2. N[T + K + 1] # "blank"
      <3>1. CASE K = 0
        BY <1>1, <1>4, <1>11, <3>1
      <3>2. CASE K # 0
        <4>1. K \in 1 .. H /\ (T + 1) + K = T + K + 1 /\ T + K + 1 \in 1 .. T + H + 2
          BY <1>1, <3>2
        <4>2. rendered[(T + 1) + K] # "blank"
          BY <1>4, <3>2, <4>1, Zenon DEF EndsAt
        <4> QED
          BY <1>11, <4>1, <4>2
      <3> QED
        BY <3>1, <3>2
    <2>3. \A i \in (T + K + 2) .. (T + H + 2) : N[i] = "blank"
      <3> SUFFICES ASSUME NEW i \in (T + K + 2) .. (T + H + 2)
                   PROVE  N[i] = "blank"
        OBVIOUS
      <3>1. CASE i = T + H + 2
        BY <1>1, <1>4, <1>11, <3>1
      <3>2. CASE i # T + H + 2
        <4>1. /\ i - (T + 1) \in (K + 1) .. H /\ i - (T + 1) \in 1 .. H
              /\ i = (T + 1) + (i - (T + 1)) /\ i \in 1 .. T + H + 2
          BY <1>1, <3>2
        <4>2. PICK k : k = i - (T + 1)
          OBVIOUS
        <4>3. handle[k] = "blank" /\ rendered[(T + 1) + k] = handle[k]
          BY <1>4, <4>1, <4>2, Zenon DEF EndsAt
        <4> QED
          BY <1>11, <4>1, <4>2, <4>3
      <3> QED
        BY <3>1, <3>2
    <2>4. 1 \in 1 .. Len(N) /\ T + K + 1 \in 1 .. Len(N)
      BY <1>1, <1>11
    <2>5. 1 \in NotBlank(N) /\ T + K + 1 \in NotBlank(N)
      BY <1>11, <2>1, <2>2, <2>4, TrimParts, Zenon
    <2>6. ASSUME NEW i \in NotBlank(N)
          PROVE  1 =< i /\ i =< T + K + 1
      <3>1. i \in 1 .. Len(N) /\ N[i] # "blank"
        <4>1. N \in Seq(C)
          BY <1>11
        <4>2. \A k : k \in NotBlank(N) <=> k \in 1 .. Len(N) /\ N[k] # "blank"
          BY <4>1, TrimParts, Zenon
        <4> QED
          BY <4>2, Zenon
      <3>2. i \notin (T + K + 2) .. (T + H + 2) /\ i \in 1 .. T + H + 2
        BY <1>11, <2>3, <3>1, Zenon
      <3>3. \A k \in 1 .. T + H + 2 :
              k \notin (T + K + 2) .. (T + H + 2) => 1 =< k /\ k =< T + K + 1
        BY <1>1
      <3> QED
        BY <3>2, <3>3, Zenon
    <2> QED
      BY <1>11, <2>5, <2>6, TrimSpans, Zenon
  <1>13. SubSeq(N, 1, T + K + 1) = SubSeq(rendered, 1, T + K + 1)
    <2>0. PICK R : R = T + K + 1 /\ R \in Nat /\ \A i \in 1 .. R : i \in 1 .. T + H + 2
      BY <1>1
    <2>1. /\ \A i \in 1 .. R : N[i] \in C
          /\ \A i \in 1 .. R : rendered[i] \in C
      BY <1>1, <1>3, <1>4, <1>11, <2>0
    <2>2. PICK x, y : x = SubSeq(N, 1, R) /\ y = SubSeq(rendered, 1, R)
      OBVIOUS
    <2>3. x \in Seq(C) /\ Len(x) = R /\ \A i \in 1 .. R : x[i] = N[i]
      BY <2>0, <2>1, <2>2, SubSeqProperties
    <2>4. y \in Seq(C) /\ Len(y) = R /\ \A i \in 1 .. R : y[i] = rendered[i]
      BY <2>0, <2>1, <2>2, SubSeqProperties
    <2>5. \A i \in 1 .. R : x[i] = y[i]
      BY <1>11, <2>0, <2>3, <2>4, Zenon
    <2> QED
      BY <2>0, <2>2, <2>3, <2>4, <2>5, SeqEqual
  <1> QED
    BY <1>9, <1>10, <1>12, <1>13, Zenon DEF IsPlain

IsChip(name, type, handle) == CommitAuthorChip(name) = [type |-> type, handle |-> handle]

\* A name that is a type, a colon and a handle is taken apart at the first colon; one
\* that ends with the colon is not.
LEMMA ChipOfPlain ==
    ASSUME NEW C, {"colon", "blank", "less", "at", "greater"} \subseteq C,
           NEW type \in Seq(C), NEW handle \in Seq(C), type # <<>>,
           \A i \in 1 .. Len(type) : type[i] # "colon",
           NEW T, T = Len(type), NEW H, H = Len(handle), NEW K \in 0 .. H,
           NEW rendered, rendered = RenderAuthor(type, handle),
           NEW name, name = SubSeq(rendered, 1, T + K + 1)
    PROVE  /\ K # 0 => IsChip(name, type, SubSeq(handle, 1, K))
           /\ K = 0 => IsChip(name, None, type \o <<"colon">>)
  <1>1. T \in Nat /\ H \in Nat /\ 1 =< T
    BY EmptySeq
  <1>2. rendered \in Seq(C) /\ AuthorAt(rendered, type, handle, T, H)
    BY AuthorShape, Zenon
  <1>3. /\ Len(rendered) = T + H + H + 5
        /\ \A i \in 1 .. T : rendered[i] = type[i]
        /\ rendered[T + 1] = "colon"
        /\ \A i \in 1 .. H : rendered[(T + 1) + i] = handle[i]
    BY <1>2, Zenon DEF AuthorAt
  <1>4. /\ name \in Seq(C) /\ Len(name) = T + K + 1
        /\ \A i \in 1 .. T + K + 1 : name[i] = rendered[i]
    <2>1. \A i \in 1 .. T + K + 1 : rendered[i] \in C
      BY <1>1, <1>2, <1>3
    <2> QED
      BY <1>1, <2>1, SubSeqProperties
  <1>5. PICK at : at = Find(name, "colon")
    OBVIOUS
  <1>6. at = T + 1
    <2>1. PICK k : k = T + 1 /\ k \in 1 .. Len(name) /\ name[k] = "colon"
      <3>1. T + 1 \in 1 .. Len(name) /\ name[T + 1] = "colon"
        BY <1>1, <1>3, <1>4
      <3> QED
        BY <3>1, Zenon
    <2>2. \A j \in 1 .. (k - 1) : name[j] # "colon"
      BY <1>1, <1>3, <1>4, <2>1
    <2>3. HoldsAt(name, "colon", k)
      BY <2>1, Zenon DEF HoldsAt
    <2>4. HoldsAt(name, "colon", at) /\ at =< k
      BY <1>4, <1>5, <2>3, FindIsLeast, Zenon
    <2>5. at \in 1 .. Len(name) /\ name[at] = "colon" /\ at =< k
      BY <2>4, Zenon DEF HoldsAt
    <2>6. at \notin 1 .. (k - 1)
      BY <2>2, <2>5, Zenon
    <2> QED
      BY <1>1, <2>1, <2>5, <2>6
  <1>7. \A i \in 1 .. T : name[i] \in C /\ name[i] = type[i]
    BY <1>1, <1>3, <1>4
  <1>8. ASSUME K # 0
        PROVE  IsChip(name, type, SubSeq(handle, 1, K))
    <2>1. /\ at \in 2 .. (Len(name) - 1) /\ at - 1 = T /\ at + 1 = T + 2
          /\ Len(name) = T + K + 1
      BY <1>1, <1>4, <1>6, <1>8
    <2>2. CommitAuthorChip(name) = [type |-> SubSeq(name, 1, T),
                                    handle |-> SubSeq(name, T + 2, T + K + 1)]
      BY <1>5, <2>1, Zenon DEF CommitAuthorChip
    <2>3. SubSeq(name, 1, T) = type
      <3>1. PICK x : x = SubSeq(name, 1, T)
        OBVIOUS
      <3>2. x \in Seq(C) /\ Len(x) = T /\ \A i \in 1 .. T : x[i] = name[i]
        BY <1>1, <1>7, <3>1, SubSeqProperties
      <3> QED
        BY <1>7, <3>1, <3>2, SeqEqual
    <2>4. SubSeq(name, T + 2, T + K + 1) = SubSeq(handle, 1, K)
      <3>1. /\ \A i \in T + 2 .. T + K + 1 : name[i] \in C
            /\ \A i \in 1 .. K : handle[i] \in C
        BY <1>1, <1>4
      <3>2. PICK x, y : x = SubSeq(name, T + 2, T + K + 1) /\ y = SubSeq(handle, 1, K)
        OBVIOUS
      <3>3. x \in Seq(C) /\ Len(x) = K /\ \A i \in 1 .. K : x[i] = name[(T + 1) + i]
        BY <1>1, <3>1, <3>2, SubSeqProperties
      <3>4. y \in Seq(C) /\ Len(y) = K /\ \A i \in 1 .. K : y[i] = handle[i]
        BY <1>1, <3>1, <3>2, SubSeqProperties
      <3>5. \A i \in 1 .. K : (T + 1) + i \in 1 .. T + K + 1 /\ i \in 1 .. H
        BY <1>1
      <3>6. ASSUME NEW i \in 1 .. K
            PROVE  x[i] = y[i]
        <4>1. x[i] = name[(T + 1) + i] /\ name[(T + 1) + i] = rendered[(T + 1) + i]
          BY <1>4, <3>3, <3>5, Zenon
        <4>2. rendered[(T + 1) + i] = handle[i] /\ y[i] = handle[i]
          BY <1>3, <3>4, <3>5, Zenon
        <4> QED
          BY <4>1, <4>2, Zenon
      <3> QED
        BY <3>2, <3>3, <3>4, <3>6, SeqEqual
    <2> QED
      BY <2>2, <2>3, <2>4, Zenon DEF IsChip
  <1>9. ASSUME K = 0
        PROVE  IsChip(name, None, type \o <<"colon">>)
    <2>1. at \notin 2 .. (Len(name) - 1)
      BY <1>1, <1>4, <1>6, <1>9
    <2>2. CommitAuthorChip(name) = [type |-> None, handle |-> name]
      BY <1>5, <2>1, Zenon DEF CommitAuthorChip
    <2>3. PICK s, both : s = <<"colon">> /\ both = type \o s
      OBVIOUS
    <2>4. s \in Seq(C) /\ Len(s) = 1 /\ s[1] = "colon"
      BY <2>3
    <2>5. IsJoined(both, type, s)
      BY <2>3 DEF IsJoined
    <2>6. both \in Seq(C) /\ Follows(both, type, T, s)
      BY <2>4, <2>5, Joined, Zenon
    <2>7. Len(both) = T + 1 /\ both[T + 1] = "colon" /\ \A i \in 1 .. T : both[i] = type[i]
      BY <2>4, <2>6 DEF Follows
    <2>8. Len(name) = T + 1 /\ name[T + 1] = "colon"
      BY <1>1, <1>3, <1>4, <1>9
    <2>9. \A i \in 1 .. T + 1 : name[i] = both[i]
      <3>1. \A i \in 1 .. T + 1 : i \in 1 .. T \/ i = T + 1
        BY <1>1
      <3> QED
        BY <1>7, <2>7, <2>8, <3>1, Zenon
    <2>10. name = both
      BY <1>4, <2>6, <2>7, <2>8, <2>9, SeqEqual
    <2> QED
      BY <2>2, <2>3, <2>10, Zenon DEF IsChip
  <1> QED
    BY <1>8, <1>9

\* A write is shown in the history under the type and the handle of its actor, without
\* the blanks at the end of the handle, or it fails; one whose handle is blank is
\* shown under its type and a colon.  That is so for types and handles of any length
\* and characters, but for a handle that holds a mail.
THEOREM AuthorsAreNamed == Spec => []AuthorIsNamed
  <1>1. ASSUME input \in Inputs, input.of = "author", ~HoldsMail(input.handle),
               CommitAuthor(ParseSig(RenderAuthor(input.type, input.handle))) # None
        PROVE  CommitAuthorChip(CommitAuthor(ParseSig(RenderAuthor(input.type, input.handle))))
                 = IF Kept(input.handle) = <<>>
                     THEN [type |-> None, handle |-> input.type \o <<"colon">>]
                     ELSE [type |-> input.type, handle |-> Kept(input.handle)]
    <2>1. PICK type, handle, C :
              /\ type = input.type /\ handle = input.handle
              /\ C = STRING \cup {"colon", "blank", "less", "at", "greater"}
      OBVIOUS
    <2>2. /\ type \in Seq(STRING \ {"colon", "less", "greater", "blank"}) /\ type # <<>>
          /\ handle \in Seq(STRING)
      BY <1>1, <2>1, RenderedInputs
    <2>3. /\ {"colon", "blank", "less", "at", "greater"} \subseteq C
          /\ type # <<>>
      BY <2>1, <2>2
    <2>4. type \in Seq(C) /\ handle \in Seq(C)
      <3>1. STRING \ {"colon", "less", "greater", "blank"} \subseteq C /\ STRING \subseteq C
        BY <2>1
      <3> QED
        BY <2>2, <3>1, SeqMonotonic
    <2>5. /\ \A i \in 1 .. Len(type) : type[i] # "less" /\ type[i] # "greater"
          /\ \A i \in 1 .. Len(type) : type[i] # "colon"
          /\ type[1] # "blank"
      <3>1. \A i \in 1 .. Len(type) : type[i] \in STRING \ {"colon", "less", "greater", "blank"}
        BY <2>2, ElementOfSeq, Zenon
      <3>2. 1 \in 1 .. Len(type)
        BY <2>2, OutermostPlaces, Zenon
      <3> QED
        BY <3>1, <3>2
    <2>6. PICK l, g : l = Find(handle, "less") /\ g = Find(handle, "greater")
      BY Zenon
    <2>7. /\ l = 0 \/ (l \in 1 .. Len(handle) /\ handle[l] = "less"
                       /\ \A j \in 1 .. (l - 1) : handle[j] # "less")
          /\ g = 0 \/ (g \in 1 .. Len(handle) /\ handle[g] = "greater")
          /\ l = 0 => \A k \in 1 .. Len(handle) : handle[k] # "less"
          /\ g = 0 => \A k \in 1 .. Len(handle) : handle[k] # "greater"
      BY <2>4, <2>6, FindIsFirst, Zenon
    <2>8. l # 0 => g < l
      <3>1. l # 0 => Contains(handle, "less")
        BY <2>4, <2>6, FindIsFirst, Zenon
      <3> QED
        BY <1>1, <2>1, <2>6, <3>1, Zenon DEF HoldsMail
    <2>9. g = 0
      <3>1. ASSUME g # 0
            PROVE  FALSE
        <4>1. g \in 1 .. Len(handle) /\ handle[g] = "greater"
          BY <2>7, <3>1
        <4>2. \A k \in 1 .. Len(handle) : handle[k] = "less" => g < k
          <5> SUFFICES ASSUME NEW k \in 1 .. Len(handle), handle[k] = "less"
                       PROVE  g < k
            OBVIOUS
          <5>1. l # 0 /\ l \in 1 .. Len(handle) /\ k \notin 1 .. (l - 1)
            BY <2>7
          <5>2. l =< k
            BY <5>1
          <5> QED
            BY <2>8, <4>1, <5>1, <5>2
        <4>3. CommitAuthor(ParseSig(RenderAuthor(type, handle))) = None
          BY <2>3, <2>4, <2>5, <4>1, <4>2, ClosedFirst, Zenon
        <4> QED
          BY <1>1, <2>1, <4>3, Zenon
      <3> QED
        BY <3>1
    <2>10. l = 0
      <3>1. ASSUME l # 0
            PROVE  FALSE
        <4>1. l \in 1 .. Len(handle) /\ handle[l] = "less"
          BY <2>7, <3>1
        <4>2. \A k \in 1 .. Len(handle) : handle[k] # "greater"
          BY <2>7, <2>9, Zenon
        <4>3. CommitAuthor(ParseSig(RenderAuthor(type, handle))) = None
          BY <2>3, <2>4, <2>5, <4>1, <4>2, OpenedOnly, Zenon
        <4> QED
          BY <1>1, <2>1, <4>3, Zenon
      <3> QED
        BY <3>1
    <2>11. \A i \in 1 .. Len(handle) : handle[i] # "less" /\ handle[i] # "greater"
      BY <2>7, <2>9, <2>10, Zenon
    <2>12. PICK T, H, rendered :
              T = Len(type) /\ H = Len(handle) /\ rendered = RenderAuthor(type, handle)
      BY Zenon
    <2>13. PICK K \in 0 .. H : EndsAt(handle, H, K) /\ Kept(handle) = SubSeq(handle, 1, K)
      BY <2>4, <2>12, KeptEnds, Zenon
    <2>14. PICK name, email : /\ name = SubSeq(rendered, 1, T + K + 1)
                              /\ email = SubSeq(rendered, T + H + 4, T + H + H + 4)
      BY Zenon
    <2>15. ParseSig(rendered) = [name |-> name, email |-> email]
      <3>1. IsPlain(ParseSig(rendered), rendered, T, H, K)
        BY <2>3, <2>4, <2>5, <2>11, <2>12, <2>13, NameOfPlain, Zenon
      <3> QED
        BY <2>14, <3>1, Zenon DEF IsPlain
    <2>16. CommitAuthor(ParseSig(rendered)) = name
      <3>1. CommitAuthor(ParseSig(rendered)) = ParseSig(rendered).name
        BY <1>1, <2>1, <2>12, Zenon DEF CommitAuthor
      <3>2. [name |-> name, email |-> email].name = name
        OBVIOUS
      <3> QED
        BY <2>15, <3>1, <3>2, Zenon
    <2>17. /\ K # 0 => IsChip(name, type, Kept(handle))
           /\ K = 0 => IsChip(name, None, type \o <<"colon">>)
      BY <2>3, <2>4, <2>5, <2>12, <2>13, <2>14, ChipOfPlain, Zenon
    <2>18. K = 0 <=> Kept(handle) = <<>>
      <3>1. H \in Nat /\ H = Len(handle) /\ \A i \in 1 .. K : handle[i] \in STRING
        BY <2>2, <2>12
      <3>2. Len(SubSeq(handle, 1, K)) = K
        BY <3>1, SubSeqProperties
      <3>3. SubSeq(handle, 1, K) \in Seq(STRING)
        BY <3>1, SubSeqProperties
      <3> QED
        BY <2>13, <3>2, <3>3, EmptySeq
    <2> QED
      BY <2>1, <2>12, <2>16, <2>17, <2>18, Zenon DEF IsChip
  <1>2. input \in Inputs => AuthorIsNamed
    BY <1>1, Zenon DEF AuthorIsNamed, Is
  <1> QED
    BY <1>2, InputStays, PTL

-----------------------------------------------------------------------------
(* What a text has at some of its places.                                  *)

\* How many members a set of places has up to one of them.
Rank(S, i) == Cardinality({j \in S : j =< i})

\* The members of a finite set of numbers are counted from 1 to its size, in order.
LEMMA RankCounts ==
    ASSUME NEW S \in SUBSET Int, IsFiniteSet(S)
    PROVE  /\ Cardinality(S) \in Nat
           /\ \A i \in S : Rank(S, i) \in 1 .. Cardinality(S)
           /\ \A i \in S, j \in S : i < j => Rank(S, i) < Rank(S, j)
  <1>1. Cardinality(S) \in Nat
    BY FS_CardinalityType
  <1>2. ASSUME NEW i \in S
        PROVE  /\ IsFiniteSet({j \in S : j =< i})
               /\ Rank(S, i) \in 1 .. Cardinality(S)
    <2> DEFINE below == {j \in S : j =< i}
    <2>1. below \in SUBSET S /\ i \in below
      OBVIOUS
    <2>2. IsFiniteSet(below) /\ Cardinality(below) =< Cardinality(S)
      BY <2>1, FS_Subset
    <2>3. Cardinality(below) \in Nat
      BY <2>2, FS_CardinalityType
    <2>4. Cardinality(below) # 0
      BY <2>1, <2>2, FS_EmptySet
    <2> QED
      BY <1>1, <2>2, <2>3, <2>4 DEF Rank
  <1>3. ASSUME NEW i \in S, NEW j \in S, i < j
        PROVE  Rank(S, i) < Rank(S, j)
    <2> DEFINE low == {k \in S : k =< i}
               high == {k \in S : k =< j}
    <2>1. low \in SUBSET high /\ j \in high /\ j \notin low
      <3>1. i \in Int /\ j \in Int /\ \A k \in S : k \in Int
        OBVIOUS
      <3>2. \A k \in S : k =< i => k =< j
        BY <1>3, <3>1
      <3>3. ~(j =< i) /\ j =< j
        BY <1>3, <3>1
      <3> QED
        BY <3>2, <3>3
    <2>2. IsFiniteSet(high)
      BY <1>2
    <2>3. Cardinality(low) =< Cardinality(high) /\ (Cardinality(low) = Cardinality(high) => low = high)
      BY <2>1, <2>2, FS_Subset
    <2>4. Rank(S, i) \in 1 .. Cardinality(S) /\ Rank(S, j) \in 1 .. Cardinality(S)
      BY <1>2
    <2>5. Rank(S, i) = Cardinality(low) /\ Rank(S, j) = Cardinality(high)
      BY DEF Rank
    <2>6. low # high
      BY <2>1
    <2> HIDE DEF low, high
    <2> QED
      BY <1>1, <2>3, <2>4, <2>5, <2>6
  <1> QED
    BY <1>1, <1>2, <1>3

\* Nth and Rank undo each other, and Nth keeps the order.
LEMMA NthIsPlace ==
    ASSUME NEW S \in SUBSET Int, IsFiniteSet(S)
    PROVE  /\ \A n \in 1 .. Cardinality(S) : Nth(S, n) \in S /\ Rank(S, Nth(S, n)) = n
           /\ \A i \in S : Nth(S, Rank(S, i)) = i
           /\ \A n \in 1 .. Cardinality(S), m \in 1 .. Cardinality(S) :
                n < m => Nth(S, n) < Nth(S, m)
  <1> DEFINE card == Cardinality(S)
             rank == [i \in S |-> Rank(S, i)]
  <1>1. /\ card \in Nat
        /\ \A i \in S : Rank(S, i) \in 1 .. card
        /\ \A i \in S, j \in S : i < j => Rank(S, i) < Rank(S, j)
    BY RankCounts
  <1>2. \A i \in S, j \in S : Rank(S, i) = Rank(S, j) => i = j
    BY <1>1
  <1>3. rank \in Injection(S, 1 .. card)
    BY <1>1, <1>2 DEF Injection, IsInjective
  <1>4. IsFiniteSet(1 .. card) /\ Cardinality(1 .. card) = card
    BY <1>1, FS_Interval
  <1>5. rank \in Surjection(S, 1 .. card)
    BY <1>3, <1>4, FS_Injection
  <1>6. \A n \in 1 .. card : \E i \in S : Rank(S, i) = n
    BY <1>5 DEF Surjection
  <1>7. \A n \in 1 .. card : Nth(S, n) \in S /\ Rank(S, Nth(S, n)) = n
    BY <1>6 DEF Nth, Rank
  <1>8. \A i \in S : Nth(S, Rank(S, i)) = i
    BY <1>1, <1>2, <1>7
  <1>9. ASSUME NEW n \in 1 .. card, NEW m \in 1 .. card, n < m
        PROVE  Nth(S, n) < Nth(S, m)
    <2>1. PICK i \in S, j \in S : i = Nth(S, n) /\ j = Nth(S, m)
      BY <1>7
    <2>2. Rank(S, i) = n /\ Rank(S, j) = m
      BY <1>7, <2>1
    <2>3. ~(j < i) /\ i # j
      BY <1>1, <1>9, <2>2
    <2> QED
      BY <2>1, <2>3
  <1> QED
    BY <1>7, <1>8, <1>9

\* A map of one set of places onto another that keeps their order maps them number by
\* number.
LEMMA NthOfImage ==
    ASSUME NEW S \in SUBSET Int, NEW T \in SUBSET Int, IsFiniteSet(S), NEW h \in [S -> T],
           \A i \in S, j \in S : i < j => h[i] < h[j],
           \A k \in T : \E i \in S : h[i] = k
    PROVE  /\ IsFiniteSet(T) /\ Cardinality(T) = Cardinality(S)
           /\ \A n \in 1 .. Cardinality(S) : Nth(T, n) = h[Nth(S, n)]
  <1>1. \A i \in S, j \in S : (i < j <=> h[i] < h[j]) /\ (i = j <=> h[i] = h[j])
    <2> TAKE i \in S, j \in S
    <2>1. i \in Int /\ j \in Int /\ h[i] \in Int /\ h[j] \in Int
      OBVIOUS
    <2>2. (i < j => h[i] < h[j]) /\ (j < i => h[j] < h[i])
      OBVIOUS
    <2> QED
      BY <2>1, <2>2
  <1>2. h \in Bijection(S, T)
    BY <1>1 DEF Bijection, Injection, Surjection, IsInjective
  <1>3. IsFiniteSet(T) /\ Cardinality(T) = Cardinality(S)
    BY <1>2, FS_Bijection DEF ExistsBijection
  <1>4. ASSUME NEW i \in S
        PROVE  Rank(T, h[i]) = Rank(S, i)
    <2> DEFINE low == {j \in S : j =< i}
               image == {k \in T : k =< h[i]}
               part == [j \in low |-> h[j]]
    <2>1. \A j \in S : h[j] \in T /\ (j =< i <=> h[j] =< h[i])
      <3> TAKE j \in S
      <3>1. i \in Int /\ j \in Int /\ h[i] \in Int /\ h[j] \in Int
        OBVIOUS
      <3>2. (i < j <=> h[i] < h[j])
        BY <1>1
      <3> QED
        BY <3>1, <3>2
    <2>2. part \in Injection(low, image)
      BY <1>1, <2>1 DEF Injection, IsInjective
    <2>3. \A k \in image : \E j \in low : h[j] = k
      BY <2>1
    <2>4. part \in Surjection(low, image)
      BY <2>1, <2>3 DEF Surjection
    <2>5. IsFiniteSet(low)
      <3>1. low \in SUBSET S
        OBVIOUS
      <3> QED
        BY <3>1, FS_Subset
    <2>6. Cardinality(image) = Cardinality(low)
      BY <2>2, <2>4, <2>5, FS_Bijection DEF ExistsBijection, Bijection
    <2> QED
      BY <2>6 DEF Rank
  <1>5. ASSUME NEW n \in 1 .. Cardinality(S)
        PROVE  Nth(T, n) = h[Nth(S, n)]
    <2>1. PICK i \in S : i = Nth(S, n) /\ Rank(S, i) = n
      BY NthIsPlace
    <2>2. h[i] \in T /\ Rank(T, h[i]) = n
      BY <1>4, <2>1
    <2>3. Nth(T, Rank(T, h[i])) = h[i]
      BY <1>3, <2>2, NthIsPlace
    <2> QED
      BY <2>1, <2>2, <2>3
  <1> QED
    BY <1>3, <1>5

\* What a text has at some places, place by place.
LEMMA AtPlaces ==
    ASSUME NEW f, NEW S \in SUBSET Int, IsFiniteSet(S)
    PROVE  /\ DOMAIN At(f, S) = 1 .. Cardinality(S) /\ Len(At(f, S)) = Cardinality(S)
           /\ \A n \in 1 .. Cardinality(S) : At(f, S)[n] = f[Nth(S, n)]
           /\ \A i \in S : At(f, S)[Rank(S, i)] = f[i]
  <1>1. Cardinality(S) \in Nat
    BY FS_CardinalityType
  <1>2. /\ At(f, S) = [n \in 1 .. Cardinality(S) |-> f[Nth(S, n)]]
    BY DEF At
  <1>3. \A i \in S : Rank(S, i) \in 1 .. Cardinality(S) /\ Nth(S, Rank(S, i)) = i
    BY RankCounts, NthIsPlace
  <1> QED
    BY <1>1, <1>2, <1>3

\* SelectInSeq takes the least of the places that pass its test, or 0.
LEMMA LeastPlace ==
    ASSUME NEW n \in Nat, NEW I \in SUBSET (1 .. n),
           NEW at, at = IF I # {} THEN Min(I) ELSE 0
    PROVE  /\ at = 0 => I = {}
           /\ at # 0 => at \in I /\ \A i \in I : at =< i
  <1>1. I \in SUBSET Nat /\ 0 \notin I
    OBVIOUS
  <1>2. CASE I = {}
    BY <1>2
  <1>3. CASE I # {}
    <2>1. \E m \in I : \A i \in I : m =< i
      BY <1>1, <1>3, LeastExists
    <2>2. Min(I) \in I /\ \A i \in I : Min(I) =< i
      BY <2>1 DEF Min
    <2> QED
      BY <1>1, <1>3, <2>2
  <1> QED
    BY <1>2, <1>3

-----------------------------------------------------------------------------
(* The body of a page.                                                     *)

\* Up to line k, line number top is the only one that is not blank.
OnlyWordTo(lines, top, k) ==
    /\ k \in 1 .. Len(lines) /\ top \in 1 .. k
    /\ \A i \in 1 .. k : IsBlank(lines[i]) <=> i # top

\* Without the lines up to k, a text has all its words but the first.
LEMMA WordsBelow ==
    ASSUME NEW C, NEW lines \in Seq(C), NEW top, NEW k, OnlyWordTo(lines, top, k)
    PROVE  /\ Words(lines) # <<>> /\ Head(Words(lines)) = lines[top]
           /\ Words(SubSeq(lines, k + 1, Len(lines))) = Tail(Words(lines))
  <1> DEFINE S == {i \in DOMAIN lines : ~IsBlank(lines[i])}
             S1 == S \ {top}
             rest == SubSeq(lines, k + 1, Len(lines))
             T == {i \in DOMAIN rest : ~IsBlank(rest[i])}
             h == [i \in T |-> i + k]
  <1>1. /\ DOMAIN lines = 1 .. Len(lines) /\ Len(lines) \in Nat
        /\ k \in 1 .. Len(lines) /\ top \in 1 .. k
        /\ \A i \in 1 .. k : IsBlank(lines[i]) <=> i # top
    BY DEF OnlyWordTo
  <1>2. /\ DOMAIN rest = 1 .. Len(lines) - k
        /\ \A i \in 1 .. Len(lines) - k : rest[i] = lines[i + k]
    BY <1>1
  <1>3. /\ S \in SUBSET Int /\ S1 \in SUBSET Int /\ T \in SUBSET Int
        /\ IsFiniteSet(S) /\ IsFiniteSet(S1) /\ IsFiniteSet(T)
    <2>1. S \in SUBSET (1 .. Len(lines)) /\ S1 \in SUBSET S /\ T \in SUBSET (1 .. Len(lines) - k)
      BY <1>1, <1>2
    <2>2. IsFiniteSet(1 .. Len(lines)) /\ IsFiniteSet(1 .. Len(lines) - k)
      BY <1>1, FS_Interval
    <2>3. IsFiniteSet(S) /\ IsFiniteSet(T)
      BY <2>1, <2>2, FS_Subset
    <2>4. IsFiniteSet(S1)
      BY <2>1, <2>3, FS_Subset
    <2>5. S \in SUBSET Int /\ S1 \in SUBSET Int /\ T \in SUBSET Int
      BY <1>1, <2>1
    <2> QED
      BY <2>3, <2>4, <2>5
  <1>4. top \in S /\ \A i \in S1 : i \in k + 1 .. Len(lines)
    BY <1>1
  <1>5. Cardinality(S) \in Nat /\ Cardinality(S1) = Cardinality(S) - 1
    BY <1>3, <1>4, FS_CardinalityType, FS_RemoveElement
  <1>6. ASSUME NEW i \in S1
        PROVE  Rank(S, i) = Rank(S1, i) + 1
    <2> DEFINE low == {j \in S1 : j =< i}
    <2>1. {j \in S : j =< i} = low \cup {top}
      <3>1. top =< i
        BY <1>1, <1>4
      <3> QED
        BY <1>4, <3>1
    <2>2. top \notin low
      OBVIOUS
    <2>3. IsFiniteSet(low)
      <3>1. low \in SUBSET S1
        OBVIOUS
      <3> QED
        BY <1>3, <3>1, FS_Subset
    <2>4. Cardinality(low \cup {top}) = Cardinality(low) + 1
      BY <2>2, <2>3, FS_AddElement
    <2> QED
      BY <2>1, <2>4 DEF Rank
  <1>7. Rank(S, top) = 1
    <2>1. {j \in S : j =< top} = {top}
      <3>1. \A j \in S : j =< top <=> j = top
        BY <1>1, <1>4
      <3> QED
        BY <1>4, <3>1
    <2> QED
      BY <2>1, FS_Singleton DEF Rank
  <1>8. /\ Cardinality(S1) = Cardinality(T)
        /\ \A n \in 1 .. Cardinality(T) : Nth(T, n) \in T /\ Nth(S1, n) = Nth(T, n) + k
    <2>1. h \in [T -> S1]
      BY <1>1, <1>2, <1>4
    <2>2. \A i \in T, j \in T : i < j => h[i] < h[j]
      BY <1>1, <1>3
    <2>3. \A i \in S1 : \E j \in T : h[j] = i
      <3> TAKE i \in S1
      <3>1. i - k \in 1 .. Len(lines) - k /\ (i - k) + k = i
        BY <1>1, <1>4
      <3>2. i - k \in T
        BY <1>2, <3>1
      <3> QED
        BY <3>1, <3>2
    <2>4. \A n \in 1 .. Cardinality(T) : Nth(T, n) \in T
      BY <1>3, NthIsPlace
    <2>5. \A i \in T : h[i] = i + k
      OBVIOUS
    <2> HIDE DEF S, S1, T, h
    <2>6. /\ Cardinality(S1) = Cardinality(T)
          /\ \A n \in 1 .. Cardinality(T) : Nth(S1, n) = h[Nth(T, n)]
      BY <1>3, <2>1, <2>2, <2>3, NthOfImage
    <2> QED
      BY <2>4, <2>5, <2>6
  <1>9. ASSUME NEW n \in 1 .. Cardinality(S1)
        PROVE  n + 1 \in 1 .. Cardinality(S) /\ Nth(S, n + 1) = Nth(S1, n)
    <2>1. Nth(S1, n) \in S1 /\ Rank(S1, Nth(S1, n)) = n
      BY <1>3, NthIsPlace
    <2>2. Rank(S, Nth(S1, n)) = n + 1
      BY <1>6, <2>1
    <2>3. Nth(S, Rank(S, Nth(S1, n))) = Nth(S1, n)
      BY <1>3, <2>1, NthIsPlace
    <2> QED
      BY <1>5, <2>2, <2>3
  <1>10. Words(lines) = At(lines, S) /\ Words(rest) = At(rest, T)
    BY DEF Words
  <1> HIDE DEF S, S1, T, h, rest
  <1>11. /\ DOMAIN At(lines, S) = 1 .. Cardinality(S) /\ Len(At(lines, S)) = Cardinality(S)
         /\ \A n \in 1 .. Cardinality(S) : At(lines, S)[n] = lines[Nth(S, n)]
         /\ At(lines, S)[1] = lines[top]
    BY <1>3, <1>4, <1>7, AtPlaces
  <1>12. Cardinality(S) >= 1
    <2>1. Rank(S, top) \in 1 .. Cardinality(S)
      BY <1>3, <1>4, RankCounts
    <2> QED
      BY <1>5, <1>7, <2>1
  <1>13. ASSUME NEW n \in 1 .. Cardinality(T)
         PROVE  rest[Nth(T, n)] = At(lines, S)[n + 1]
    <2>1. Nth(T, n) \in 1 .. Len(lines) - k
      BY <1>2, <1>8 DEF T
    <2>2. rest[Nth(T, n)] = lines[Nth(S, n + 1)]
      BY <1>2, <1>8, <1>9, <2>1
    <2> QED
      BY <1>8, <1>9, <1>11, <2>2
  <1>14. At(rest, T) = [n \in 1 .. Cardinality(S) - 1 |-> At(lines, S)[n + 1]]
    BY <1>5, <1>8, <1>13 DEF At
  <1>15. PICK words : words = At(lines, S)
    OBVIOUS
  <1>16. words = [n \in 1 .. Cardinality(S) |-> lines[Nth(S, n)]]
    BY <1>15 DEF At
  <1>17. Len(words) = Cardinality(S) /\ words # <<>> /\ Head(words) = words[1]
    BY <1>5, <1>11, <1>12, <1>15, <1>16
  <1>18. Tail(words) = [n \in 1 .. Cardinality(S) - 1 |-> words[n + 1]]
    BY <1>5, <1>12, <1>16, <1>17
  <1> QED
    BY <1>10, <1>11, <1>14, <1>15, <1>17, <1>18 DEF rest

\* body_after_title leaves the text as it is, or takes off a heading that repeats the
\* title, what is blank before it and the empty lines behind it; and the latter if
\* there is such a heading.
LEMMA BodyBelow ==
    ASSUME NEW C, NEW lines \in Seq(C), NEW title
    PROVE  \/ /\ BodyAfterTitle(lines, title) = lines
              /\ \A top \in DOMAIN lines :
                    /\ ~IsBlank(lines[top]) /\ \A i \in 1 .. top - 1 : IsBlank(lines[i])
                    => ~(lines[top].kind = "heading" /\ lines[top].title # None
                         /\ lines[top].title = title)
           \/ \E top, k :
                /\ OnlyWordTo(lines, top, k)
                /\ lines[top].kind = "heading" /\ lines[top].title = title
                /\ BodyAfterTitle(lines, title) = SubSeq(lines, k + 1, Len(lines))
  <1> DEFINE words == {i \in 1 .. Len(lines) : ~IsBlank(lines[i])}
             top == IF words # {} THEN Min(words) ELSE 0
             tail == SubSeq(lines, top + 1, Len(lines))
             below == {i \in 1 .. Len(tail) : tail[i].kind # "empty"}
             text == IF below # {} THEN Min(below) ELSE 0
             repeats == top # 0 /\ lines[top].kind = "heading" /\ lines[top].title # None
                        /\ lines[top].title = title
  <1>1. BodyAfterTitle(lines, title) =
          IF repeats THEN IF text = 0 THEN <<>> ELSE SubSeq(tail, text, Len(tail)) ELSE lines
    BY DEF BodyAfterTitle, SelectInSeq
  <1>2. Len(lines) \in Nat /\ DOMAIN lines = 1 .. Len(lines)
    OBVIOUS
  <1>3. /\ top = 0 => words = {}
        /\ top # 0 => top \in words /\ \A i \in words : top =< i
    <2>1. words \in SUBSET (1 .. Len(lines))
      OBVIOUS
    <2> QED
      BY <1>2, <2>1, LeastPlace
  <1>4. ASSUME NEW i \in DOMAIN lines, ~IsBlank(lines[i]),
               \A j \in 1 .. i - 1 : IsBlank(lines[j])
        PROVE  top = i
    <2>1. i \in words
      BY <1>2, <1>4
    <2>2. top \in words /\ top =< i
      BY <1>3, <2>1
    <2>3. top \notin 1 .. i - 1
      BY <1>4, <2>2
    <2> QED
      BY <1>2, <2>2, <2>3
  <1>5. CASE ~repeats
    <2>1. BodyAfterTitle(lines, title) = lines
      BY <1>1, <1>5
    <2>2. ASSUME NEW i \in DOMAIN lines, ~IsBlank(lines[i]),
                 \A j \in 1 .. i - 1 : IsBlank(lines[j])
          PROVE  ~(lines[i].kind = "heading" /\ lines[i].title # None
                   /\ lines[i].title = title)
      <3>1. top = i /\ i # 0
        BY <1>2, <1>4, <2>2
      <3> HIDE DEF top
      <3> QED
        BY <1>5, <3>1
    <2> QED
      BY <2>1, <2>2
  <1>6. CASE repeats
    <2>1. top \in 1 .. Len(lines) /\ ~IsBlank(lines[top]) /\ \A i \in 1 .. top - 1 : IsBlank(lines[i])
      <3>1. top \in words /\ \A i \in words : top =< i
        BY <1>3, <1>6
      <3> HIDE DEF top
      <3>2. \A i \in 1 .. top - 1 : i \notin words /\ i \in 1 .. Len(lines)
        BY <1>2, <3>1
      <3>3. \A i \in 1 .. top - 1 : IsBlank(lines[i])
        BY <3>2 DEF IsBlank
      <3> QED
        BY <3>1, <3>3
    <2> HIDE DEF top
    <2>2. /\ tail \in Seq(C) /\ Len(tail) = Len(lines) - top
          /\ \A i \in 1 .. Len(lines) - top : tail[i] = lines[i + top]
      <3>1. top + 1 \in Int /\ Len(lines) \in Int /\ \A i \in top + 1 .. Len(lines) : lines[i] \in C
        BY <1>2, <2>1
      <3>2. tail \in Seq(C)
        BY <3>1, SubSeqProperties
      <3>3. Len(tail) = IF top + 1 =< Len(lines) THEN Len(lines) - (top + 1) + 1 ELSE 0
        BY <3>1, SubSeqProperties
      <3>4. \A i \in 1 .. Len(lines) - (top + 1) + 1 : tail[i] = lines[(top + 1) + i - 1]
        BY <3>1, SubSeqProperties
      <3>5. top \in Int /\ top =< Len(lines) /\ Len(lines) \in Int
        BY <1>2, <2>1
      <3> HIDE DEF tail
      <3>6. Len(tail) = Len(lines) - top
        BY <3>3, <3>5
      <3>7. \A i \in 1 .. Len(lines) - top : tail[i] = lines[i + top]
        <4> TAKE i \in 1 .. Len(lines) - top
        <4>1. i \in 1 .. Len(lines) - (top + 1) + 1 /\ (top + 1) + i - 1 = i + top
          BY <3>5
        <4> QED
          BY <3>4, <4>1
      <3> QED
        BY <3>2, <3>6, <3>7
    <2>3. Len(tail) \in Nat
      BY <2>2
    <2>4. /\ text = 0 => below = {}
          /\ text # 0 => text \in below /\ \A i \in below : text =< i
      <3>1. below \in SUBSET (1 .. Len(tail))
        OBVIOUS
      <3> QED
        BY <2>3, <3>1, LeastPlace
    <2> HIDE DEF tail
    <2>5. PICK k : k = IF text = 0 THEN Len(lines) ELSE top + text - 1
      OBVIOUS
    <2>6. k \in top .. Len(lines) /\ \A i \in 1 .. k - top : tail[i].kind = "empty"
      <3>1. CASE text = 0
        <4>1. \A i \in 1 .. Len(tail) : tail[i].kind = "empty"
          BY <2>4, <3>1
        <4>2. k = Len(lines)
          BY <2>5, <3>1
        <4> QED
          BY <1>2, <2>1, <2>2, <4>1, <4>2
      <3>2. CASE text # 0
        <4>1. text \in 1 .. Len(tail) /\ \A i \in below : text =< i
          BY <2>4, <3>2
        <4> HIDE DEF text
        <4>2. \A i \in 1 .. text - 1 : i \in 1 .. Len(tail) /\ ~(text =< i)
          BY <2>3, <4>1
        <4>3. \A i \in 1 .. text - 1 : tail[i].kind = "empty"
          BY <4>1, <4>2
        <4> QED
          BY <1>2, <2>1, <2>2, <2>5, <3>2, <4>1, <4>3
      <3> QED
        BY <3>1, <3>2
    <2>7. OnlyWordTo(lines, top, k)
      <3>1. ASSUME NEW i \in 1 .. k, i # top
            PROVE  IsBlank(lines[i])
        <4>1. CASE i < top
          BY <1>2, <2>1, <3>1, <4>1
        <4>2. CASE i > top
          <5>1. i - top \in 1 .. k - top /\ i - top \in 1 .. Len(lines) - top /\ (i - top) + top = i
            BY <1>2, <2>1, <2>6, <4>2
          <5>2. lines[i].kind = "empty"
            BY <2>2, <2>6, <5>1
          <5> QED
            BY <5>2 DEF IsBlank
        <4> QED
          BY <2>1, <2>6, <3>1, <4>1, <4>2
      <3> QED
        BY <1>2, <2>1, <2>6, <3>1 DEF OnlyWordTo
    <2>8. BodyAfterTitle(lines, title) = SubSeq(lines, k + 1, Len(lines))
      <3>1. CASE text = 0
        <4>1. BodyAfterTitle(lines, title) = <<>>
          BY <1>1, <1>6, <3>1
        <4>2. SubSeq(lines, Len(lines) + 1, Len(lines)) = <<>>
          BY <1>2
        <4> QED
          BY <2>5, <3>1, <4>1, <4>2
      <3>2. CASE text # 0
        <4>1. BodyAfterTitle(lines, title) = SubSeq(tail, text, Len(tail))
          BY <1>1, <1>6, <3>2
        <4>2. text \in 1 .. Len(tail)
          BY <2>4, <3>2
        <4> HIDE DEF text
        <4>3. SubSeq(tail, text, Len(tail)) =
                [i \in 1 .. Len(tail) - text + 1 |-> tail[text + i - 1]]
          BY <2>2, <2>3, <4>2
        <4>4. SubSeq(lines, k + 1, Len(lines)) =
                [i \in 1 .. Len(lines) - k |-> lines[k + i]]
          BY <1>2, <2>1, <2>6
        <4>5. Len(lines) - k = Len(tail) - text + 1
          BY <1>2, <2>1, <2>2, <2>5, <3>2, <4>2
        <4>6. ASSUME NEW i \in 1 .. Len(lines) - k
              PROVE  tail[text + i - 1] = lines[k + i]
          <5>1. text + i - 1 \in 1 .. Len(lines) - top /\ (text + i - 1) + top = k + i
            BY <1>2, <2>1, <2>2, <2>5, <3>2, <4>2, <4>5
          <5> QED
            BY <2>2, <5>1
        <4> QED
          BY <4>1, <4>3, <4>4, <4>5, <4>6
      <3> QED
        BY <3>1, <3>2
    <2>9. lines[top].kind = "heading" /\ lines[top].title = title
      BY <1>6
    <2> QED
      BY <2>7, <2>8, <2>9
  <1> QED
    BY <1>5, <1>6

\* derive_title takes the first word for the title if it is a heading.
LEMMA TitleIsFirstWord ==
    ASSUME NEW C, NEW lines \in Seq(C), NEW fallback, NEW top \in DOMAIN lines,
           lines[top].kind = "heading", \A i \in 1 .. top - 1 : IsBlank(lines[i])
    PROVE  DeriveTitle(lines, fallback) = lines[top].title
  <1> DEFINE headings == {i \in 1 .. Len(lines) : lines[i].kind = "heading"}
             at == IF headings # {} THEN Min(headings) ELSE 0
  <1>1. DeriveTitle(lines, fallback) = IF at = 0 THEN fallback ELSE lines[at].title
    BY DEF DeriveTitle, SelectInSeq
  <1>2. Len(lines) \in Nat /\ top \in 1 .. Len(lines) /\ top \in headings
    OBVIOUS
  <1>3. at \in headings /\ at =< top
    <2>1. headings \in SUBSET (1 .. Len(lines))
      OBVIOUS
    <2>2. Len(lines) \in Nat
      OBVIOUS
    <2>3. /\ at = 0 => headings = {}
          /\ at # 0 => at \in headings /\ \A i \in headings : at =< i
      BY <2>1, <2>2, LeastPlace
    <2> QED
      BY <1>2, <2>3
  <1> HIDE DEF at
  <1>4. at \notin 1 .. top - 1
    BY <1>3 DEF IsBlank
  <1>5. at = top
    BY <1>2, <1>3, <1>4
  <1> QED
    BY <1>1, <1>2, <1>5

\* The first of the words of a text, and what is before it.
LEMMA FirstWord ==
    ASSUME NEW C, NEW lines \in Seq(C), Words(lines) # <<>>
    PROVE  \E top \in DOMAIN lines :
              /\ ~IsBlank(lines[top]) /\ \A i \in 1 .. top - 1 : IsBlank(lines[i])
              /\ Head(Words(lines)) = lines[top]
  <1> DEFINE S == {i \in DOMAIN lines : ~IsBlank(lines[i])}
  <1>1. DOMAIN lines = 1 .. Len(lines) /\ Len(lines) \in Nat
    OBVIOUS
  <1>2. S \in SUBSET Int /\ S \in SUBSET Nat /\ IsFiniteSet(S)
    <2>1. S \in SUBSET (1 .. Len(lines)) /\ IsFiniteSet(1 .. Len(lines))
      BY <1>1, FS_Interval
    <2>2. IsFiniteSet(S)
      BY <2>1, FS_Subset
    <2> QED
      BY <1>1, <2>1, <2>2
  <1>3. S # {}
    <2>1. CASE S = {}
      <3>1. Words(lines) = [n \in 1 .. 0 |-> lines[Nth(S, n)]]
        BY <2>1, FS_EmptySet DEF Words, At
      <3> QED
        BY <3>1
    <2> QED
      BY <2>1
  <1>4. PICK top \in S : \A i \in S : top =< i
    BY <1>2, <1>3, LeastExists
  <1>5. \A i \in 1 .. top - 1 : IsBlank(lines[i])
    <2>1. top \in 1 .. Len(lines)
      BY <1>1, <1>4
    <2> QED
      BY <1>1, <1>4, <2>1
  <1>6. OnlyWordTo(lines, top, top)
    BY <1>1, <1>4, <1>5 DEF OnlyWordTo
  <1> QED
    BY <1>4, <1>5, <1>6, WordsBelow

\* Title and body together say what the file says, for texts of any length, whichever
\* save the title is of.
THEOREM BodiesAlwaysKeepText == Spec => []BodyKeepsText
  <1>1. ASSUME input \in Inputs
        PROVE  BodyKeepsText
    <2> SUFFICES ASSUME input.of = "body"
                 PROVE  BodyKeepsText
      BY DEF BodyKeepsText, Is
    <2> DEFINE C == [kind : {"empty", "blanks", "text", "heading"}, title : STRING \cup {None}]
    <2>1. PICK lines, titled : lines = input.lines /\ titled = input.titled
      OBVIOUS
    <2>2. lines \in Seq(C)
      BY <1>1, <2>1, RenderedInputs
    <2>3. PICK title : title = DeriveTitle(titled, "page")
      OBVIOUS
    <2>4. PICK body, words : body = BodyAfterTitle(lines, title) /\ words = Words(lines)
      OBVIOUS
    <2> HIDE DEF C
    <2>5. ASSUME Words(body) # words
          PROVE  /\ words # <<>> /\ Words(body) = Tail(words)
                 /\ Head(words) = [kind |-> "heading", title |-> title]
      <3>1. PICK top, k :
              /\ OnlyWordTo(lines, top, k)
              /\ lines[top].kind = "heading" /\ lines[top].title = title
              /\ body = SubSeq(lines, k + 1, Len(lines))
        BY <2>2, <2>4, <2>5, BodyBelow
      <3>2. words # <<>> /\ Head(words) = lines[top] /\ Words(body) = Tail(words)
        BY <2>2, <2>4, <3>1, WordsBelow
      <3>3. top \in 1 .. Len(lines)
        BY <2>2, <3>1 DEF OnlyWordTo
      <3>4. lines[top] \in C
        BY <2>2, <3>3
      <3> QED
        BY <3>1, <3>2, <3>4 DEF C
    <2>6. ASSUME titled = lines, words # <<>>, Head(words).kind = "heading",
                 Head(words).title # None
          PROVE  Words(body) = Tail(words)
      <3>1. PICK top \in DOMAIN lines :
              /\ ~IsBlank(lines[top]) /\ \A i \in 1 .. top - 1 : IsBlank(lines[i])
              /\ Head(words) = lines[top]
        BY <2>2, <2>4, <2>6, FirstWord
      <3>2. title = lines[top].title
        BY <2>2, <2>3, <2>6, <3>1, TitleIsFirstWord
      <3>3. PICK first, k :
              /\ OnlyWordTo(lines, first, k)
              /\ body = SubSeq(lines, k + 1, Len(lines))
        BY <2>2, <2>4, <2>6, <3>1, <3>2, BodyBelow
      <3> QED
        BY <2>2, <2>4, <3>3, WordsBelow
    <2> QED
      BY <2>1, <2>3, <2>4, <2>5, <2>6 DEF BodyKeepsText
  <1> QED
    BY <1>1, InputStays, PTL

-----------------------------------------------------------------------------
(* Search snippets.                                                        *)

\* The matches of a search are inside the text, apart and without sentinels in them.
Fits(text, matches) ==
    /\ \A m \in matches :
          /\ m.first \in 1 .. Len(text) /\ m.last \in m.first .. Len(text)
          /\ \A n \in matches : n # m => m.last < n.first \/ n.last < m.first

\* The places from which Splice takes characters and sentinels.
Places(text, matches) ==
    {3 * i + 1 : i \in DOMAIN text}
        \cup {3 * m.first : m \in matches} \cup {3 * m.last + 2 : m \in matches}

\* What stands at place p of a spliced text, if c does.
Stands(text, matches, p, c) ==
    \/ \E i \in 1 .. Len(text) : p = 3 * i + 1 /\ c = text[i]
    \/ \E m \in matches : p = 3 * m.first /\ c = "open"
    \/ \E m \in matches : p = 3 * m.last + 2 /\ c = "close"

\* A spliced text has the characters, the sentinels of the matches and nothing else.
LEMMA SplicedText ==
    ASSUME NEW C, NEW text \in Seq(C), NEW matches, Fits(text, matches)
    PROVE  /\ Places(text, matches) \in SUBSET Int /\ IsFiniteSet(Places(text, matches))
           /\ DOMAIN Splice(text, matches) = 1 .. Cardinality(Places(text, matches))
           /\ Len(Splice(text, matches)) = Cardinality(Places(text, matches))
           /\ \A i \in 1 .. Len(text) :
                /\ 3 * i + 1 \in Places(text, matches)
                /\ Splice(text, matches)[Rank(Places(text, matches), 3 * i + 1)] = text[i]
           /\ \A m \in matches :
                /\ 3 * m.first \in Places(text, matches)
                /\ 3 * m.last + 2 \in Places(text, matches)
                /\ Splice(text, matches)[Rank(Places(text, matches), 3 * m.first)] = "open"
                /\ Splice(text, matches)[Rank(Places(text, matches), 3 * m.last + 2)] = "close"
           /\ \A n \in DOMAIN Splice(text, matches) :
                Stands(text, matches, Nth(Places(text, matches), n), Splice(text, matches)[n])
  <1> DEFINE P == Places(text, matches)
             top == 3 * Len(text) + 2
             full == [p \in 3 .. top |->
                        CASE p % 3 = 0 -> "open" [] p % 3 = 1 -> text[p \div 3]
                          [] OTHER -> "close"]
  <1>0. top \in Int
    OBVIOUS
  <1>1. Len(text) \in Nat /\ DOMAIN text = 1 .. Len(text)
    OBVIOUS
  <1>2. ASSUME NEW i \in 1 .. Len(text)
        PROVE  /\ 3 * i \in 3 .. top /\ 3 * i + 1 \in 3 .. top /\ 3 * i + 2 \in 3 .. top
               /\ full[3 * i] = "open" /\ full[3 * i + 1] = text[i] /\ full[3 * i + 2] = "close"
    <2>1. PICK a, b, c : a = 3 * i /\ b = 3 * i + 1 /\ c = 3 * i + 2
      OBVIOUS
    <2>2. a \in 3 .. top /\ b \in 3 .. top /\ c \in 3 .. top
      BY <1>1, <2>1
    <2>3. a % 3 = 0 /\ b % 3 = 1 /\ c % 3 = 2 /\ b \div 3 = i
      BY <1>1, <2>1
    <2>4. full[a] = "open"
      BY <2>2, <2>3
    <2>5. full[b] = text[i]
      BY <2>2, <2>3
    <2>6. full[c] = "close"
      BY <2>2, <2>3
    <2> QED
      BY <2>1, <2>2, <2>4, <2>5, <2>6
  <1>3. /\ \A i \in 1 .. Len(text) : 3 * i + 1 \in P
        /\ \A m \in matches : 3 * m.first \in P /\ 3 * m.last + 2 \in P
    BY <1>1 DEF Places
  <1>4. \A m \in matches : m.first \in 1 .. Len(text) /\ m.last \in 1 .. Len(text)
    BY <1>1 DEF Fits
  <1>5. \A p \in P : p \in 3 .. top /\ Stands(text, matches, p, full[p])
    <2> TAKE p \in P
    <2>1. \/ \E i \in 1 .. Len(text) : p = 3 * i + 1
          \/ \E m \in matches : p = 3 * m.first
          \/ \E m \in matches : p = 3 * m.last + 2
      BY <1>1 DEF Places
    <2> HIDE DEF P, full, top
    <2>2. CASE \E i \in 1 .. Len(text) : p = 3 * i + 1
      BY <1>2, <2>2 DEF Stands
    <2>3. CASE \E m \in matches : p = 3 * m.first
      <3>1. PICK m \in matches : p = 3 * m.first
        BY <2>3
      <3>2. p \in 3 .. top /\ full[p] = "open"
        BY <1>2, <1>4, <3>1
      <3> QED
        BY <3>1, <3>2 DEF Stands
    <2>4. CASE \E m \in matches : p = 3 * m.last + 2
      <3>1. PICK m \in matches : p = 3 * m.last + 2
        BY <2>4
      <3>2. p \in 3 .. top /\ full[p] = "close"
        BY <1>2, <1>4, <3>1
      <3> QED
        BY <3>1, <3>2 DEF Stands
    <2> QED
      BY <2>1, <2>2, <2>3, <2>4
  <1>6. P \in SUBSET Int /\ IsFiniteSet(P)
    <2> HIDE DEF P
    <2>1. P \in SUBSET (3 .. top)
      BY <1>5
    <2> HIDE DEF top
    <2>2. IsFiniteSet(3 .. top)
      BY <1>0, FS_Interval
    <2>3. IsFiniteSet(P)
      BY <2>1, <2>2, FS_Subset
    <2> QED
      BY <1>0, <2>1, <2>3
  <1>7. Splice(text, matches) = At(full, P)
    BY DEF Splice, Places
  <1> HIDE DEF P, full
  <1>8. /\ DOMAIN At(full, P) = 1 .. Cardinality(P) /\ Len(At(full, P)) = Cardinality(P)
        /\ \A n \in 1 .. Cardinality(P) : At(full, P)[n] = full[Nth(P, n)]
        /\ \A p \in P : At(full, P)[Rank(P, p)] = full[p]
    BY <1>6, AtPlaces
  <1>9. \A n \in 1 .. Cardinality(P) : Nth(P, n) \in P
    BY <1>6, NthIsPlace
  <1>10. \A i \in 1 .. Len(text) : At(full, P)[Rank(P, 3 * i + 1)] = text[i]
    BY <1>2, <1>3, <1>8
  <1>11. \A m \in matches : /\ At(full, P)[Rank(P, 3 * m.first)] = "open"
                            /\ At(full, P)[Rank(P, 3 * m.last + 2)] = "close"
    BY <1>2, <1>3, <1>4, <1>8
  <1>12. \A n \in 1 .. Cardinality(P) : Stands(text, matches, Nth(P, n), At(full, P)[n])
    BY <1>5, <1>8, <1>9
  <1> QED
    BY <1>3, <1>6, <1>7, <1>8, <1>10, <1>11, <1>12 DEF P

\* LastOpen is the greatest place of an "open" before i, or 0.
LEMMA LastOpenIs ==
    ASSUME NEW raw, NEW i \in Nat
    PROVE  /\ \A j \in 1 .. i - 1 : raw[j] = "open" => j =< LastOpen(raw, i)
           /\ LastOpen(raw, i) \in Nat
           /\ LastOpen(raw, i) > 0 =>
                LastOpen(raw, i) \in 1 .. i - 1 /\ raw[LastOpen(raw, i)] = "open"
  <1> DEFINE opens == {j \in 1 .. i - 1 : raw[j] = "open"}
  <1>1. LastOpen(raw, i) = IF opens = {} THEN 0
                           ELSE CHOOSE j \in opens : \A k \in opens : k =< j
    BY DEF LastOpen
  <1>2. CASE opens = {}
    BY <1>1, <1>2
  <1>3. CASE opens # {}
    <2>1. opens \in SUBSET (0 .. i)
      OBVIOUS
    <2>2. \E j \in opens : \A k \in opens : k =< j
      BY <1>3, <2>1, GreatestExists
    <2>3. LastOpen(raw, i) \in opens /\ \A k \in opens : k =< LastOpen(raw, i)
      BY <1>1, <1>3, <2>2
    <2> QED
      BY <2>3
  <1> QED
    BY <1>2, <1>3

\* A character of a match is marked, unless a "close" of the text is before it.
LEMMA HitIsMarked ==
    ASSUME NEW C, NEW text \in Seq(C), NEW matches, Fits(text, matches),
           NEW i \in 1 .. Len(text), Hit(text, matches, i)
    PROVE  Marked(Splice(text, matches), Rank(Places(text, matches), 3 * i + 1))
  <1> DEFINE P == Places(text, matches)
             raw == Splice(text, matches)
             r == Rank(P, 3 * i + 1)
  <1>1. PICK m \in matches :
            m.first =< i /\ i =< m.last /\ \A j \in m.first .. i - 1 : text[j] # "close"
    BY DEF Hit
  <1>2. /\ Len(text) \in Nat /\ m.first \in 1 .. Len(text) /\ m.last \in 1 .. Len(text)
        /\ \A n \in matches : /\ n.first \in 1 .. Len(text) /\ n.last \in n.first .. Len(text)
                              /\ n # m => m.last < n.first \/ n.last < m.first
    BY DEF Fits
  <1>3. PICK open : open = Rank(P, 3 * m.first)
    OBVIOUS
  <1>4. /\ P \in SUBSET Int /\ IsFiniteSet(P) /\ DOMAIN raw = 1 .. Cardinality(P)
        /\ 3 * i + 1 \in P /\ 3 * m.first \in P /\ raw[open] = "open"
        /\ \A n \in DOMAIN raw : Stands(text, matches, Nth(P, n), raw[n])
    BY <1>1, <1>3, SplicedText
  <1> HIDE DEF P, raw
  <1>5. /\ open \in 1 .. Cardinality(P) /\ r \in 1 .. Cardinality(P) /\ open < r
        /\ Cardinality(P) \in Nat
    <2>1. 3 * m.first < 3 * i + 1
      BY <1>1, <1>2
    <2> QED
      BY <1>3, <1>4, <2>1, RankCounts
  <1>6. /\ Nth(P, open) = 3 * m.first /\ Nth(P, r) = 3 * i + 1
        /\ \A j \in 1 .. Cardinality(P), k \in 1 .. Cardinality(P) : j < k => Nth(P, j) < Nth(P, k)
        /\ \A j \in 1 .. Cardinality(P) : Nth(P, j) \in Int
    <2>1. \A j \in 1 .. Cardinality(P) : Nth(P, j) \in P
      BY <1>4, NthIsPlace
    <2>2. \A j \in 1 .. Cardinality(P), k \in 1 .. Cardinality(P) : j < k => Nth(P, j) < Nth(P, k)
      BY <1>4, NthIsPlace
    <2>3. \A p \in P : Nth(P, Rank(P, p)) = p
      BY <1>4, NthIsPlace
    <2> QED
      BY <1>3, <1>4, <2>1, <2>2, <2>3
  <1> HIDE DEF r
  <1>7. ASSUME NEW j \in open .. r - 1
        PROVE  raw[j] # "close"
    <2>1. PICK p : p = Nth(P, j)
      OBVIOUS
    <2>2. j \in 1 .. Cardinality(P) /\ p \in Int /\ 3 * m.first =< p /\ p < 3 * i + 1
      BY <1>5, <1>6, <2>1
    <2>3. Stands(text, matches, p, raw[j])
      BY <1>4, <2>1, <2>2
    <2>4. ASSUME NEW k \in 1 .. Len(text), p = 3 * k + 1, raw[j] = text[k]
          PROVE  raw[j] # "close"
      <3>1. k \in m.first .. i - 1
        BY <1>1, <1>2, <2>2, <2>4
      <3> QED
        BY <1>1, <2>4, <3>1
    <2>5. ASSUME NEW n \in matches, p = 3 * n.last + 2
          PROVE  FALSE
      <3>1. n.last >= m.first /\ n.last < i
        BY <1>1, <1>2, <2>2, <2>5
      <3> QED
        BY <1>1, <1>2, <3>1
    <2> QED
      BY <2>3, <2>4, <2>5 DEF Stands
  <1>8. PICK last : last = LastOpen(raw, r)
    OBVIOUS
  <1>9. last \in Nat /\ open =< last
    <2>1. r \in Nat /\ open \in 1 .. r - 1
      BY <1>5
    <2> QED
      BY <1>4, <1>8, <2>1, LastOpenIs
  <1> QED
    BY <1>5, <1>7, <1>8, <1>9 DEF Marked, r, raw, P

\* In a text without sentinels only characters of matches are marked.
LEMMA MarkedIsHit ==
    ASSUME NEW C, NEW text \in Seq(C), NEW matches, Fits(text, matches),
           \A j \in 1 .. Len(text) : text[j] \notin Sentinels, NEW i \in 1 .. Len(text),
           Marked(Splice(text, matches), Rank(Places(text, matches), 3 * i + 1))
    PROVE  Hit(text, matches, i)
  <1> DEFINE P == Places(text, matches)
             raw == Splice(text, matches)
             r == Rank(P, 3 * i + 1)
  <1>1. /\ P \in SUBSET Int /\ IsFiniteSet(P) /\ DOMAIN raw = 1 .. Cardinality(P)
        /\ 3 * i + 1 \in P
        /\ \A m \in matches : /\ 3 * m.first \in P /\ 3 * m.last + 2 \in P
                              /\ raw[Rank(P, 3 * m.last + 2)] = "close"
        /\ \A n \in DOMAIN raw : Stands(text, matches, Nth(P, n), raw[n])
    BY SplicedText
  <1>2. Marked(raw, r)
    OBVIOUS
  <1> HIDE DEF P, raw
  <1>3. Cardinality(P) \in Nat /\ r \in 1 .. Cardinality(P)
    BY <1>1, RankCounts
  <1>4. /\ \A p \in P : Rank(P, p) \in 1 .. Cardinality(P)
        /\ \A p \in P, q \in P : p < q => Rank(P, p) < Rank(P, q)
    BY <1>1, RankCounts
  <1>5. \A n \in 1 .. Cardinality(P) : Nth(P, n) \in P /\ Rank(P, Nth(P, n)) = n
    BY <1>1, NthIsPlace
  <1>6. PICK last : last = LastOpen(raw, r)
    OBVIOUS
  <1>7. last > 0 /\ \A j \in last .. r - 1 : raw[j] # "close"
    BY <1>2, <1>6 DEF Marked
  <1>8. last \in 1 .. r - 1 /\ raw[last] = "open"
    <2>1. r \in Nat
      BY <1>3
    <2> HIDE DEF r
    <2> QED
      BY <1>6, <1>7, <2>1, LastOpenIs
  <1>9. PICK p : p = Nth(P, last)
    OBVIOUS
  <1>10. /\ p \in P /\ p \in Int /\ Rank(P, p) = last
         /\ Stands(text, matches, p, "open")
    <2>1. last \in 1 .. Cardinality(P)
      BY <1>3, <1>8
    <2>2. p \in P /\ Rank(P, p) = last
      BY <1>5, <1>9, <2>1
    <2>3. Stands(text, matches, p, raw[last])
      BY <1>1, <1>9, <2>1
    <2> QED
      BY <1>1, <1>8, <2>2, <2>3
  <1>11. PICK m \in matches : p = 3 * m.first
    BY <1>10 DEF Stands, Sentinels
  <1>12. /\ Len(text) \in Nat /\ m.first \in 1 .. Len(text) /\ m.last \in m.first .. Len(text)
    BY DEF Fits
  <1>13. m.first =< i
    <2>1. ~(3 * i + 1 < p)
      <3>1. ~(r < last)
        BY <1>3, <1>8
      <3> QED
        BY <1>1, <1>4, <1>10, <3>1
    <2> QED
      BY <1>10, <1>11, <1>12, <2>1
  <1>14. i =< m.last
    <2>1. SUFFICES ASSUME m.last < i
                   PROVE  FALSE
      BY <1>12
    <2>2. PICK close : close = 3 * m.last + 2
      OBVIOUS
    <2>3. close \in P /\ raw[Rank(P, close)] = "close" /\ p < close /\ close < 3 * i + 1
      BY <1>1, <1>11, <1>12, <2>1, <2>2
    <2>4. last < Rank(P, close) /\ Rank(P, close) < r /\ Rank(P, close) \in Int
      BY <1>1, <1>4, <1>10, <2>3
    <2> QED
      BY <1>3, <1>7, <1>8, <2>3, <2>4
  <1>15. \A j \in m.first .. i - 1 : text[j] # "close"
    <2>1. \A j \in m.first .. i - 1 : j \in 1 .. Len(text)
      BY <1>12
    <2> QED
      BY <2>1 DEF Sentinels
  <1> QED
    BY <1>13, <1>14, <1>15 DEF Hit

\* The two texts are as long as each other and made of the same characters of text,
\* one marked as spliced, the other as hit.
Agree(text, matches, shown, intended) ==
    /\ DOMAIN shown = 1 .. Len(shown) /\ DOMAIN intended = 1 .. Len(intended)
    /\ Len(shown) = Len(intended)
    /\ shown = [n \in 1 .. Len(shown) |-> shown[n]]
    /\ intended = [n \in 1 .. Len(intended) |-> intended[n]]
    /\ \A n \in DOMAIN intended : \E i \in 1 .. Len(text) :
         /\ intended[n] = [char |-> text[i], mark |-> Hit(text, matches, i)]
         /\ shown[n] =
              [char |-> text[i],
               mark |-> Marked(Splice(text, matches), Rank(Places(text, matches), 3 * i + 1))]

\* What a snippet shows besides sentinels is the text without them, character by
\* character; and how it is marked.
LEMMA ShownText ==
    ASSUME NEW C, NEW text \in Seq(C), NEW matches, Fits(text, matches),
           NEW shown, shown = Plain(RenderSnippet(Splice(text, matches))),
           NEW intended, intended = Plain(Intended(text, matches))
    PROVE  Agree(text, matches, shown, intended)
  <1> DEFINE P == Places(text, matches)
             raw == Splice(text, matches)
             cells == Cells(raw)
             K == {j \in DOMAIN raw : raw[j] # "open" /\ ~(raw[j] = "close" /\ Marked(raw, j))}
             all == At(cells, K)
             Q == {n \in DOMAIN all : all[n].char \notin Sentinels}
             I == Intended(text, matches)
             S == {i \in DOMAIN I : I[i].char \notin Sentinels}
             h == [i \in S |-> Rank(K, Rank(P, 3 * i + 1))]
  <1>1. shown = At(all, Q) /\ intended = At(I, S)
    BY DEF Plain, RenderSnippet
  <1>2. /\ Len(text) \in Nat /\ DOMAIN I = 1 .. Len(text)
        /\ \A i \in 1 .. Len(text) : I[i] = [char |-> text[i], mark |-> Hit(text, matches, i)]
    BY DEF Intended
  <1>3. /\ S \in SUBSET Int /\ IsFiniteSet(S)
        /\ \A i : i \in S <=> i \in 1 .. Len(text) /\ text[i] \notin Sentinels
    <2>1. \A i : i \in S <=> i \in 1 .. Len(text) /\ text[i] \notin Sentinels
      BY <1>2
    <2> HIDE DEF S
    <2>2. S \in SUBSET (1 .. Len(text)) /\ IsFiniteSet(1 .. Len(text))
      BY <1>2, <2>1, FS_Interval
    <2>3. IsFiniteSet(S)
      BY <2>2, FS_Subset
    <2>4. S \in SUBSET Int
      BY <1>2, <2>2
    <2> QED
      BY <2>1, <2>3, <2>4
  <1>4. /\ P \in SUBSET Int /\ IsFiniteSet(P) /\ DOMAIN raw = 1 .. Cardinality(P)
        /\ \A i \in 1 .. Len(text) : 3 * i + 1 \in P /\ raw[Rank(P, 3 * i + 1)] = text[i]
        /\ \A n \in DOMAIN raw : Stands(text, matches, Nth(P, n), raw[n])
    BY SplicedText
  <1>5. /\ Cardinality(P) \in Nat
        /\ \A p \in P : Rank(P, p) \in 1 .. Cardinality(P)
        /\ \A p \in P, q \in P : p < q => Rank(P, p) < Rank(P, q)
    BY <1>4, RankCounts
  <1>6. \A n \in 1 .. Cardinality(P) : Rank(P, Nth(P, n)) = n
    BY <1>4, NthIsPlace
  <1>7. /\ DOMAIN cells = 1 .. Cardinality(P)
        /\ \A j \in 1 .. Cardinality(P) : cells[j] = [char |-> raw[j], mark |-> Marked(raw, j)]
    BY <1>4 DEF Cells
  <1>8. /\ K \in SUBSET (1 .. Cardinality(P)) /\ K \in SUBSET Int /\ IsFiniteSet(K)
        /\ \A j \in 1 .. Cardinality(P) : raw[j] \notin Sentinels => j \in K
    <2>1. /\ K \in SUBSET (1 .. Cardinality(P))
          /\ \A j \in 1 .. Cardinality(P) : raw[j] \notin Sentinels => j \in K
      BY <1>4 DEF Sentinels
    <2> HIDE DEF K
    <2>2. IsFiniteSet(1 .. Cardinality(P))
      BY <1>5, FS_Interval
    <2>3. IsFiniteSet(K)
      BY <2>1, <2>2, FS_Subset
    <2>4. K \in SUBSET Int
      BY <1>5, <2>1
    <2> QED
      BY <2>1, <2>3, <2>4
  <1> HIDE DEF P, raw, cells, K, I, S
  <1>9. /\ Cardinality(K) \in Nat
        /\ \A j \in K : Rank(K, j) \in 1 .. Cardinality(K)
        /\ \A j \in K, k \in K : j < k => Rank(K, j) < Rank(K, k)
    BY <1>8, RankCounts
  <1>10. \A n \in 1 .. Cardinality(K) : Nth(K, n) \in K /\ Rank(K, Nth(K, n)) = n
    BY <1>8, NthIsPlace
  <1>11. /\ DOMAIN all = 1 .. Cardinality(K)
         /\ \A n \in 1 .. Cardinality(K) : all[n] = cells[Nth(K, n)]
         /\ \A j \in K : all[Rank(K, j)] = cells[j]
    BY <1>8, AtPlaces
  <1> HIDE DEF all
  <1>12. Q \in SUBSET Int
    BY <1>9, <1>11
  <1>13. ASSUME NEW i \in S
         PROVE  /\ Rank(P, 3 * i + 1) \in K /\ h[i] = Rank(K, Rank(P, 3 * i + 1))
                /\ all[h[i]] = [char |-> text[i], mark |-> Marked(raw, Rank(P, 3 * i + 1))]
                /\ h[i] \in Q
    <2>1. i \in 1 .. Len(text) /\ text[i] \notin Sentinels
      BY <1>3
    <2>2. PICK r : r = Rank(P, 3 * i + 1)
      OBVIOUS
    <2>3. r \in 1 .. Cardinality(P) /\ raw[r] = text[i]
      BY <1>4, <1>5, <2>1, <2>2
    <2>4. r \in K
      BY <1>8, <2>1, <2>3
    <2>5. h[i] = Rank(K, r)
      BY <2>2
    <2> HIDE DEF h
    <2>6. all[h[i]] = [char |-> text[i], mark |-> Marked(raw, r)] /\ h[i] \in 1 .. Cardinality(K)
      BY <1>7, <1>9, <1>11, <2>3, <2>4, <2>5
    <2>7. h[i] \in Q
      BY <1>11, <2>1, <2>6
    <2> QED
      BY <2>2, <2>4, <2>5, <2>6, <2>7
  <1>14. h \in [S -> Q]
    BY <1>13
  <1>15. \A i \in S, j \in S : i < j => h[i] < h[j]
    <2> SUFFICES ASSUME NEW i \in S, NEW j \in S, i < j
                 PROVE  h[i] < h[j]
      OBVIOUS
    <2>1. i \in Int /\ j \in Int /\ 3 * i + 1 < 3 * j + 1
      BY <1>3
    <2>2. Rank(P, 3 * i + 1) < Rank(P, 3 * j + 1)
      BY <1>3, <1>4, <1>5, <2>1
    <2> QED
      BY <1>9, <1>13, <2>2
  <1>16. \A n \in Q : \E i \in S : h[i] = n
    <2> SUFFICES ASSUME NEW n \in Q
                 PROVE  \E i \in S : h[i] = n
      OBVIOUS
    <2>1. PICK j : j = Nth(K, n)
      OBVIOUS
    <2>2. n \in 1 .. Cardinality(K) /\ all[n].char \notin Sentinels
      BY <1>11
    <2>3. j \in K /\ Rank(K, j) = n /\ all[n] = cells[j]
      BY <1>10, <1>11, <2>1, <2>2
    <2>4. j \in 1 .. Cardinality(P) /\ raw[j] \notin Sentinels
      BY <1>7, <1>8, <2>2, <2>3
    <2>5. PICK i \in 1 .. Len(text) : Nth(P, j) = 3 * i + 1 /\ raw[j] = text[i]
      <3>1. Stands(text, matches, Nth(P, j), raw[j])
        BY <1>4, <2>4
      <3> QED
        BY <2>4, <3>1 DEF Stands, Sentinels
    <2>6. i \in S /\ Rank(P, 3 * i + 1) = j
      BY <1>3, <1>6, <2>4, <2>5
    <2>7. h[i] = n
      BY <1>13, <2>3, <2>6
    <2> QED
      BY <2>6, <2>7
  <1> HIDE DEF Q, h
  <1>17. /\ IsFiniteSet(Q) /\ Cardinality(Q) = Cardinality(S)
         /\ \A n \in 1 .. Cardinality(S) : Nth(Q, n) = h[Nth(S, n)]
    BY <1>3, <1>12, <1>14, <1>15, <1>16, NthOfImage
  <1>18. \A n \in 1 .. Cardinality(S) : Nth(S, n) \in S
    BY <1>3, NthIsPlace
  <1>19. /\ DOMAIN At(I, S) = 1 .. Cardinality(S) /\ Len(At(I, S)) = Cardinality(S)
         /\ \A n \in 1 .. Cardinality(S) : At(I, S)[n] = I[Nth(S, n)]
    BY <1>3, AtPlaces
  <1>20. /\ DOMAIN At(all, Q) = 1 .. Cardinality(S) /\ Len(At(all, Q)) = Cardinality(S)
         /\ \A n \in 1 .. Cardinality(S) : At(all, Q)[n] = all[h[Nth(S, n)]]
    <2>1. /\ DOMAIN At(all, Q) = 1 .. Cardinality(Q) /\ Len(At(all, Q)) = Cardinality(Q)
          /\ \A n \in 1 .. Cardinality(Q) : At(all, Q)[n] = all[Nth(Q, n)]
      BY <1>12, <1>17, AtPlaces
    <2> QED
      BY <1>17, <2>1
  <1>21. ASSUME NEW n \in 1 .. Cardinality(S)
         PROVE  \E i \in 1 .. Len(text) :
                  /\ At(I, S)[n] = [char |-> text[i], mark |-> Hit(text, matches, i)]
                  /\ At(all, Q)[n] =
                       [char |-> text[i], mark |-> Marked(raw, Rank(P, 3 * i + 1))]
    <2>1. PICK i \in S : i = Nth(S, n)
      BY <1>18
    <2>2. i \in 1 .. Len(text)
      BY <1>3
    <2>3. At(I, S)[n] = [char |-> text[i], mark |-> Hit(text, matches, i)]
      BY <1>2, <1>19, <2>1, <2>2
    <2>4. At(all, Q)[n] = [char |-> text[i], mark |-> Marked(raw, Rank(P, 3 * i + 1))]
      BY <1>13, <1>20, <2>1
    <2> QED
      BY <2>2, <2>3, <2>4
  <1>22. /\ At(all, Q) = [n \in 1 .. Cardinality(Q) |-> At(all, Q)[n]]
         /\ At(I, S) = [n \in 1 .. Cardinality(S) |-> At(I, S)[n]]
    BY DEF At
  <1>23. /\ DOMAIN At(all, Q) = 1 .. Len(At(all, Q)) /\ DOMAIN At(I, S) = 1 .. Len(At(I, S))
         /\ Len(At(all, Q)) = Len(At(I, S))
         /\ At(all, Q) = [n \in 1 .. Len(At(all, Q)) |-> At(all, Q)[n]]
         /\ At(I, S) = [n \in 1 .. Len(At(I, S)) |-> At(I, S)[n]]
    BY <1>17, <1>19, <1>20, <1>22
  <1> QED
    BY <1>1, <1>19, <1>21, <1>23 DEF Agree, P, raw

\* A snippet shows all the text it was given in its order, with every match marked up
\* to a stray "close" in it, for texts of any length, and marks matches only if the
\* text has no sentinels.
THEOREM SnippetsAlwaysKeepText == Spec => []SnippetKeepsText
  <1>1. ASSUME input \in Inputs
        PROVE  SnippetKeepsText
    <2> SUFFICES ASSUME input.of = "snippet"
                 PROVE  SnippetKeepsText
      BY DEF SnippetKeepsText, Is
    <2>1. PICK text, matches : text = input.text /\ matches = input.matches
      OBVIOUS
    <2>2. /\ text \in Seq(STRING)
          /\ matches \subseteq [first : DOMAIN text, last : DOMAIN text]
          /\ \A m \in matches :
                /\ m.first =< m.last
                /\ \A n \in matches \ {m} : m.last < n.first \/ n.last < m.first
      BY <1>1, <2>1, RenderedInputs
    <2>3. Fits(text, matches)
      <3>1. Len(text) \in Nat /\ DOMAIN text = 1 .. Len(text)
        BY <2>2
      <3>2. ASSUME NEW m \in matches
            PROVE  /\ m.first \in 1 .. Len(text) /\ m.last \in m.first .. Len(text)
                   /\ \A n \in matches : n # m => m.last < n.first \/ n.last < m.first
        <4>1. m.first \in 1 .. Len(text) /\ m.last \in 1 .. Len(text)
          BY <2>2, <3>1
        <4> QED
          BY <2>2, <3>1, <4>1
      <3> QED
        BY <3>2 DEF Fits
    <2>4. PICK shown, intended :
              /\ shown = Plain(RenderSnippet(Splice(text, matches)))
              /\ intended = Plain(Intended(text, matches))
      OBVIOUS
    <2>5. Agree(text, matches, shown, intended)
      BY <2>2, <2>3, <2>4, ShownText
    <2>6. ASSUME NEW n \in DOMAIN intended
          PROVE  /\ shown[n].char = intended[n].char /\ (intended[n].mark => shown[n].mark)
                 /\ (\A j \in 1 .. Len(text) : text[j] \notin Sentinels)
                      => shown[n] = intended[n]
      <3>1. PICK i \in 1 .. Len(text) :
                /\ intended[n] = [char |-> text[i], mark |-> Hit(text, matches, i)]
                /\ shown[n] =
                     [char |-> text[i],
                      mark |-> Marked(Splice(text, matches), Rank(Places(text, matches), 3 * i + 1))]
        BY <2>5 DEF Agree
      <3>2. PICK marked, hit :
                /\ marked = Marked(Splice(text, matches), Rank(Places(text, matches), 3 * i + 1))
                /\ hit = Hit(text, matches, i)
        OBVIOUS
      <3>3. hit => marked
        BY <2>2, <2>3, <3>2, HitIsMarked
      <3>4. (\A j \in 1 .. Len(text) : text[j] \notin Sentinels) => (marked => hit)
        BY <2>2, <2>3, <3>2, MarkedIsHit
      <3>5. marked \in BOOLEAN /\ hit \in BOOLEAN
        BY <3>2 DEF Marked, Hit
      <3>6. /\ intended[n] = [char |-> text[i], mark |-> hit]
            /\ shown[n] = [char |-> text[i], mark |-> marked]
        BY <3>1, <3>2
      <3> QED
        BY <3>3, <3>4, <3>5, <3>6
    <2>7. ASSUME ToSet(text) \cap Sentinels = {}
          PROVE  shown = intended
      <3>1. \A j \in 1 .. Len(text) : text[j] \notin Sentinels
        BY <2>2, <2>7 DEF ToSet
      <3> QED
        BY <2>5, <2>6, <3>1 DEF Agree
    <2> QED
      BY <2>1, <2>4, <2>5, <2>6, <2>7 DEF SnippetKeepsText, Agree
  <1> QED
    BY <1>1, InputStays, PTL
=============================================================================
