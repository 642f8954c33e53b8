---------------------------- MODULE SensorProofs ----------------------------
(***************************************************************************)
(* Proofs about SensorUse and Accelerometer, for any number of failures and *)
(* resets, any sets of calls and any thresholds of the configuration: what  *)
(* the accelerometer's driver promises to any program, and what App gets    *)
(* from it.                                                                 *)
(***************************************************************************)
EXTENDS SensorUse, Accelerometer, SequenceTheorems, TLAPS

------------------------------------------------------------------------------
(* The data.                                                                *)

\* A rate asked for is rounded to one the device has.
LEMMA RoundedIsRate ==
  ASSUME NEW odr \in Int
  PROVE  Rounded(odr) \in Rates
  <1>1. CASE odr > 3330
    BY <1>1 DEF Rounded, Rates
  <1>2. CASE odr <= 3330
    <2> DEFINE Best(r) == odr <= r /\ \A q \in Rates : odr <= q => r <= q
    <2>1. \E r \in Rates : Best(r)
      <3>1. CASE odr <= 13
        BY <3>1 DEF Rates
      <3>2. CASE odr > 13 /\ odr <= 26
        BY <3>2 DEF Rates
      <3>3. CASE odr > 26 /\ odr <= 52
        BY <3>3 DEF Rates
      <3>4. CASE odr > 52 /\ odr <= 104
        BY <3>4 DEF Rates
      <3>5. CASE odr > 104 /\ odr <= 208
        BY <3>5 DEF Rates
      <3>6. CASE odr > 208 /\ odr <= 416
        BY <3>6 DEF Rates
      <3>7. CASE odr > 416 /\ odr <= 833
        BY <3>7 DEF Rates
      <3>8. CASE odr > 833 /\ odr <= 1660
        BY <3>8 DEF Rates
      <3>9. CASE odr > 1660
        BY <3>9, <1>2 DEF Rates
      <3> QED BY <3>1, <3>2, <3>3, <3>4, <3>5, <3>6, <3>7, <3>8, <3>9
    <2>2. Rounded(odr) = CHOOSE r \in Rates : Best(r)
      BY <1>2 DEF Rounded
    <2> QED BY <2>1, <2>2
  <1> QED BY <1>1, <1>2

\* Rounding a rate the device has changes nothing.
LEMMA RateIsRounded ==
  ASSUME NEW rate \in Rates
  PROVE  Rounded(rate) = rate
  <1>1. CASE rate > 3330
    BY <1>1 DEF Rounded, Rates
  <1>2. CASE rate <= 3330
    <2> DEFINE Best(r) == rate <= r /\ \A q \in Rates : rate <= q => r <= q
    <2>1. Best(rate)
      BY DEF Rates
    <2>2. \A r \in Rates : Best(r) => r = rate
      BY DEF Rates
    <2>3. Rounded(rate) = CHOOSE r \in Rates : Best(r)
      BY <1>2 DEF Rounded, Rates
    <2> QED BY <2>1, <2>2, <2>3
  <1> QED BY <1>1, <1>2 DEF Rates

\* The rates are the two fields ODR_XL and ODR_G.
LEMMA RateFieldsAre ==
  /\ RateFields = {"ODR_XL", "ODR_G"}
  /\ ODR["x"] = "ODR_XL" /\ ODR["g"] = "ODR_G"
  BY DEF RateFields, ODR, Sensors

\* The detections and the pins each may raise.
LEMMA RoutesAre ==
  /\ Detections = {"free_fall", "wake_up", "tilt", "single_tap", "double_tap",
                   "orientation", "pedometer"}
  /\ Route["free_fall"] = <<"FFEvOnInt1", "FFEvOnInt2">>
  /\ Route["wake_up"] = <<"WUEvOnInt1", "WUEvOnInt2">>
  /\ Route["tilt"] = <<"TiltEvOnInt1", "TiltEvOnInt2">>
  /\ Route["single_tap"] = <<"SingleTapOnInt1", "SingleTapOnInt2">>
  /\ Route["double_tap"] = <<"TapEvOnInt1", "TapEvOnInt2">>
  /\ Route["orientation"] = <<"SixDEvOnInt1", "SixDEvOnInt2">>
  /\ Route["pedometer"] = <<"STEP_DET_on_INT1">>
  BY DEF Detections, Route

\* The switches of the routes are routes of some detection.
LEMMA RouteSwitches ==
  /\ \A d \in Detections : \A i \in DOMAIN Route[d] : Route[d][i] \in Switches
  /\ \A d \in Detections \ {"pedometer"} : DOMAIN Route[d] = Pins
  /\ DOMAIN Route["pedometer"] = {1}
  <1>1. \A d \in Detections : \A i \in DOMAIN Route[d] : Route[d][i] \in Switches
    BY DEF Switches
  <1>2. \A d \in Detections \ {"pedometer"} : DOMAIN Route[d] = Pins
    BY RoutesAre DEF Pins
  <1>3. DOMAIN Route["pedometer"] = {1}
    BY RoutesAre
  <1> QED BY <1>1, <1>2, <1>3

\* The fields that are switches, one by one.
LEMMA SwitchesAre ==
  Switches =
    {"IF_Addr_Incr", "BDU", "FS_125", "BASIC_INT", "FUNC_EN", "PEDO", "TILT",
     "PedoStepReset", "TAP_X_EN", "TAP_Y_EN", "TAP_Z_EN", "SINGLE_DOUBLE_TAP_EV",
     "DRDY_TEMP_on_INT2", "FFEvOnInt1", "FFEvOnInt2", "WUEvOnInt1", "WUEvOnInt2",
     "TiltEvOnInt1", "TiltEvOnInt2", "SingleTapOnInt1", "SingleTapOnInt2",
     "TapEvOnInt1", "TapEvOnInt2", "SixDEvOnInt1", "SixDEvOnInt2", "STEP_DET_on_INT1"}
  <1> DEFINE Routed == UNION {{Route[d][i] : i \in DOMAIN Route[d]} : d \in Detections}
  <1>1. ASSUME NEW f
        PROVE  f \in Routed <=>
                  \E d \in Detections : \E i \in DOMAIN Route[d] : f = Route[d][i]
    OBVIOUS
  <1>2. Routed =
          {"FFEvOnInt1", "FFEvOnInt2", "WUEvOnInt1", "WUEvOnInt2",
           "TiltEvOnInt1", "TiltEvOnInt2", "SingleTapOnInt1", "SingleTapOnInt2",
           "TapEvOnInt1", "TapEvOnInt2", "SixDEvOnInt1", "SixDEvOnInt2", "STEP_DET_on_INT1"}
    <2> HIDE DEF Routed
    <2>1. ASSUME NEW f, NEW d \in Detections
          PROVE  (\E i \in DOMAIN Route[d] : f = Route[d][i]) <=>
                    \/ d = "free_fall" /\ f \in {"FFEvOnInt1", "FFEvOnInt2"}
                    \/ d = "wake_up" /\ f \in {"WUEvOnInt1", "WUEvOnInt2"}
                    \/ d = "tilt" /\ f \in {"TiltEvOnInt1", "TiltEvOnInt2"}
                    \/ d = "single_tap" /\ f \in {"SingleTapOnInt1", "SingleTapOnInt2"}
                    \/ d = "double_tap" /\ f \in {"TapEvOnInt1", "TapEvOnInt2"}
                    \/ d = "orientation" /\ f \in {"SixDEvOnInt1", "SixDEvOnInt2"}
                    \/ d = "pedometer" /\ f = "STEP_DET_on_INT1"
      <3>1. CASE d = "pedometer"
        BY <3>1, RoutesAre, RouteSwitches
      <3>2. CASE d # "pedometer"
        BY <3>2, RoutesAre, RouteSwitches DEF Pins
      <3> QED BY <3>1, <3>2
    <2> QED BY <1>1, <2>1, RoutesAre
  <1> QED BY <1>2 DEF Switches

\* The fields that are numbers, as far as they are named.
LEMMA NumbersAre ==
  Numbers =
    {"ODR_XL", "ODR_G", "FS_XL", "FS_G", "FIFO_MODE", "WAKE_DUR", "TIMER_HR", "SLEEP_DUR",
     "FF_Duration", "SIXD_THS", "PEDO_THS", "FF_THS", "WK_THS", "TAP_THS",
     "SHOCK_Duration", "QUIET_Duration", "DUR"}
  <1>1. {Threshold[t] : t \in DOMAIN Threshold} =
           {"FF_THS", "WK_THS", "TAP_THS", "SHOCK_Duration", "QUIET_Duration", "DUR"}
    BY DEF Threshold
  <1> QED BY <1>1 DEF Numbers

\* Switches are not numbers.
LEMMA FieldsApart == Switches \cap Numbers = {} /\ RateFields \subseteq Numbers
  BY SwitchesAre, NumbersAre, RateFieldsAre

------------------------------------------------------------------------------
(* The accesses a function makes.                                           *)

Elements(s) == {s[i] : i \in DOMAIN s}

\* What two sequences hold together.
LEMMA ElementsConcat ==
  ASSUME NEW S, NEW s \in Seq(S), NEW t \in Seq(S)
  PROVE  Elements(s \o t) = Elements(s) \cup Elements(t)
  <1> DEFINE st == s \o t
  <1>1. /\ st \in Seq(S) /\ Len(st) = Len(s) + Len(t)
        /\ Len(s) \in Nat /\ Len(t) \in Nat
        /\ DOMAIN st = 1 .. Len(st) /\ DOMAIN s = 1 .. Len(s) /\ DOMAIN t = 1 .. Len(t)
        /\ \A i \in 1 .. Len(s) : st[i] = s[i]
        /\ \A i \in 1 .. Len(t) : st[Len(s) + i] = t[i]
    BY ConcatProperties
  <1> HIDE DEF st
  <1>2. ASSUME NEW i \in DOMAIN st
        PROVE  st[i] \in Elements(s) \cup Elements(t)
    <2>1. CASE i <= Len(s)
      BY <1>1, <2>1 DEF Elements
    <2>2. CASE i > Len(s)
      <3>1. PICK k \in 1 .. Len(t) : i = Len(s) + k
        <4>1. i - Len(s) \in 1 .. Len(t) /\ i = Len(s) + (i - Len(s))
          BY <1>1, <2>2
        <4> QED BY <4>1
      <3> QED BY <1>1, <3>1 DEF Elements
    <2> QED BY <1>1, <2>1, <2>2
  <1>3. ASSUME NEW i \in DOMAIN s
        PROVE  s[i] \in Elements(st)
    BY <1>1 DEF Elements
  <1>4. ASSUME NEW i \in DOMAIN t
        PROVE  t[i] \in Elements(st)
    BY <1>1 DEF Elements
  <1>5. Elements(st) \subseteq Elements(s) \cup Elements(t)
    BY <1>2 DEF Elements
  <1>6. Elements(s) \subseteq Elements(st) /\ Elements(t) \subseteq Elements(st)
    BY <1>3, <1>4 DEF Elements
  <1>7. Elements(st) = Elements(s) \cup Elements(t)
    BY <1>5, <1>6
  <1> QED BY <1>7 DEF st

\* Of one access after the other, the first is made and the rest stays.
LEMMA ElementsTail ==
  ASSUME NEW S, NEW s \in Seq(S), s # <<>>
  PROVE  /\ Head(s) \in S /\ Tail(s) \in Seq(S)
         /\ Elements(s) = {Head(s)} \cup Elements(Tail(s))
  <1>1. /\ Head(s) \in S /\ Tail(s) \in Seq(S) /\ Head(s) = s[1]
        /\ Len(s) \in Nat /\ Len(s) # 0 /\ Len(Tail(s)) = Len(s) - 1
        /\ DOMAIN s = 1 .. Len(s) /\ DOMAIN Tail(s) = 1 .. Len(Tail(s))
        /\ \A i \in 1 .. Len(Tail(s)) : Tail(s)[i] = s[i + 1]
    BY HeadTailProperties, EmptySeq
  <1> DEFINE rest == Tail(s)
  <1> HIDE DEF rest
  <1>2. ASSUME NEW i \in DOMAIN s
        PROVE  s[i] = Head(s) \/ s[i] \in Elements(rest)
    <2>1. CASE i # 1
      <3>1. i - 1 \in 1 .. Len(rest) /\ i = (i - 1) + 1
        BY <1>1, <2>1 DEF rest
      <3>2. PICK k \in 1 .. Len(rest) : i = k + 1
        BY <3>1
      <3> QED BY <1>1, <3>2 DEF rest, Elements
    <2> QED BY <1>1, <2>1
  <1>3. ASSUME NEW i \in DOMAIN rest
        PROVE  rest[i] \in Elements(s)
    BY <1>1 DEF rest, Elements
  <1>4. Head(s) \in Elements(s)
    BY <1>1 DEF Elements
  <1> QED BY <1>1, <1>2, <1>3, <1>4 DEF rest, Elements

\* What the empty sequence holds.
LEMMA ElementsEmpty == Elements(<<>>) = {}
  BY DEF Elements

\* What a sequence holds is of its type.
LEMMA ElementsTyped ==
  ASSUME NEW S, NEW s \in Seq(S)
  PROVE  Elements(s) \subseteq S
  BY DEF Elements

\* Sequences written out.
LEMMA ElementsOf ==
  /\ \A a : Elements(<<a>>) = {a}
  /\ \A a, b : Elements(<<a, b>>) = {a, b}
  /\ \A a, b, c : Elements(<<a, b, c>>) = {a, b, c}
  /\ \A a, b, c, d : Elements(<<a, b, c, d>>) = {a, b, c, d}
  /\ \A a, b, c, d, e : Elements(<<a, b, c, d, e>>) = {a, b, c, d, e}
  /\ \A a, b, c, d, e, f : Elements(<<a, b, c, d, e, f>>) = {a, b, c, d, e, f}
  /\ \A a, b, c, d, e, f, g, h :
        Elements(<<a, b, c, d, e, f, g, h>>) = {a, b, c, d, e, f, g, h}
  <1>1. \A a : Elements(<<a>>) = {a}
    BY DEF Elements
  <1>2. \A a, b : Elements(<<a, b>>) = {a, b}
    BY DEF Elements
  <1>3. \A a, b, c : Elements(<<a, b, c>>) = {a, b, c}
    BY DEF Elements
  <1>4. \A a, b, c, d : Elements(<<a, b, c, d>>) = {a, b, c, d}
    BY DEF Elements
  <1>5. \A a, b, c, d, e : Elements(<<a, b, c, d, e>>) = {a, b, c, d, e}
    BY DEF Elements
  <1>6. \A a, b, c, d, e, f : Elements(<<a, b, c, d, e, f>>) = {a, b, c, d, e, f}
    BY DEF Elements
  <1>7. \A a, b, c, d, e, f, g, h :
           Elements(<<a, b, c, d, e, f, g, h>>) = {a, b, c, d, e, f, g, h}
    BY DEF Elements
  <1> QED BY <1>1, <1>2, <1>3, <1>4, <1>5, <1>6, <1>7

\* A sequence written out has its length and its elements.
LEMMA TypedOf ==
  ASSUME NEW S
  PROVE  /\ \A a \in S : <<a>> \in Seq(S)
         /\ \A a, b \in S : <<a, b>> \in Seq(S)
         /\ \A a, b, c \in S : <<a, b, c>> \in Seq(S)
         /\ \A a, b, c, d \in S : <<a, b, c, d>> \in Seq(S)
         /\ \A a, b, c, d, e \in S : <<a, b, c, d, e>> \in Seq(S)
         /\ \A a, b, c, d, e, f \in S : <<a, b, c, d, e, f>> \in Seq(S)
         /\ \A a, b, c, d, e, f, g, h \in S : <<a, b, c, d, e, f, g, h>> \in Seq(S)
  OBVIOUS

\* Each access, and the call that makes it.
LEMMA AccessTypes ==
  /\ \A f \in Switches : \A on \in BOOLEAN : W(f, on) \in Accesses
  /\ \A f \in Numbers \ RateFields : \A n \in Nat : W(f, n) \in Accesses
  /\ \A f \in RateFields : \A rate \in Rates \cup {0} : W(f, rate) \in Accesses
  /\ \A s \in Sensors : \A odr \in Int : SetOdr(s, odr) \in Accesses
  /\ \A s \in Sensors : GetOdr(s) \in Accesses
  /\ \A to \in {"main", "embedded"} : Page(to) \in Accesses
  /\ \A thr \in Nat : PedoThs(thr) \in Accesses
  <1>1. \A f \in Switches : \A on \in BOOLEAN : W(f, on) \in Accesses
    BY DEF W, Accesses
  <1>2. \A f \in Numbers \ RateFields : \A n \in Nat : W(f, n) \in Accesses
    BY DEF W, Accesses
  <1>3. \A f \in RateFields : \A rate \in Rates \cup {0} : W(f, rate) \in Accesses
    BY DEF W, Accesses
  <1>4. \A s \in Sensors : \A odr \in Int : SetOdr(s, odr) \in Accesses
    BY RoundedIsRate DEF SetOdr, Accesses
  <1>5. \A s \in Sensors : GetOdr(s) \in Accesses
    BY DEF GetOdr, Accesses
  <1>6. \A to \in {"main", "embedded"} : Page(to) \in Accesses
    BY DEF Page, Accesses
  <1>7. \A thr \in Nat : PedoThs(thr) \in Accesses
    BY DEF PedoThs, Accesses
  <1> QED BY <1>1, <1>2, <1>3, <1>4, <1>5, <1>6, <1>7

\* An access that is not about the rate's field, one that writes a switch,
\* one that only sets switches, and one of the pedometer's page.
Plain(a) == a.do # "get_odr" /\ (a.do = "W" => a.field \notin RateFields)
SwitchAccess(a) == a.do = "W" /\ a.field \in Switches
Sets(a) == SwitchAccess(a) => a.to = TRUE
PageAccess(a) == a.do \in {"page", "embedded"}

\* The others leave the rates, the switches and the pages alone.
Quiet == {a \in Accesses : Plain(a) /\ ~SwitchAccess(a) /\ ~PageAccess(a)}

\* Every page comes before every switch.
PagesFirst(s) ==
  \A i, j \in DOMAIN s : PageAccess(s[i]) /\ SwitchAccess(s[j]) => i < j

\* Which accesses are plain, which write a switch and which a page.
LEMMA AccessKinds ==
  /\ \A f \in Numbers \ RateFields : \A n \in Nat : W(f, n) \in Quiet
  /\ \A s \in Sensors : \A odr \in Int : SetOdr(s, odr) \in Quiet
  /\ \A f \in Switches : \A on \in BOOLEAN :
        /\ W(f, on) \in Accesses /\ Plain(W(f, on)) /\ SwitchAccess(W(f, on))
        /\ ~PageAccess(W(f, on)) /\ Sets(W(f, TRUE))
  /\ \A to \in {"main", "embedded"} :
        Page(to) \in Accesses /\ Plain(Page(to)) /\ ~SwitchAccess(Page(to))
  /\ \A thr \in Nat :
        PedoThs(thr) \in Accesses /\ Plain(PedoThs(thr)) /\ ~SwitchAccess(PedoThs(thr))
  <1>1. ASSUME NEW f \in Numbers \ RateFields, NEW n \in Nat
        PROVE  W(f, n) \in Quiet
    <2>1. f \notin Switches
      BY FieldsApart
    <2>2. W(f, n) \in Accesses
      BY AccessTypes
    <2> QED BY <2>1, <2>2 DEF W, Plain, SwitchAccess, PageAccess, Quiet
  <1>2. ASSUME NEW s \in Sensors, NEW odr \in Int
        PROVE  SetOdr(s, odr) \in Quiet
    <2>1. SetOdr(s, odr) \in Accesses
      BY AccessTypes
    <2> QED BY <2>1 DEF SetOdr, Plain, SwitchAccess, PageAccess, Quiet
  <1>3. ASSUME NEW f \in Switches, NEW on \in BOOLEAN
        PROVE  /\ W(f, on) \in Accesses /\ Plain(W(f, on)) /\ SwitchAccess(W(f, on))
               /\ ~PageAccess(W(f, on)) /\ Sets(W(f, TRUE))
    <2>1. W(f, on) \in Accesses
      BY AccessTypes
    <2> QED BY <2>1, FieldsApart DEF W, Plain, SwitchAccess, Sets, PageAccess
  <1>4. ASSUME NEW to \in {"main", "embedded"}
        PROVE  Page(to) \in Accesses /\ Plain(Page(to)) /\ ~SwitchAccess(Page(to))
    BY AccessTypes DEF Page, Plain, SwitchAccess
  <1>5. ASSUME NEW thr \in Nat
        PROVE  PedoThs(thr) \in Accesses /\ Plain(PedoThs(thr)) /\ ~SwitchAccess(PedoThs(thr))
    BY AccessTypes DEF PedoThs, Plain, SwitchAccess
  <1> QED BY <1>1, <1>2, <1>3, <1>4, <1>5

\* The settings that are numbers, and the switches but for the routes.
LEMMA QuietSettings ==
  /\ \A f \in {"FS_XL", "FS_G", "FIFO_MODE", "WAKE_DUR", "TIMER_HR", "SLEEP_DUR", "FF_Duration",
               "FF_THS", "SIXD_THS", "WK_THS", "TAP_THS", "SHOCK_Duration", "QUIET_Duration",
               "DUR"} : \A n \in Nat : W(f, n) \in Quiet
  /\ \A odr \in Int : SetOdr("x", odr) \in Quiet
  BY AccessKinds, NumbersAre, RateFieldsAre DEF Sensors

\* The switches that the functions name.
LEMMA SwitchSettings ==
  /\ \A f \in {"IF_Addr_Incr", "BDU", "FS_125", "BASIC_INT", "FUNC_EN", "PEDO", "TILT",
               "PedoStepReset", "TAP_X_EN", "TAP_Y_EN", "TAP_Z_EN", "SINGLE_DOUBLE_TAP_EV",
               "DRDY_TEMP_on_INT2", "STEP_DET_on_INT1"} :
        f \in Switches /\ (\A on \in BOOLEAN : W(f, on) \in Accesses)
  /\ W("ODR_XL", 0) \in Accesses /\ W("ODR_G", 0) \in Accesses
  BY AccessTypes, SwitchesAre, RateFieldsAre

\* What a function makes but for what is quiet, and without the order.
Makes(F, accesses) ==
  F \in Seq(Accesses) /\ accesses \subseteq Elements(F) /\ Elements(F) \subseteq Quiet \cup accesses

\* Two parts of a function, one after the other.
LEMMA MakesConcat ==
  ASSUME NEW s, NEW A, Makes(s, A), NEW t, NEW B, Makes(t, B)
  PROVE  Makes(s \o t, A \cup B)
  <1>1. s \o t \in Seq(Accesses) /\ Elements(s \o t) = Elements(s) \cup Elements(t)
    BY ElementsConcat, ConcatProperties DEF Makes
  <1> QED BY <1>1 DEF Makes

\* A part that writes no switch does not matter.
LEMMA MakesAfterQuiet ==
  ASSUME NEW s \in Seq(Quiet), NEW t, NEW B, Makes(t, B)
  PROVE  Makes(s \o t, B)
  <1>1. s \in Seq(Accesses) /\ Elements(s) \subseteq Quiet
    BY ElementsTyped DEF Quiet
  <1>2. Makes(s, {})
    BY <1>1 DEF Makes
  <1>3. Makes(s \o t, {} \cup B)
    BY <1>2, MakesConcat
  <1>4. {} \cup B = B
    OBVIOUS
  <1> QED BY <1>3, <1>4

\* Written out, with what is quiet before or after the rest.
LEMMA MakesOf ==
  /\ \A q \in Quiet : \A a \in Accesses : Makes(<<q, a>>, {a})
  /\ \A q \in Quiet : \A a \in Accesses : Makes(<<a, q>>, {a})
  /\ \A q, r \in Quiet : \A a \in Accesses : Makes(<<q, r, a>>, {a})
  /\ \A q, r \in Quiet : \A a \in Accesses : Makes(<<a, q, r>>, {a})
  /\ \A q, r, s \in Quiet : \A a \in Accesses : Makes(<<q, r, s, a>>, {a})
  /\ \A q, r, s \in Quiet : \A a \in Accesses : Makes(<<a, q, r, s>>, {a})
  /\ \A q, r, s, t \in Quiet : \A a, b \in Accesses : Makes(<<q, r, s, t, a, b>>, {a, b})
  /\ \A q, r, s, t \in Quiet : \A a, b \in Accesses : Makes(<<a, q, r, s, t, b>>, {a, b})
  /\ \A a, b \in Accesses : Makes(<<a, b>>, {a, b})
  /\ \A a, b, c \in Accesses : Makes(<<a, b, c>>, {a, b, c})
  /\ \A q, r, s, t, u, v, w \in Quiet : \A a \in Accesses : Makes(<<q, r, s, t, u, v, w, a>>, {a})
  /\ \A q \in Quiet : \A a, b, c \in Accesses : Makes(<<a, b, q, c>>, {a, b, c})
  <1>1. ASSUME NEW q \in Quiet, NEW a \in Accesses
        PROVE  Makes(<<q, a>>, {a})
    <2>1. <<q, a>> \in Seq(Accesses)
      BY DEF Quiet
    <2>2. Elements(<<q, a>>) = {q, a}
      BY DEF Elements
    <2> QED BY <2>1, <2>2 DEF Makes
  <1>2. ASSUME NEW q \in Quiet, NEW a \in Accesses
        PROVE  Makes(<<a, q>>, {a})
    <2>1. <<a, q>> \in Seq(Accesses)
      BY DEF Quiet
    <2>2. Elements(<<a, q>>) = {a, q}
      BY DEF Elements
    <2> QED BY <2>1, <2>2 DEF Makes
  <1>3. ASSUME NEW q \in Quiet, NEW r \in Quiet, NEW a \in Accesses
        PROVE  Makes(<<q, r, a>>, {a})
    <2>1. <<q, r, a>> \in Seq(Accesses)
      BY DEF Quiet
    <2>2. Elements(<<q, r, a>>) = {q, r, a}
      BY DEF Elements
    <2> QED BY <2>1, <2>2 DEF Makes
  <1>4. ASSUME NEW q \in Quiet, NEW r \in Quiet, NEW a \in Accesses
        PROVE  Makes(<<a, q, r>>, {a})
    <2>1. <<a, q, r>> \in Seq(Accesses)
      BY DEF Quiet
    <2>2. Elements(<<a, q, r>>) = {a, q, r}
      BY DEF Elements
    <2> QED BY <2>1, <2>2 DEF Makes
  <1>5. ASSUME NEW q \in Quiet, NEW r \in Quiet, NEW s \in Quiet, NEW a \in Accesses
        PROVE  Makes(<<q, r, s, a>>, {a})
    <2>1. <<q, r, s, a>> \in Seq(Accesses)
      BY DEF Quiet
    <2>2. Elements(<<q, r, s, a>>) = {q, r, s, a}
      BY DEF Elements
    <2> QED BY <2>1, <2>2 DEF Makes
  <1>6. ASSUME NEW q \in Quiet, NEW r \in Quiet, NEW s \in Quiet, NEW a \in Accesses
        PROVE  Makes(<<a, q, r, s>>, {a})
    <2>1. <<a, q, r, s>> \in Seq(Accesses)
      BY DEF Quiet
    <2>2. Elements(<<a, q, r, s>>) = {a, q, r, s}
      BY DEF Elements
    <2> QED BY <2>1, <2>2 DEF Makes
  <1>7. ASSUME NEW q \in Quiet, NEW r \in Quiet, NEW s \in Quiet, NEW t \in Quiet,
               NEW a \in Accesses, NEW b \in Accesses
        PROVE  Makes(<<q, r, s, t, a, b>>, {a, b})
    <2>1. <<q, r, s, t, a, b>> \in Seq(Accesses)
      BY DEF Quiet
    <2>2. Elements(<<q, r, s, t, a, b>>) = {q, r, s, t, a, b}
      BY DEF Elements
    <2> QED BY <2>1, <2>2 DEF Makes
  <1>8. ASSUME NEW q \in Quiet, NEW r \in Quiet, NEW s \in Quiet, NEW t \in Quiet,
               NEW a \in Accesses, NEW b \in Accesses
        PROVE  Makes(<<a, q, r, s, t, b>>, {a, b})
    <2>1. <<a, q, r, s, t, b>> \in Seq(Accesses)
      BY DEF Quiet
    <2>2. Elements(<<a, q, r, s, t, b>>) = {a, q, r, s, t, b}
      BY DEF Elements
    <2> QED BY <2>1, <2>2 DEF Makes
  <1>9. ASSUME NEW a \in Accesses, NEW b \in Accesses
        PROVE  Makes(<<a, b>>, {a, b})
    <2>1. <<a, b>> \in Seq(Accesses)
      BY DEF Quiet
    <2>2. Elements(<<a, b>>) = {a, b}
      BY DEF Elements
    <2> QED BY <2>1, <2>2 DEF Makes
  <1>10. ASSUME NEW a \in Accesses, NEW b \in Accesses, NEW c \in Accesses
        PROVE  Makes(<<a, b, c>>, {a, b, c})
    <2>1. <<a, b, c>> \in Seq(Accesses)
      BY DEF Quiet
    <2>2. Elements(<<a, b, c>>) = {a, b, c}
      BY DEF Elements
    <2> QED BY <2>1, <2>2 DEF Makes
  <1>11. ASSUME NEW q \in Quiet, NEW r \in Quiet, NEW s \in Quiet, NEW t \in Quiet,
               NEW u \in Quiet, NEW v \in Quiet, NEW w \in Quiet, NEW a \in Accesses
        PROVE  Makes(<<q, r, s, t, u, v, w, a>>, {a})
    <2>1. <<q, r, s, t, u, v, w, a>> \in Seq(Accesses)
      BY DEF Quiet
    <2>2. Elements(<<q, r, s, t, u, v, w, a>>) = {q, r, s, t, u, v, w, a}
      BY DEF Elements
    <2> QED BY <2>1, <2>2 DEF Makes
  <1>12. ASSUME NEW q \in Quiet, NEW a \in Accesses, NEW b \in Accesses, NEW c \in Accesses
         PROVE  Makes(<<a, b, q, c>>, {a, b, c})
    <2>1. <<a, b, q, c>> \in Seq(Accesses)
      BY DEF Quiet
    <2>2. Elements(<<a, b, q, c>>) = {a, b, q, c}
      BY DEF Elements
    <2> QED BY <2>1, <2>2 DEF Makes
  <1> QED BY <1>12, <1>1, <1>2, <1>3, <1>4, <1>5, <1>6, <1>7, <1>8, <1>9, <1>10, <1>11

\* set_x_fs writes no switch.
LEMMA FullScaleX ==
  ASSUME NEW fs \in Nat
  PROVE  set_x_fs(fs) \in Seq(Quiet)
  BY QuietSettings DEF set_x_fs

\* FS_125 is the only switch of set_g_fs.
LEMMA FullScaleG ==
  ASSUME NEW fs \in Nat
  PROVE  \E on \in BOOLEAN : Makes(set_g_fs(fs), {W("FS_125", on)})
  <1>1. CASE fs = 125
    <2>1. <<W("FS_125", TRUE)>> \in Seq(Accesses)
      <3>1. W("FS_125", TRUE) \in Accesses
        BY SwitchSettings
      <3> QED BY <3>1, TypedOf
    <2>2. Elements(<<W("FS_125", TRUE)>>) = {W("FS_125", TRUE)}
      BY ElementsOf
    <2>3. Makes(<<W("FS_125", TRUE)>>, {W("FS_125", TRUE)})
      BY <2>1, <2>2 DEF Makes
    <2> QED BY <1>1, <2>3 DEF set_g_fs
  <1>2. CASE fs # 125
    <2>1. Makes(<<W("FS_125", FALSE), W("FS_G", fs)>>, {W("FS_125", FALSE)})
      BY QuietSettings, SwitchSettings, MakesOf
    <2> QED BY <1>2, <2>1 DEF set_g_fs
  <1> QED BY <1>1, <1>2

\* What all detections but free fall begin with.
LEMMA Begun ==
  ASSUME NEW odr \in Int
  PROVE  <<SetOdr("x", odr)>> \o set_x_fs(2) \in Seq(Quiet)
  <1>1. <<SetOdr("x", odr)>> \in Seq(Quiet)
    BY QuietSettings
  <1>2. set_x_fs(2) \in Seq(Quiet)
    BY FullScaleX
  <1> QED BY <1>1, <1>2, ConcatProperties

\* The route to a pin.
LEMMA MakesOn ==
  ASSUME NEW d \in Detections \ {"pedometer"}
  PROVE  /\ \A pin \in Pins : Makes(On(Route[d], pin), {W(Route[d][pin], TRUE)})
         /\ Makes(Off(Route[d]), {W(Route[d][1], FALSE), W(Route[d][2], FALSE)})
  <1>1. \A pin \in Pins : Route[d][pin] \in Switches
    BY RouteSwitches
  <1>2. \A pin \in Pins : \A on \in BOOLEAN : W(Route[d][pin], on) \in Accesses
    BY <1>1, AccessTypes
  <1>3. ASSUME NEW pin \in Pins
        PROVE  Makes(On(Route[d], pin), {W(Route[d][pin], TRUE)})
    <2>1. On(Route[d], pin) \in Seq(Accesses)
      <3>1. W(Route[d][pin], TRUE) \in Accesses
        BY <1>2
      <3> QED BY <3>1, TypedOf DEF On
    <2>2. Elements(On(Route[d], pin)) = {W(Route[d][pin], TRUE)}
      BY ElementsOf DEF On
    <2> QED BY <2>1, <2>2 DEF Makes
  <1>4. W(Route[d][1], FALSE) \in Accesses /\ W(Route[d][2], FALSE) \in Accesses
    BY <1>2 DEF Pins
  <1>5. Makes(Off(Route[d]), {W(Route[d][1], FALSE), W(Route[d][2], FALSE)})
    BY <1>4, MakesOf DEF Off
  <1> QED BY <1>3, <1>5

\* What enable_free_fall_detection makes.
LEMMA MakesEnableFreeFall ==
  ASSUME NEW pin \in Pins
  PROVE  Makes(enable_free_fall_detection(pin),
               {W("BASIC_INT", TRUE)}
               \cup {W(Route["free_fall"][pin], TRUE)})
  <1>1. Makes(<<SetOdr("x", 416), W("FS_XL", 2), W("FF_Duration", 6), W("WAKE_DUR", 0),
                 W("TIMER_HR", 0), W("SLEEP_DUR", 0), W("FF_THS", 312),
                 W("BASIC_INT", TRUE)>>,
             {W("BASIC_INT", TRUE)})
    <2>1. /\ SetOdr("x", 416) \in Quiet /\ W("FS_XL", 2) \in Quiet
          /\ W("FF_Duration", 6) \in Quiet /\ W("WAKE_DUR", 0) \in Quiet
          /\ W("TIMER_HR", 0) \in Quiet /\ W("SLEEP_DUR", 0) \in Quiet
          /\ W("FF_THS", 312) \in Quiet
      BY QuietSettings
    <2> QED BY <2>1, SwitchSettings, MakesOf
  <1>2. Makes(On(Route.free_fall, pin), {W(Route["free_fall"][pin], TRUE)})
    BY MakesOn, RoutesAre
  <1> QED BY <1>1, <1>2, MakesConcat DEF enable_free_fall_detection

\* What disable_free_fall_detection makes.
LEMMA MakesDisableFreeFall ==
  Makes(disable_free_fall_detection,
        {W(Route["free_fall"][1], FALSE), W(Route["free_fall"][2], FALSE)}
        \cup {W("BASIC_INT", FALSE)})
  <1>1. Makes(Off(Route.free_fall), {W(Route["free_fall"][1], FALSE), W(Route["free_fall"][2], FALSE)})
    BY MakesOn, RoutesAre
  <1>2. Makes(<<W("BASIC_INT", FALSE), W("FF_Duration", 0), W("FF_THS", 156)>>,
             {W("BASIC_INT", FALSE)})
    <2>1. /\ W("FF_Duration", 0) \in Quiet /\ W("FF_THS", 156) \in Quiet
      BY QuietSettings
    <2> QED BY <2>1, SwitchSettings, MakesOf
  <1> QED BY <1>1, <1>2, MakesConcat DEF disable_free_fall_detection

\* What enable_tilt_detection makes.
LEMMA MakesEnableTilt ==
  ASSUME NEW pin \in Pins
  PROVE  Makes(enable_tilt_detection(pin),
               {W("FUNC_EN", TRUE), W("TILT", TRUE)}
               \cup {W(Route["tilt"][pin], TRUE)})
  <1>1. <<SetOdr("x", 26)>> \o set_x_fs(2) \in Seq(Quiet)
    BY Begun
  <1>2. Makes(<<W("FUNC_EN", TRUE), W("TILT", TRUE)>>,
             {W("FUNC_EN", TRUE), W("TILT", TRUE)})
    BY SwitchSettings, MakesOf
  <1>3. Makes(<<SetOdr("x", 26)>> \o set_x_fs(2)
             \o <<W("FUNC_EN", TRUE), W("TILT", TRUE)>>,
             {W("FUNC_EN", TRUE), W("TILT", TRUE)})
    BY <1>1, <1>2, MakesAfterQuiet
  <1>4. Makes(On(Route.tilt, pin), {W(Route["tilt"][pin], TRUE)})
    BY MakesOn, RoutesAre
  <1> QED BY <1>3, <1>4, MakesConcat DEF enable_tilt_detection

\* What disable_tilt_detection makes.
LEMMA MakesDisableTilt ==
  Makes(disable_tilt_detection,
        {W(Route["tilt"][1], FALSE), W(Route["tilt"][2], FALSE)}
        \cup {W("TILT", FALSE), W("FUNC_EN", FALSE)})
  <1>1. Makes(Off(Route.tilt), {W(Route["tilt"][1], FALSE), W(Route["tilt"][2], FALSE)})
    BY MakesOn, RoutesAre
  <1>2. Makes(<<W("TILT", FALSE), W("FUNC_EN", FALSE)>>,
             {W("TILT", FALSE), W("FUNC_EN", FALSE)})
    BY SwitchSettings, MakesOf
  <1> QED BY <1>1, <1>2, MakesConcat DEF disable_tilt_detection

\* What enable_wake_up_detection makes.
LEMMA MakesEnableWakeUp ==
  ASSUME NEW pin \in Pins
  PROVE  Makes(enable_wake_up_detection(pin),
               {W("BASIC_INT", TRUE)}
               \cup {W(Route["wake_up"][pin], TRUE)})
  <1>1. <<SetOdr("x", 416)>> \o set_x_fs(2) \in Seq(Quiet)
    BY Begun
  <1>2. Makes(<<W("WAKE_DUR", 0), W("WK_THS", 2), W("BASIC_INT", TRUE)>>,
             {W("BASIC_INT", TRUE)})
    <2>1. /\ W("WAKE_DUR", 0) \in Quiet /\ W("WK_THS", 2) \in Quiet
      BY QuietSettings
    <2> QED BY <2>1, SwitchSettings, MakesOf
  <1>3. Makes(<<SetOdr("x", 416)>> \o set_x_fs(2)
             \o <<W("WAKE_DUR", 0), W("WK_THS", 2), W("BASIC_INT", TRUE)>>,
             {W("BASIC_INT", TRUE)})
    BY <1>1, <1>2, MakesAfterQuiet
  <1>4. Makes(On(Route.wake_up, pin), {W(Route["wake_up"][pin], TRUE)})
    BY MakesOn, RoutesAre
  <1> QED BY <1>3, <1>4, MakesConcat DEF enable_wake_up_detection

\* What disable_wake_up_detection makes.
LEMMA MakesDisableWakeUp ==
  Makes(disable_wake_up_detection,
        {W(Route["wake_up"][1], FALSE), W(Route["wake_up"][2], FALSE)}
        \cup {W("BASIC_INT", FALSE)})
  <1>1. Makes(Off(Route.wake_up), {W(Route["wake_up"][1], FALSE), W(Route["wake_up"][2], FALSE)})
    BY MakesOn, RoutesAre
  <1>2. Makes(<<W("BASIC_INT", FALSE), W("WAKE_DUR", 0), W("WK_THS", 0)>>,
             {W("BASIC_INT", FALSE)})
    <2>1. /\ W("WAKE_DUR", 0) \in Quiet /\ W("WK_THS", 0) \in Quiet
      BY QuietSettings
    <2> QED BY <2>1, SwitchSettings, MakesOf
  <1> QED BY <1>1, <1>2, MakesConcat DEF disable_wake_up_detection

\* What enable_single_tap_detection makes.
LEMMA MakesEnableSingleTap ==
  ASSUME NEW pin \in Pins
  PROVE  Makes(enable_single_tap_detection(pin),
               {W("TAP_X_EN", TRUE), W("TAP_Y_EN", TRUE), W("TAP_Z_EN", TRUE)}
               \cup {W("BASIC_INT", TRUE)}
               \cup {W(Route["single_tap"][pin], TRUE)})
  <1>1. <<SetOdr("x", 416)>> \o set_x_fs(2) \in Seq(Quiet)
    BY Begun
  <1>2. Makes(TapAxes(TRUE), {W("TAP_X_EN", TRUE), W("TAP_Y_EN", TRUE), W("TAP_Z_EN", TRUE)})
    BY SwitchSettings, MakesOf DEF TapAxes
  <1>3. Makes(<<W("TAP_THS", 8), W("SHOCK_Duration", 2), W("QUIET_Duration", 1),
                 W("BASIC_INT", TRUE)>>,
             {W("BASIC_INT", TRUE)})
    <2>1. /\ W("TAP_THS", 8) \in Quiet /\ W("SHOCK_Duration", 2) \in Quiet
          /\ W("QUIET_Duration", 1) \in Quiet
      BY QuietSettings
    <2> QED BY <2>1, SwitchSettings, MakesOf
  <1>4. Makes(<<SetOdr("x", 416)>> \o set_x_fs(2) \o TapAxes(TRUE),
             {W("TAP_X_EN", TRUE), W("TAP_Y_EN", TRUE), W("TAP_Z_EN", TRUE)})
    BY <1>1, <1>2, MakesAfterQuiet
  <1>5. Makes(<<SetOdr("x", 416)>> \o set_x_fs(2) \o TapAxes(TRUE)
             \o <<W("TAP_THS", 8), W("SHOCK_Duration", 2), W("QUIET_Duration", 1), W("BASIC_INT", TRUE)>>,
             {W("TAP_X_EN", TRUE), W("TAP_Y_EN", TRUE), W("TAP_Z_EN", TRUE)} \cup {W("BASIC_INT", TRUE)})
    BY <1>3, <1>4, MakesConcat
  <1>6. Makes(On(Route.single_tap, pin), {W(Route["single_tap"][pin], TRUE)})
    BY MakesOn, RoutesAre
  <1> QED BY <1>5, <1>6, MakesConcat DEF enable_single_tap_detection

\* What disable_single_tap_detection makes.
LEMMA MakesDisableSingleTap ==
  Makes(disable_single_tap_detection,
        {W(Route["single_tap"][1], FALSE), W(Route["single_tap"][2], FALSE)}
        \cup {W("BASIC_INT", FALSE)}
        \cup {W("TAP_Z_EN", FALSE), W("TAP_Y_EN", FALSE), W("TAP_X_EN", FALSE)})
  <1>1. Makes(Off(Route.single_tap), {W(Route["single_tap"][1], FALSE), W(Route["single_tap"][2], FALSE)})
    BY MakesOn, RoutesAre
  <1>2. Makes(<<W("BASIC_INT", FALSE), W("TAP_THS", 0), W("SHOCK_Duration", 0),
                 W("QUIET_Duration", 0)>>,
             {W("BASIC_INT", FALSE)})
    <2>1. /\ W("TAP_THS", 0) \in Quiet /\ W("SHOCK_Duration", 0) \in Quiet
          /\ W("QUIET_Duration", 0) \in Quiet
      BY QuietSettings
    <2> QED BY <2>1, SwitchSettings, MakesOf
  <1>3. Makes(TapAxesOff, {W("TAP_Z_EN", FALSE), W("TAP_Y_EN", FALSE), W("TAP_X_EN", FALSE)})
    BY SwitchSettings, MakesOf DEF TapAxesOff
  <1>4. Makes(Off(Route.single_tap) \o <<W("BASIC_INT", FALSE), W("TAP_THS", 0), W("SHOCK_Duration", 0), W("QUIET_Duration", 0)>>,
             {W(Route["single_tap"][1], FALSE), W(Route["single_tap"][2], FALSE)}
             \cup {W("BASIC_INT", FALSE)})
    BY <1>1, <1>2, MakesConcat
  <1> QED BY <1>3, <1>4, MakesConcat DEF disable_single_tap_detection

\* What enable_double_tap_detection makes.
LEMMA MakesEnableDoubleTap ==
  ASSUME NEW pin \in Pins
  PROVE  Makes(enable_double_tap_detection(pin),
               {W("TAP_X_EN", TRUE), W("TAP_Y_EN", TRUE), W("TAP_Z_EN", TRUE)}
               \cup {W("SINGLE_DOUBLE_TAP_EV", TRUE), W("BASIC_INT", TRUE)}
               \cup {W(Route["double_tap"][pin], TRUE)})
  <1>1. <<SetOdr("x", 416)>> \o set_x_fs(2) \in Seq(Quiet)
    BY Begun
  <1>2. Makes(TapAxes(TRUE), {W("TAP_X_EN", TRUE), W("TAP_Y_EN", TRUE), W("TAP_Z_EN", TRUE)})
    BY SwitchSettings, MakesOf DEF TapAxes
  <1>3. Makes(<<W("TAP_THS", 8), W("SHOCK_Duration", 3), W("QUIET_Duration", 3),
                 W("DUR", 8), W("SINGLE_DOUBLE_TAP_EV", TRUE), W("BASIC_INT", TRUE)>>,
             {W("SINGLE_DOUBLE_TAP_EV", TRUE), W("BASIC_INT", TRUE)})
    <2>1. /\ W("TAP_THS", 8) \in Quiet /\ W("SHOCK_Duration", 3) \in Quiet
          /\ W("QUIET_Duration", 3) \in Quiet /\ W("DUR", 8) \in Quiet
      BY QuietSettings
    <2> QED BY <2>1, SwitchSettings, MakesOf
  <1>4. Makes(<<SetOdr("x", 416)>> \o set_x_fs(2) \o TapAxes(TRUE),
             {W("TAP_X_EN", TRUE), W("TAP_Y_EN", TRUE), W("TAP_Z_EN", TRUE)})
    BY <1>1, <1>2, MakesAfterQuiet
  <1>5. Makes(<<SetOdr("x", 416)>> \o set_x_fs(2) \o TapAxes(TRUE)
             \o <<W("TAP_THS", 8), W("SHOCK_Duration", 3), W("QUIET_Duration", 3), W("DUR", 8),
                 W("SINGLE_DOUBLE_TAP_EV", TRUE), W("BASIC_INT", TRUE)>>,
             {W("TAP_X_EN", TRUE), W("TAP_Y_EN", TRUE), W("TAP_Z_EN", TRUE)} \cup {W("SINGLE_DOUBLE_TAP_EV", TRUE), W("BASIC_INT", TRUE)})
    BY <1>3, <1>4, MakesConcat
  <1>6. Makes(On(Route.double_tap, pin), {W(Route["double_tap"][pin], TRUE)})
    BY MakesOn, RoutesAre
  <1> QED BY <1>5, <1>6, MakesConcat DEF enable_double_tap_detection

\* What disable_double_tap_detection makes.
LEMMA MakesDisableDoubleTap ==
  Makes(disable_double_tap_detection,
        {W(Route["double_tap"][1], FALSE), W(Route["double_tap"][2], FALSE)}
        \cup {W("BASIC_INT", FALSE), W("SINGLE_DOUBLE_TAP_EV", FALSE)}
        \cup {W("TAP_Z_EN", FALSE), W("TAP_Y_EN", FALSE), W("TAP_X_EN", FALSE)})
  <1>1. Makes(Off(Route.double_tap), {W(Route["double_tap"][1], FALSE), W(Route["double_tap"][2], FALSE)})
    BY MakesOn, RoutesAre
  <1>2. Makes(<<W("BASIC_INT", FALSE), W("TAP_THS", 0), W("SHOCK_Duration", 0),
                 W("QUIET_Duration", 0), W("DUR", 0), W("SINGLE_DOUBLE_TAP_EV", FALSE)>>,
             {W("BASIC_INT", FALSE), W("SINGLE_DOUBLE_TAP_EV", FALSE)})
    <2>1. /\ W("TAP_THS", 0) \in Quiet /\ W("SHOCK_Duration", 0) \in Quiet
          /\ W("QUIET_Duration", 0) \in Quiet /\ W("DUR", 0) \in Quiet
      BY QuietSettings
    <2> QED BY <2>1, SwitchSettings, MakesOf
  <1>3. Makes(TapAxesOff, {W("TAP_Z_EN", FALSE), W("TAP_Y_EN", FALSE), W("TAP_X_EN", FALSE)})
    BY SwitchSettings, MakesOf DEF TapAxesOff
  <1>4. Makes(Off(Route.double_tap) \o <<W("BASIC_INT", FALSE), W("TAP_THS", 0), W("SHOCK_Duration", 0), W("QUIET_Duration", 0),
                 W("DUR", 0), W("SINGLE_DOUBLE_TAP_EV", FALSE)>>,
             {W(Route["double_tap"][1], FALSE), W(Route["double_tap"][2], FALSE)}
             \cup {W("BASIC_INT", FALSE), W("SINGLE_DOUBLE_TAP_EV", FALSE)})
    BY <1>1, <1>2, MakesConcat
  <1> QED BY <1>3, <1>4, MakesConcat DEF disable_double_tap_detection

\* What enable_6d_orientation makes.
LEMMA MakesEnableOrientation ==
  ASSUME NEW pin \in Pins
  PROVE  Makes(enable_6d_orientation(pin),
               {W("BASIC_INT", TRUE)}
               \cup {W(Route["orientation"][pin], TRUE)})
  <1>1. <<SetOdr("x", 416)>> \o set_x_fs(2) \in Seq(Quiet)
    BY Begun
  <1>2. Makes(<<W("SIXD_THS", 60), W("BASIC_INT", TRUE)>>,
             {W("BASIC_INT", TRUE)})
    <2>1. /\ W("SIXD_THS", 60) \in Quiet
      BY QuietSettings
    <2> QED BY <2>1, SwitchSettings, MakesOf
  <1>3. Makes(<<SetOdr("x", 416)>> \o set_x_fs(2)
             \o <<W("SIXD_THS", 60), W("BASIC_INT", TRUE)>>,
             {W("BASIC_INT", TRUE)})
    BY <1>1, <1>2, MakesAfterQuiet
  <1>4. Makes(On(Route.orientation, pin), {W(Route["orientation"][pin], TRUE)})
    BY MakesOn, RoutesAre
  <1> QED BY <1>3, <1>4, MakesConcat DEF enable_6d_orientation

\* What disable_6d_orientation makes.
LEMMA MakesDisableOrientation ==
  Makes(disable_6d_orientation,
        {W(Route["orientation"][1], FALSE), W(Route["orientation"][2], FALSE)}
        \cup {W("BASIC_INT", FALSE)})
  <1>1. Makes(Off(Route.orientation), {W(Route["orientation"][1], FALSE), W(Route["orientation"][2], FALSE)})
    BY MakesOn, RoutesAre
  <1>2. Makes(<<W("BASIC_INT", FALSE), W("SIXD_THS", 80)>>,
             {W("BASIC_INT", FALSE)})
    <2>1. /\ W("SIXD_THS", 80) \in Quiet
      BY QuietSettings
    <2> QED BY <2>1, SwitchSettings, MakesOf
  <1> QED BY <1>1, <1>2, MakesConcat DEF disable_6d_orientation

\* What set_pedometer_threshold makes.
LEMMA MakesPages ==
  ASSUME NEW thr \in Nat
  PROVE  Makes(set_pedometer_threshold(thr), {Page("embedded"), PedoThs(thr), Page("main")})
  <1>1. Page("embedded") \in Accesses /\ PedoThs(thr) \in Accesses /\ Page("main") \in Accesses
    BY AccessTypes
  <1> QED BY <1>1, MakesOf DEF set_pedometer_threshold

\* What enable_pedometer makes.
LEMMA MakesEnablePedometer ==
  Makes(enable_pedometer,
        {Page("embedded"), PedoThs(23), Page("main")}
        \cup {W("FUNC_EN", TRUE), W("PEDO", TRUE), W("STEP_DET_on_INT1", TRUE)})
  <1>1. <<SetOdr("x", 26)>> \o set_x_fs(2) \in Seq(Quiet)
    BY Begun
  <1>2. Makes(set_pedometer_threshold(23), {Page("embedded"), PedoThs(23), Page("main")})
    BY MakesPages
  <1>3. Makes(<<W("FUNC_EN", TRUE), W("PEDO", TRUE), W("STEP_DET_on_INT1", TRUE)>>,
              {W("FUNC_EN", TRUE), W("PEDO", TRUE), W("STEP_DET_on_INT1", TRUE)})
    BY SwitchSettings, MakesOf
  <1>4. Makes(<<SetOdr("x", 26)>> \o set_x_fs(2) \o set_pedometer_threshold(23),
              {Page("embedded"), PedoThs(23), Page("main")})
    BY <1>1, <1>2, MakesAfterQuiet
  <1> QED BY <1>3, <1>4, MakesConcat DEF enable_pedometer

\* What disable_pedometer makes.
LEMMA MakesDisablePedometer ==
  Makes(disable_pedometer,
        {W("STEP_DET_on_INT1", FALSE), W("PEDO", FALSE), W("FUNC_EN", FALSE)}
        \cup {Page("embedded"), PedoThs(0), Page("main")})
  <1>1. Makes(<<W("STEP_DET_on_INT1", FALSE), W("PEDO", FALSE), W("FUNC_EN", FALSE)>>,
              {W("STEP_DET_on_INT1", FALSE), W("PEDO", FALSE), W("FUNC_EN", FALSE)})
    BY SwitchSettings, MakesOf
  <1>2. Makes(set_pedometer_threshold(0), {Page("embedded"), PedoThs(0), Page("main")})
    BY MakesPages
  <1> QED BY <1>1, <1>2, MakesConcat DEF disable_pedometer

\* What init makes.
LEMMA MakesInit ==
  \E on \in BOOLEAN :
    Makes(init,
          {W("IF_Addr_Incr", TRUE), W("BDU", TRUE), W("ODR_XL", 0), W("ODR_G", 0), W("FS_125", on)})
  <1> DEFINE a == <<W("IF_Addr_Incr", TRUE), W("BDU", TRUE), W("FIFO_MODE", 0), W("ODR_XL", 0)>>
             A == {W("IF_Addr_Incr", TRUE), W("BDU", TRUE), W("ODR_XL", 0)}
             dps == 2000
  <1>1. Makes(a, A)
    <2>1. W("FIFO_MODE", 0) \in Quiet
      BY QuietSettings
    <2>2. /\ W("IF_Addr_Incr", TRUE) \in Accesses /\ W("BDU", TRUE) \in Accesses
          /\ W("ODR_XL", 0) \in Accesses
      BY SwitchSettings
    <2> QED BY <2>1, <2>2, MakesOf
  <1>2. Makes(set_x_fs(2) \o <<W("ODR_G", 0)>>, {W("ODR_G", 0)})
    <2>1. <<W("ODR_G", 0)>> \in Seq(Accesses)
      BY SwitchSettings, TypedOf
    <2>2. Elements(<<W("ODR_G", 0)>>) = {W("ODR_G", 0)}
      BY ElementsOf
    <2>3. Makes(<<W("ODR_G", 0)>>, {W("ODR_G", 0)})
      BY <2>1, <2>2 DEF Makes
    <2>4. set_x_fs(2) \in Seq(Quiet)
      BY FullScaleX
    <2> QED BY <2>3, <2>4, MakesAfterQuiet
  <1>3. dps \in Nat
    OBVIOUS
  <1> HIDE DEF A, a, dps
  <1>4. PICK on \in BOOLEAN : Makes(set_g_fs(dps), {W("FS_125", on)})
    BY <1>3, FullScaleG
  <1>5. /\ a \in Seq(Accesses) /\ set_x_fs(2) \in Seq(Accesses)
        /\ <<W("ODR_G", 0)>> \in Seq(Accesses)
    <2>1. set_x_fs(2) \in Seq(Quiet)
      BY FullScaleX
    <2>2. <<W("ODR_G", 0)>> \in Seq(Accesses)
      BY SwitchSettings, TypedOf
    <2> QED BY <1>1, <2>1, <2>2 DEF Makes, Quiet
  <1>6. a \o set_x_fs(2) \o <<W("ODR_G", 0)>> = a \o (set_x_fs(2) \o <<W("ODR_G", 0)>>)
    BY <1>5, ConcatAssociative
  <1>7. Makes(a \o set_x_fs(2) \o <<W("ODR_G", 0)>>, A \cup {W("ODR_G", 0)})
    BY <1>1, <1>2, <1>6, MakesConcat
  <1>8. Makes(a \o set_x_fs(2) \o <<W("ODR_G", 0)>> \o set_g_fs(dps),
              A \cup {W("ODR_G", 0)} \cup {W("FS_125", on)})
    BY <1>4, <1>7, MakesConcat
  <1>9. Makes(init, A \cup {W("ODR_G", 0)} \cup {W("FS_125", on)})
    BY <1>8 DEF init, a, dps
  <1> QED BY <1>9 DEF A

------------------------------------------------------------------------------
(* The calls.                                                               *)

\* The shape of a call of each kind.
LEMMA CallShape ==
  ASSUME NEW c \in Calls
  PROVE  /\ c # <<>>
         /\ c[1] \in {"init", "reset_step_counter", "enable_temp", "enable", "disable", "set_odr",
                      "enable_detection", "disable_detection", "set_threshold", "set_x_fs",
                      "set_g_fs"}
         /\ c[1] = "init" => c = <<"init">>
         /\ c[1] \in {"enable", "disable"} => c[2] \in Sensors /\ c = <<c[1], c[2]>>
         /\ c[1] = "set_odr" => c[2] \in Sensors /\ c[3] \in Nat
         /\ c[1] = "enable_detection" => c[2] \in Detections /\ c[3] \in Pins
         /\ c[1] = "disable_detection" => c[2] \in Detections
         /\ c[1] = "set_threshold" =>
               c[2] \in DOMAIN Threshold \cup {"pedometer"} /\ c[3] \in Nat
         /\ c[1] \in {"set_x_fs", "set_g_fs"} => c[2] \in Nat
  <1>1. CASE c \in {<<"init">>, <<"reset_step_counter">>, <<"enable_temp">>}
    BY <1>1
  <1>2. CASE c \in {"enable", "disable"} \X Sensors
    BY <1>2
  <1>3. CASE c \in {"set_odr"} \X Sensors \X Nat
    BY <1>3
  <1>4. CASE c \in {"enable_detection"} \X Detections \X Pins
    BY <1>4
  <1>5. CASE c \in {"disable_detection"} \X Detections
    BY <1>5
  <1>6. CASE c \in {"set_threshold"} \X (DOMAIN Threshold \cup {"pedometer"}) \X Nat
    <2> DEFINE Of == DOMAIN Threshold \cup {"pedometer"}
    <2> HIDE DEF Of
    <2>1. c \in {"set_threshold"} \X Of \X Nat
      BY <1>6 DEF Of
    <2>2. c # <<>> /\ c[1] = "set_threshold" /\ c[2] \in Of /\ c[3] \in Nat
      BY <2>1
    <2> QED BY <2>2 DEF Of
  <1>7. CASE c \in {"set_x_fs", "set_g_fs"} \X Nat
    BY <1>7
  <1> QED BY <1>1, <1>2, <1>3, <1>4, <1>5, <1>6, <1>7 DEF Calls

\* What a detection needs: its switches and one of its routes.
Vital(d) == Own(d) \cup {Switch(d)} \cup {Route[d][i] : i \in DOMAIN Route[d]}

FunctionFields ==
  {"FUNC_EN", "PEDO", "TILT", "TiltEvOnInt1", "TiltEvOnInt2", "STEP_DET_on_INT1"}

\* The two groups of detections have no field in common.
LEMMA GroupsApart ==
  ASSUME NEW d \in Detections, NEW f \in Vital(d)
  PROVE  /\ f \in Switches
         /\ f \in FunctionFields <=> d \in FunctionGroup
         /\ Switch(d) = IF d \in FunctionGroup THEN "FUNC_EN" ELSE "BASIC_INT"
  <1>1. CASE f \in Own(d) \cup {Switch(d)}
    <2>1. f \in Switches
      BY <1>1, SwitchesAre DEF Own, Switch
    <2>2. f \in FunctionFields <=> d \in FunctionGroup
      BY <1>1 DEF Own, Switch, FunctionFields, FunctionGroup
    <2> QED BY <2>1, <2>2 DEF Switch
  <1>2. CASE \E i \in DOMAIN Route[d] : f = Route[d][i]
    <2>1. f \in Switches
      BY <1>2, RouteSwitches
    <2>2. CASE d = "pedometer"
      BY <1>2, <2>1, <2>2, RoutesAre, RouteSwitches DEF Switch, FunctionFields, FunctionGroup
    <2>3. CASE d # "pedometer"
      BY <1>2, <2>1, <2>3, RoutesAre, RouteSwitches DEF Pins, Switch, FunctionFields, FunctionGroup
    <2> QED BY <2>2, <2>3
  <1> QED BY <1>1, <1>2 DEF Vital

\* What enabling a detection on a pin has to set.
Needed(d, pin) ==
  Own(d) \cup {Switch(d)} \cup {Route[d][IF d = "pedometer" THEN 1 ELSE pin]}


\* Enabling a detection only sets switches, and all it needs.
LEMMA EnablingMakes ==
  ASSUME NEW d \in Detections \ {"pedometer"}, NEW pin \in Pins
  PROVE  \E A : /\ Makes(enable_detection(d, pin), A)
                /\ \A a \in A : \E f \in Switches : a = W(f, TRUE)
                /\ \A f \in Needed(d, pin) : W(f, TRUE) \in A
  <1>0. Route[d][pin] \in Switches
    BY RouteSwitches
  <1>1. CASE d = "free_fall"
    <2> DEFINE A == {W("BASIC_INT", TRUE)}
                 \cup {W(Route["free_fall"][pin], TRUE)}
    <2>1. Makes(enable_free_fall_detection(pin), A)
      BY MakesEnableFreeFall
    <2>2. \A a \in A : \E f \in Switches : a = W(f, TRUE)
      BY <1>0, <1>1, SwitchSettings
    <2>3. \A f \in Needed(d, pin) : W(f, TRUE) \in A
      BY <1>1 DEF Needed, Own, Switch, FunctionGroup
    <2> HIDE DEF A
    <2> QED BY <1>1, <2>1, <2>2, <2>3 DEF enable_detection
  <1>2. CASE d = "wake_up"
    <2> DEFINE A == {W("BASIC_INT", TRUE)}
                 \cup {W(Route["wake_up"][pin], TRUE)}
    <2>1. Makes(enable_wake_up_detection(pin), A)
      BY MakesEnableWakeUp
    <2>2. \A a \in A : \E f \in Switches : a = W(f, TRUE)
      BY <1>0, <1>2, SwitchSettings
    <2>3. \A f \in Needed(d, pin) : W(f, TRUE) \in A
      BY <1>2 DEF Needed, Own, Switch, FunctionGroup
    <2> HIDE DEF A
    <2> QED BY <1>2, <2>1, <2>2, <2>3 DEF enable_detection
  <1>3. CASE d = "tilt"
    <2> DEFINE A == {W("FUNC_EN", TRUE), W("TILT", TRUE)}
                 \cup {W(Route["tilt"][pin], TRUE)}
    <2>1. Makes(enable_tilt_detection(pin), A)
      BY MakesEnableTilt
    <2>2. \A a \in A : \E f \in Switches : a = W(f, TRUE)
      BY <1>0, <1>3, SwitchSettings
    <2>3. \A f \in Needed(d, pin) : W(f, TRUE) \in A
      BY <1>3 DEF Needed, Own, Switch, FunctionGroup
    <2> HIDE DEF A
    <2> QED BY <1>3, <2>1, <2>2, <2>3 DEF enable_detection
  <1>4. CASE d = "single_tap"
    <2> DEFINE A == {W("TAP_X_EN", TRUE), W("TAP_Y_EN", TRUE), W("TAP_Z_EN", TRUE)}
                 \cup {W("BASIC_INT", TRUE)}
                 \cup {W(Route["single_tap"][pin], TRUE)}
    <2>1. Makes(enable_single_tap_detection(pin), A)
      BY MakesEnableSingleTap
    <2>2. \A a \in A : \E f \in Switches : a = W(f, TRUE)
      BY <1>0, <1>4, SwitchSettings
    <2>3. \A f \in Needed(d, pin) : W(f, TRUE) \in A
      BY <1>4 DEF Needed, Own, Switch, FunctionGroup
    <2> HIDE DEF A
    <2> QED BY <1>4, <2>1, <2>2, <2>3 DEF enable_detection
  <1>5. CASE d = "double_tap"
    <2> DEFINE A == {W("TAP_X_EN", TRUE), W("TAP_Y_EN", TRUE), W("TAP_Z_EN", TRUE)}
                 \cup {W("SINGLE_DOUBLE_TAP_EV", TRUE), W("BASIC_INT", TRUE)}
                 \cup {W(Route["double_tap"][pin], TRUE)}
    <2>1. Makes(enable_double_tap_detection(pin), A)
      BY MakesEnableDoubleTap
    <2>2. \A a \in A : \E f \in Switches : a = W(f, TRUE)
      BY <1>0, <1>5, SwitchSettings
    <2>3. \A f \in Needed(d, pin) : W(f, TRUE) \in A
      BY <1>5 DEF Needed, Own, Switch, FunctionGroup
    <2> HIDE DEF A
    <2> QED BY <1>5, <2>1, <2>2, <2>3 DEF enable_detection
  <1>6. CASE d = "orientation"
    <2> DEFINE A == {W("BASIC_INT", TRUE)}
                 \cup {W(Route["orientation"][pin], TRUE)}
    <2>1. Makes(enable_6d_orientation(pin), A)
      BY MakesEnableOrientation
    <2>2. \A a \in A : \E f \in Switches : a = W(f, TRUE)
      BY <1>0, <1>6, SwitchSettings
    <2>3. \A f \in Needed(d, pin) : W(f, TRUE) \in A
      BY <1>6 DEF Needed, Own, Switch, FunctionGroup
    <2> HIDE DEF A
    <2> QED BY <1>6, <2>1, <2>2, <2>3 DEF enable_detection
  <1> QED BY <1>1, <1>2, <1>3, <1>4, <1>5, <1>6, RoutesAre

\* A part without switches before a part without pages.
LEMMA PagesFirstConcat ==
  ASSUME NEW s \in Seq(Accesses), NEW t \in Seq(Accesses),
         \A a \in Elements(s) : ~SwitchAccess(a),
         \A a \in Elements(t) : ~PageAccess(a)
  PROVE  PagesFirst(s \o t)
  <1> DEFINE st == s \o t
  <1>1. /\ st \in Seq(Accesses) /\ Len(st) = Len(s) + Len(t)
        /\ Len(s) \in Nat /\ Len(t) \in Nat
        /\ DOMAIN st = 1 .. Len(st) /\ DOMAIN s = 1 .. Len(s) /\ DOMAIN t = 1 .. Len(t)
        /\ \A i \in 1 .. Len(s) : st[i] = s[i]
        /\ \A i \in 1 .. Len(t) : st[Len(s) + i] = t[i]
    BY ConcatProperties
  <1> HIDE DEF st
  <1> SUFFICES ASSUME NEW i \in DOMAIN st, NEW j \in DOMAIN st,
                      PageAccess(st[i]), SwitchAccess(st[j])
               PROVE  i < j
    BY DEF PagesFirst, st
  <1>2. i <= Len(s)
    <2> SUFFICES ASSUME i > Len(s)
                 PROVE  FALSE
      BY <1>1
    <2>1. i - Len(s) \in 1 .. Len(t) /\ i = Len(s) + (i - Len(s))
      BY <1>1
    <2>2. PICK k \in 1 .. Len(t) : i = Len(s) + k
      BY <2>1
    <2>3. st[i] = t[k] /\ t[k] \in Elements(t)
      BY <1>1, <2>2 DEF Elements
    <2> QED BY <2>3
  <1>3. j > Len(s)
    <2> SUFFICES ASSUME j <= Len(s)
                 PROVE  FALSE
      BY <1>1
    <2>1. st[j] = s[j] /\ s[j] \in Elements(s)
      BY <1>1 DEF Elements
    <2> QED BY <2>1
  <1> QED BY <1>1, <1>2, <1>3

\* Enabling a detection sets all it needs, clears no switch, and has written
\* to the pedometer's page before.
LEMMA EnablingSets ==
  ASSUME NEW d \in Detections, NEW pin \in Pins
  PROVE  /\ enable_detection(d, pin) \in Seq(Accesses)
         /\ \A a \in Elements(enable_detection(d, pin)) : Plain(a) /\ Sets(a)
         /\ \A f \in Needed(d, pin) : W(f, TRUE) \in Elements(enable_detection(d, pin))
         /\ PagesFirst(enable_detection(d, pin))
  <1>1. CASE d # "pedometer"
    <2> DEFINE F == enable_detection(d, pin)
    <2>1. PICK A : /\ Makes(F, A)
                   /\ \A a \in A : \E f \in Switches : a = W(f, TRUE)
                   /\ \A f \in Needed(d, pin) : W(f, TRUE) \in A
      BY <1>1, EnablingMakes
    <2> HIDE DEF F
    <2>2. \A a \in Elements(F) : Plain(a) /\ Sets(a) /\ ~PageAccess(a)
      <3>1. \A a \in Quiet : Plain(a) /\ Sets(a) /\ ~PageAccess(a)
        BY DEF Quiet, Sets
      <3>2. \A a \in A : Plain(a) /\ Sets(a) /\ ~PageAccess(a)
        BY <2>1, AccessKinds
      <3> QED BY <2>1, <3>1, <3>2 DEF Makes
    <2>3. PagesFirst(F)
      BY <2>2 DEF PagesFirst, Elements
    <2>4. F \in Seq(Accesses) /\ \A f \in Needed(d, pin) : W(f, TRUE) \in Elements(F)
      BY <2>1 DEF Makes
    <2> QED BY <2>2, <2>3, <2>4 DEF F
  <1>2. CASE d = "pedometer"
    <2> DEFINE F == enable_pedometer
               begin == <<SetOdr("x", 26)>> \o set_x_fs(2) \o set_pedometer_threshold(23)
               switches == <<W("FUNC_EN", TRUE), W("PEDO", TRUE), W("STEP_DET_on_INT1", TRUE)>>
               On3 == {W("FUNC_EN", TRUE), W("PEDO", TRUE), W("STEP_DET_on_INT1", TRUE)}
               Pages == {Page("embedded"), PedoThs(23), Page("main")}
    <2>1. Makes(F, Pages \cup On3)
      BY MakesEnablePedometer
    <2>2. Makes(begin, Pages)
      <3>1. <<SetOdr("x", 26)>> \o set_x_fs(2) \in Seq(Quiet)
        BY Begun
      <3> QED BY <3>1, MakesPages, MakesAfterQuiet
    <2>3. Makes(switches, On3)
      BY SwitchSettings, MakesOf
    <2>4. \A a \in On3 : Plain(a) /\ Sets(a) /\ ~PageAccess(a)
      BY SwitchSettings, AccessKinds
    <2>5. \A a \in Pages : Plain(a) /\ ~SwitchAccess(a)
      BY AccessKinds
    <2>6. F = begin \o switches
      BY DEF enable_pedometer
    <2>7. \A f \in Needed(d, pin) : W(f, TRUE) \in On3
      <3>1. Needed(d, pin) = {"PEDO"} \cup {"FUNC_EN"} \cup {Route["pedometer"][1]}
        BY <1>2 DEF Needed, Own, Switch, FunctionGroup
      <3>2. Route["pedometer"][1] = "STEP_DET_on_INT1"
        BY RoutesAre
      <3> QED BY <3>1, <3>2
    <2> HIDE DEF F, begin, switches, On3, Pages
    <2>8. \A a \in Elements(begin) : ~SwitchAccess(a)
      BY <2>2, <2>5 DEF Makes, Quiet
    <2>9. PagesFirst(F)
      <3>1. \A a \in Elements(switches) : ~PageAccess(a)
        BY <2>3, <2>4 DEF Makes, Quiet
      <3> QED BY <2>2, <2>3, <2>6, <2>8, <3>1, PagesFirstConcat DEF Makes
    <2>10. \A a \in Elements(F) : Plain(a) /\ Sets(a)
      BY <2>1, <2>4, <2>5 DEF Makes, Quiet, Sets
    <2>11. F \in Seq(Accesses) /\ \A f \in Needed(d, pin) : W(f, TRUE) \in Elements(F)
      BY <2>1, <2>7 DEF Makes
    <2> QED BY <1>2, <2>9, <2>10, <2>11 DEF F, enable_detection
  <1> QED BY <1>1, <1>2

\* Disabling a detection writes to the switches of its group only.
OfGroup(a, d) ==
  \E f \in Switches : a = W(f, FALSE) /\ (f \in FunctionFields <=> d \in FunctionGroup)

\* Disabling a detection but the pedometer only clears switches of its group.
LEMMA DisablingMakes ==
  ASSUME NEW d \in Detections \ {"pedometer"}
  PROVE  \E A : Makes(disable_detection(d), A) /\ \A a \in A : OfGroup(a, d)
  <1>0. Route[d][1] \in Vital(d) /\ Route[d][2] \in Vital(d)
    BY RouteSwitches DEF Pins, Vital
  <1>7. \A f \in Vital(d) : OfGroup(W(f, FALSE), d)
    BY GroupsApart DEF OfGroup
  <1>1. CASE d = "free_fall"
    <2> DEFINE A == {W(Route["free_fall"][1], FALSE), W(Route["free_fall"][2], FALSE)}
                 \cup {W("BASIC_INT", FALSE)}
    <2>1. Makes(disable_free_fall_detection, A)
      BY MakesDisableFreeFall
    <2>2. \A a \in A : OfGroup(a, d)
      <3>1. \A f \in {"BASIC_INT"} : f \in Vital(d)
        BY <1>1 DEF Vital, Own, Switch, FunctionGroup
      <3> QED BY <1>0, <1>1, <1>7, <3>1
    <2> HIDE DEF A
    <2> QED BY <1>1, <2>1, <2>2 DEF disable_detection
  <1>2. CASE d = "wake_up"
    <2> DEFINE A == {W(Route["wake_up"][1], FALSE), W(Route["wake_up"][2], FALSE)}
                 \cup {W("BASIC_INT", FALSE)}
    <2>1. Makes(disable_wake_up_detection, A)
      BY MakesDisableWakeUp
    <2>2. \A a \in A : OfGroup(a, d)
      <3>1. \A f \in {"BASIC_INT"} : f \in Vital(d)
        BY <1>2 DEF Vital, Own, Switch, FunctionGroup
      <3> QED BY <1>0, <1>2, <1>7, <3>1
    <2> HIDE DEF A
    <2> QED BY <1>2, <2>1, <2>2 DEF disable_detection
  <1>3. CASE d = "tilt"
    <2> DEFINE A == {W(Route["tilt"][1], FALSE), W(Route["tilt"][2], FALSE)}
                 \cup {W("TILT", FALSE), W("FUNC_EN", FALSE)}
    <2>1. Makes(disable_tilt_detection, A)
      BY MakesDisableTilt
    <2>2. \A a \in A : OfGroup(a, d)
      <3>1. \A f \in {"FUNC_EN", "TILT"} : f \in Vital(d)
        BY <1>3 DEF Vital, Own, Switch, FunctionGroup
      <3> QED BY <1>0, <1>3, <1>7, <3>1
    <2> HIDE DEF A
    <2> QED BY <1>3, <2>1, <2>2 DEF disable_detection
  <1>4. CASE d = "single_tap"
    <2> DEFINE A == {W(Route["single_tap"][1], FALSE), W(Route["single_tap"][2], FALSE)}
                 \cup {W("BASIC_INT", FALSE)}
                 \cup {W("TAP_Z_EN", FALSE), W("TAP_Y_EN", FALSE), W("TAP_X_EN", FALSE)}
    <2>1. Makes(disable_single_tap_detection, A)
      BY MakesDisableSingleTap
    <2>2. \A a \in A : OfGroup(a, d)
      <3>1. \A f \in {"BASIC_INT", "TAP_X_EN", "TAP_Y_EN", "TAP_Z_EN"} : f \in Vital(d)
        BY <1>4 DEF Vital, Own, Switch, FunctionGroup
      <3> QED BY <1>0, <1>4, <1>7, <3>1
    <2> HIDE DEF A
    <2> QED BY <1>4, <2>1, <2>2 DEF disable_detection
  <1>5. CASE d = "double_tap"
    <2> DEFINE A == {W(Route["double_tap"][1], FALSE), W(Route["double_tap"][2], FALSE)}
                 \cup {W("BASIC_INT", FALSE), W("SINGLE_DOUBLE_TAP_EV", FALSE)}
                 \cup {W("TAP_Z_EN", FALSE), W("TAP_Y_EN", FALSE), W("TAP_X_EN", FALSE)}
    <2>1. Makes(disable_double_tap_detection, A)
      BY MakesDisableDoubleTap
    <2>2. \A a \in A : OfGroup(a, d)
      <3>1. \A f \in {"BASIC_INT", "TAP_X_EN", "TAP_Y_EN", "TAP_Z_EN"} : f \in Vital(d)
        BY <1>5 DEF Vital, Own, Switch, FunctionGroup
      <3>2. OfGroup(W("SINGLE_DOUBLE_TAP_EV", FALSE), d)
        BY <1>5, SwitchSettings DEF OfGroup, FunctionFields, FunctionGroup
      <3> QED BY <1>0, <1>5, <1>7, <3>1, <3>2
    <2> HIDE DEF A
    <2> QED BY <1>5, <2>1, <2>2 DEF disable_detection
  <1>6. CASE d = "orientation"
    <2> DEFINE A == {W(Route["orientation"][1], FALSE), W(Route["orientation"][2], FALSE)}
                 \cup {W("BASIC_INT", FALSE)}
    <2>1. Makes(disable_6d_orientation, A)
      BY MakesDisableOrientation
    <2>2. \A a \in A : OfGroup(a, d)
      <3>1. \A f \in {"BASIC_INT"} : f \in Vital(d)
        BY <1>6 DEF Vital, Own, Switch, FunctionGroup
      <3> QED BY <1>0, <1>6, <1>7, <3>1
    <2> HIDE DEF A
    <2> QED BY <1>6, <2>1, <2>2 DEF disable_detection
  <1> QED BY <1>1, <1>2, <1>3, <1>4, <1>5, <1>6, RoutesAre

\* Disabling any detection writes switches of its group alone.
LEMMA DisablingClears ==
  ASSUME NEW d \in Detections
  PROVE  /\ disable_detection(d) \in Seq(Accesses)
         /\ \A a \in Elements(disable_detection(d)) :
               /\ Plain(a)
               /\ SwitchAccess(a) => (a.field \in FunctionFields <=> d \in FunctionGroup)
  <1> DEFINE Good(a) ==
               /\ Plain(a)
               /\ SwitchAccess(a) => (a.field \in FunctionFields <=> d \in FunctionGroup)
  <1>1. \A a \in Quiet : Good(a)
    BY DEF Quiet
  <1>2. \A a : OfGroup(a, d) => Good(a)
    <2> SUFFICES ASSUME NEW f \in Switches, f \in FunctionFields <=> d \in FunctionGroup
                 PROVE  Good(W(f, FALSE))
      BY DEF OfGroup
    <2>1. Plain(W(f, FALSE))
      BY AccessKinds
    <2>2. W(f, FALSE).field = f
      BY DEF W
    <2> QED BY <2>1, <2>2
  <1>3. CASE d # "pedometer"
    <2>1. PICK A : Makes(disable_detection(d), A) /\ \A a \in A : OfGroup(a, d)
      BY <1>3, DisablingMakes
    <2> QED BY <1>1, <1>2, <2>1 DEF Makes
  <1>4. CASE d = "pedometer"
    <2> DEFINE Switched == {W("STEP_DET_on_INT1", FALSE), W("PEDO", FALSE), W("FUNC_EN", FALSE)}
               Pages == {Page("embedded"), PedoThs(0), Page("main")}
    <2>1. Makes(disable_detection(d), Switched \cup Pages)
      BY <1>4, MakesDisablePedometer DEF disable_detection
    <2>2. \A a \in Switched : Good(a)
      <3>1. \A f \in {"STEP_DET_on_INT1", "PEDO", "FUNC_EN"} : OfGroup(W(f, FALSE), d)
        BY <1>4, SwitchSettings DEF OfGroup, FunctionFields, FunctionGroup
      <3> QED BY <1>2, <3>1
    <2>3. \A a \in Pages : Good(a)
      BY AccessKinds
    <2> HIDE DEF Switched, Pages, Good
    <2>4. /\ disable_detection(d) \in Seq(Accesses)
          /\ \A a \in Elements(disable_detection(d)) : Good(a)
      BY <1>1, <2>1, <2>2, <2>3 DEF Makes
    <2> QED BY <2>4 DEF Good
  <1> QED BY <1>3, <1>4

\* No detection needs these switches.
LEMMA NotVital ==
  ASSUME NEW d \in Detections
  PROVE  \A f \in {"FS_125", "PedoStepReset", "IF_Addr_Incr", "BDU", "DRDY_TEMP_on_INT2"} :
            f \notin Vital(d)
  <1> SUFFICES ASSUME NEW f \in Vital(d)
               PROVE  f \notin {"FS_125", "PedoStepReset", "IF_Addr_Incr", "BDU",
                                "DRDY_TEMP_on_INT2"}
    OBVIOUS
  <1>1. CASE f \in Own(d) \cup {Switch(d)}
    BY <1>1 DEF Own, Switch
  <1>2. CASE \E i \in DOMAIN Route[d] : f = Route[d][i]
    <2>1. CASE d = "pedometer"
      BY <1>2, <2>1, RoutesAre, RouteSwitches
    <2>2. CASE d # "pedometer"
      BY <1>2, <2>2, RoutesAre, RouteSwitches DEF Pins
    <2> QED BY <2>1, <2>2
  <1> QED BY <1>1, <1>2 DEF Vital

\* The access silences no detection.
Harmless(a) == \A d \in Detections : SwitchAccess(a) /\ a.field \in Vital(d) => a.to = TRUE

\* Accesses that silence no detection.
LEMMA HarmlessSettings ==
  /\ \A a \in Quiet : Plain(a) /\ Harmless(a)
  /\ \A f \in {"FS_125", "PedoStepReset", "IF_Addr_Incr", "BDU", "DRDY_TEMP_on_INT2"} :
        \A on \in BOOLEAN : Plain(W(f, on)) /\ Harmless(W(f, on))
  /\ \A to \in {"main", "embedded"} : Plain(Page(to)) /\ Harmless(Page(to))
  /\ \A thr \in Nat : Plain(PedoThs(thr)) /\ Harmless(PedoThs(thr))
  /\ \A a : Sets(a) => Harmless(a)
  <1>1. \A a \in Quiet : Plain(a) /\ Harmless(a)
    BY DEF Quiet, Harmless
  <1>2. ASSUME NEW f \in {"FS_125", "PedoStepReset", "IF_Addr_Incr", "BDU", "DRDY_TEMP_on_INT2"},
               NEW on \in BOOLEAN
        PROVE  Plain(W(f, on)) /\ Harmless(W(f, on))
    <2>1. W(f, on).field = f
      BY DEF W
    <2>2. Plain(W(f, on))
      BY SwitchSettings, AccessKinds
    <2> QED BY <2>1, <2>2, NotVital DEF Harmless
  <1>3. \A to \in {"main", "embedded"} : Plain(Page(to)) /\ Harmless(Page(to))
    BY AccessKinds DEF Harmless
  <1>4. \A thr \in Nat : Plain(PedoThs(thr)) /\ Harmless(PedoThs(thr))
    BY AccessKinds DEF Harmless
  <1>5. \A a : Sets(a) => Harmless(a)
    BY DEF Sets, Harmless
  <1> QED BY <1>1, <1>2, <1>3, <1>4, <1>5

\* The functions but for those that switch a sensor on or off, and the
\* detections.
LEMMA OtherMakes ==
  ASSUME NEW c \in Calls,
         c[1] \in {"reset_step_counter", "enable_temp", "set_odr", "set_threshold", "set_x_fs",
                   "set_g_fs"}
  PROVE  /\ Function(c) \in Seq(Accesses)
         /\ \A a \in Elements(Function(c)) : Plain(a) /\ Harmless(a)
  <1> DEFINE Good(F) == F \in Seq(Accesses) /\ \A a \in Elements(F) : Plain(a) /\ Harmless(a)
  <1>0. ASSUME NEW F \in Seq(Quiet)
        PROVE  Good(F)
    BY HarmlessSettings, ElementsTyped DEF Quiet
  <1>1. CASE c[1] = "reset_step_counter"
    <2>1. Makes(reset_step_counter, {W("PedoStepReset", TRUE), W("PedoStepReset", FALSE)})
      BY SwitchSettings, MakesOf DEF reset_step_counter
    <2>2. Good(reset_step_counter)
      BY <2>1, HarmlessSettings DEF Makes
    <2> QED BY <1>1, <2>2 DEF Function
  <1>2. CASE c[1] = "enable_temp"
    <2>1. W("DRDY_TEMP_on_INT2", TRUE) \in Accesses
      BY SwitchSettings
    <2>2. enable_temp \in Seq(Accesses) /\ Elements(enable_temp) = {W("DRDY_TEMP_on_INT2", TRUE)}
      BY <2>1, ElementsOf, TypedOf DEF enable_temp
    <2>3. Good(enable_temp)
      BY <2>2, HarmlessSettings
    <2> QED BY <1>2, <2>3 DEF Function
  <1>3. CASE c[1] = "set_odr"
    <2>1. SetOdr(c[2], c[3]) \in Quiet
      BY <1>3, CallShape, AccessKinds
    <2>2. Good(<<SetOdr(c[2], c[3])>>)
      BY <1>0, <2>1, TypedOf
    <2> QED BY <1>3, <2>2 DEF Function
  <1>4. CASE c[1] = "set_threshold"
    <2>0. c[3] \in Nat /\ c[2] \in DOMAIN Threshold \cup {"pedometer"}
      BY <1>4, CallShape
    <2>1. CASE c[2] = "pedometer"
      <3>1. Makes(set_pedometer_threshold(c[3]), {Page("embedded"), PedoThs(c[3]), Page("main")})
        BY <2>0, MakesPages
      <3>2. Good(set_pedometer_threshold(c[3]))
        BY <2>0, <3>1, HarmlessSettings DEF Makes
      <3> QED BY <1>4, <2>1, <3>2 DEF Function, set_threshold
    <2>2. CASE c[2] # "pedometer"
      <3>1. Threshold[c[2]] \in {"FF_THS", "WK_THS", "TAP_THS", "SHOCK_Duration",
                                 "QUIET_Duration", "DUR"}
        BY <2>0, <2>2 DEF Threshold
      <3>2. W(Threshold[c[2]], c[3]) \in Quiet
        BY <2>0, <3>1, QuietSettings
      <3>3. Good(<<W(Threshold[c[2]], c[3])>>)
        BY <1>0, <3>2, TypedOf
      <3> QED BY <1>4, <2>2, <3>3 DEF Function, set_threshold
    <2> QED BY <2>1, <2>2
  <1>5. CASE c[1] = "set_x_fs"
    <2>1. Good(set_x_fs(c[2]))
      BY <1>0, <1>5, CallShape, FullScaleX
    <2> QED BY <1>5, <2>1 DEF Function
  <1>6. CASE c[1] = "set_g_fs"
    <2>1. PICK on \in BOOLEAN : Makes(set_g_fs(c[2]), {W("FS_125", on)})
      BY <1>6, CallShape, FullScaleG
    <2>2. Good(set_g_fs(c[2]))
      BY <2>1, HarmlessSettings DEF Makes
    <2> QED BY <1>6, <2>2 DEF Function
  <1> QED BY <1>1, <1>2, <1>3, <1>4, <1>5, <1>6

\* What enable and disable of a sensor make.
LEMMA SwitchingMakes ==
  ASSUME NEW s \in Sensors, _last_odr \in [Sensors -> Int]
  PROVE  /\ enable(s) \in Seq(Accesses) /\ disable(s) \in Seq(Accesses)
         /\ enable(s) \in {<<>>, <<W(ODR[s], Rounded(_last_odr[s]))>>}
         /\ disable(s) \in {<<>>, <<GetOdr(s), W(ODR[s], 0)>>}
  <1>1. ODR[s] \in RateFields
    BY DEF RateFields
  <1>2. Rounded(_last_odr[s]) \in Rates
    BY RoundedIsRate
  <1>3. /\ W(ODR[s], Rounded(_last_odr[s])) \in Accesses /\ W(ODR[s], 0) \in Accesses
        /\ GetOdr(s) \in Accesses
    BY <1>1, <1>2, AccessTypes
  <1>4. /\ <<>> \in Seq(Accesses) /\ <<W(ODR[s], Rounded(_last_odr[s]))>> \in Seq(Accesses)
        /\ <<GetOdr(s), W(ODR[s], 0)>> \in Seq(Accesses)
    BY <1>3, EmptySeq, TypedOf
  <1> QED BY <1>4 DEF enable, disable

\* Every function makes accesses; only init and switching a sensor on or off
\* write a rate's field or read it.
LEMMA FunctionMakes ==
  ASSUME NEW c \in Calls, _last_odr \in [Sensors -> Int]
  PROVE  /\ Function(c) \in Seq(Accesses)
         /\ c[1] \notin {"init", "enable", "disable"} =>
               \A a \in Elements(Function(c)) : Plain(a)
  <1>1. CASE c[1] = "init"
    BY <1>1, MakesInit DEF Function, Makes
  <1>2. CASE c[1] \in {"enable", "disable"}
    BY <1>2, CallShape, SwitchingMakes DEF Function
  <1>3. CASE c[1] = "enable_detection"
    <2>1. c[2] \in Detections /\ c[3] \in Pins
      BY <1>3, CallShape
    <2> QED BY <1>3, <2>1, EnablingSets DEF Function
  <1>4. CASE c[1] = "disable_detection"
    <2>1. c[2] \in Detections
      BY <1>4, CallShape
    <2> QED BY <1>4, <2>1, DisablingClears DEF Function
  <1>5. CASE c[1] \in {"reset_step_counter", "enable_temp", "set_odr", "set_threshold", "set_x_fs",
                       "set_g_fs"}
    BY <1>5, OtherMakes
  <1> QED BY <1>1, <1>2, <1>3, <1>4, <1>5, CallShape

------------------------------------------------------------------------------
(* Types.                                                                   *)

RegsOK ==
  /\ DOMAIN regs = Switches \cup Numbers
  /\ \A f \in Switches : regs[f] \in BOOLEAN
  /\ \A f \in Numbers : regs[f] \in Nat
  /\ \A s \in Sensors : regs[ODR[s]] \in Rates \cup {0}

\* A step makes the first access there is and keeps the others.
LEMMA StepShape ==
  ASSUME SensorTypeOK, Running
  PROVE  /\ step \in Accesses /\ Tail(todo) \in Seq(Accesses)
         /\ Elements(todo) = {step} \cup Elements(Tail(todo))
  BY ElementsTail DEF SensorTypeOK, Running, step

\* What is written fits the field.
LEMMA WrittenShape ==
  ASSUME SensorTypeOK, Running, IsWrite
  PROVE  \/ Written \in Switches /\ step.to \in BOOLEAN
         \/ Written \in Numbers \ RateFields /\ step.to \in Nat
         \/ Written \in RateFields /\ step.to \in Rates \cup {0}
  <1>0. step \in Accesses
    BY StepShape
  <1>1. CASE step.do = "W"
    <2>1. Written = step.field
      BY <1>1 DEF Written
    <2> QED BY <1>0, <1>1, <2>1 DEF Accesses
  <1>2. CASE step.do # "W"
    <2>1. PICK s \in Sensors : step.do = "set_odr" /\ step.sensor = s
      BY <1>2 DEF IsWrite, Writes
    <2>2. step.sensor \in Sensors /\ step.to \in Rates
      BY <1>0, <2>1 DEF Accesses
    <2> QED BY <1>2, <2>2 DEF Written, RateFields
  <1> QED BY <1>1, <1>2

\* A byte that arrives changes one field, and it keeps its type.
LEMMA ArrivesTypes ==
  ASSUME SensorTypeOK, Running, IsWrite, Arrives
  PROVE  /\ RegsOK'
         /\ \A f \in Switches \cup Numbers : f # Written => regs'[f] = regs[f]
         /\ regs'[Written] = IF page = "main" THEN step.to ELSE regs[Written]
  <1>1. /\ DOMAIN regs = Switches \cup Numbers
        /\ \A f \in Switches : regs[f] \in BOOLEAN
        /\ \A f \in Numbers : regs[f] \in Nat
        /\ \A s \in Sensors : regs[ODR[s]] \in Rates \cup {0}
    BY DEF SensorTypeOK
  <1>2. Written \in Switches \cup Numbers
    BY WrittenShape, FieldsApart
  <1>3. CASE page # "main"
    BY <1>1, <1>3 DEF Arrives, RegsOK
  <1>4. CASE page = "main"
    <2> DEFINE w == Written
               v == step.to
    <2>1. regs' = [regs EXCEPT ![w] = v]
      BY <1>4 DEF Arrives
    <2>2. \/ w \in Switches /\ v \in BOOLEAN
          \/ w \in Numbers \ RateFields /\ v \in Nat
          \/ w \in RateFields /\ v \in Rates \cup {0}
      BY WrittenShape
    <2>3. w \in DOMAIN regs
      BY <1>1, <1>2
    <2> HIDE DEF w, v
    <2>4. DOMAIN regs' = DOMAIN regs /\ regs'[w] = v /\ \A f \in DOMAIN regs : f # w => regs'[f] = regs[f]
      BY <2>1, <2>3
    <2>5. \A f \in Switches : regs'[f] \in BOOLEAN
      BY <1>1, <2>2, <2>4, FieldsApart
    <2>6. \A f \in Numbers : regs'[f] \in Nat
      BY <1>1, <2>2, <2>4, FieldsApart DEF Rates
    <2>7. \A s \in Sensors : regs'[ODR[s]] \in Rates \cup {0}
      <3> TAKE s \in Sensors
      <3>1. ODR[s] \in RateFields /\ ODR[s] \in DOMAIN regs
        BY <1>1, FieldsApart DEF RateFields
      <3> QED BY <1>1, <2>2, <2>4, <3>1, FieldsApart
    <2> QED BY <1>1, <1>4, <2>4, <2>5, <2>6, <2>7 DEF RegsOK, w, v
  <1> QED BY <1>3, <1>4

\* Rates are numbers, and get_odr makes numbers.
LEMMA NumbersOfRates == Rates \subseteq Nat \ {0} /\ StrayRates \subseteq Int /\ 104 \in Rates
  BY DEF Rates, StrayRates

\* The types of the sensor hold at the start.
LEMMA SensorTypesInit ==
  ASSUME SensorInit
  PROVE  SensorTypeOK
  <1>1. DOMAIN Defaults = Switches \cup Numbers
    BY DEF Defaults
  <1>2. \A f \in Switches : Defaults[f] = FALSE
    BY DEF Defaults
  <1>3. \A f \in Numbers : Defaults[f] = 0
    BY FieldsApart DEF Defaults
  <1>4. \A s \in Sensors : ODR[s] \in Numbers
    BY FieldsApart DEF RateFields
  <1>5. /\ DOMAIN regs = Switches \cup Numbers
        /\ \A f \in Switches : regs[f] \in BOOLEAN
        /\ \A f \in Numbers : regs[f] \in Nat
        /\ \A s \in Sensors : regs[ODR[s]] \in Rates \cup {0}
    <2>1. regs = Defaults
      BY DEF SensorInit
    <2>2. \A s \in Sensors : regs[ODR[s]] = 0
      BY <1>3, <1>4, <2>1
    <2>3. \A f \in Switches : regs[f] \in BOOLEAN
      BY <1>2, <2>1
    <2>4. \A f \in Numbers : regs[f] \in Nat
      BY <1>3, <2>1
    <2> QED BY <1>1, <2>1, <2>2, <2>3, <2>4
  <1>6. /\ _is_enabled \in [Sensors -> 0 .. 2]
        /\ _last_odr \in [Sensors -> Rates \cup StrayRates]
    BY DEF SensorInit, Uninitialised
  <1>7. todo \in Seq(Accesses) /\ asked \in [Sensors -> Rates] /\ sure \subseteq Sensors
    BY EmptySeq, NumbersOfRates DEF SensorInit
  <1>8. faults \in 0 .. MaxFaults
    BY MaxFaultsAssumption DEF SensorInit
  <1> QED BY <1>5, <1>6, <1>7, <1>8 DEF SensorInit, SensorTypeOK

\* What is stored for a rate is a number.
LEMMA LastOdrIsNumber ==
  ASSUME SensorTypeOK
  PROVE  _last_odr \in [Sensors -> Int]
  <1>1. Rates \cup StrayRates \subseteq Int
    BY NumbersOfRates
  <1>2. _last_odr \in [Sensors -> Rates \cup StrayRates]
    BY DEF SensorTypeOK
  <1> QED BY <1>1, <1>2

\* A call keeps the types.
LEMMA CallTypes ==
  ASSUME SensorTypeOK, NEW c \in Calls, Call(c)
  PROVE  SensorTypeOK'
  <1>1. _last_odr \in [Sensors -> Int]
    BY LastOdrIsNumber
  <1>2. todo' \in Seq(Accesses) /\ c # <<>>
    BY <1>1, FunctionMakes, CallShape DEF Call
  <1>3. failed = FALSE /\ astray' \in BOOLEAN
    BY DEF Call, SensorTypeOK
  <1> QED BY <1>2, <1>3 DEF Call, SensorTypeOK, device

\* An access does,
LEMMA StepTypes ==
  ASSUME SensorTypeOK, Step
  PROVE  SensorTypeOK'
  <1>0. /\ Running /\ call \in Calls /\ call' = call /\ call # <<>>
    BY CallShape DEF Step, Write, WriteFails, SetLastOdr, ReadOdr, ReadOdrFails, PageStep,
       SensorTypeOK, Running
  <1>1. step \in Accesses /\ Tail(todo) \in Seq(Accesses) /\ <<>> \in Seq(Accesses)
    BY <1>0, StepShape, EmptySeq
  <1>2. CASE Write
    <2>1. RegsOK'
      BY <1>2, ArrivesTypes DEF Write
    <2>2. asked' \in [Sensors -> Rates]
      BY <1>1, <1>2 DEF Write, Asks, Accesses, SensorTypeOK
    <2> QED BY <1>0, <1>1, <1>2, <2>1, <2>2 DEF Write, Next1, SensorTypeOK, RegsOK
  <1>3. CASE WriteFails
    <2>1. RegsOK'
      <3>1. CASE UNCHANGED <<regs, sure>>
        BY <3>1 DEF SensorTypeOK, RegsOK
      <3>2. CASE Arrives
        BY <1>3, <3>2, ArrivesTypes DEF WriteFails
      <3> QED BY <1>3, <3>1, <3>2 DEF WriteFails
    <2>2. faults' \in 0 .. MaxFaults
      BY <1>3, MaxFaultsAssumption DEF WriteFails, SensorTypeOK
    <2>3. sure' \subseteq Sensors
      BY <1>3 DEF WriteFails, SensorTypeOK
    <2> QED BY <1>0, <1>1, <1>3, <2>1, <2>2, <2>3 DEF WriteFails, SensorTypeOK, RegsOK
  <1>4. CASE SetLastOdr
    <2>1. step.sensor \in Sensors /\ step.to \in Rates
      BY <1>1, <1>4 DEF SetLastOdr, Accesses
    <2>2. asked' \in [Sensors -> Rates] /\ _last_odr' \in [Sensors -> Rates \cup StrayRates]
      BY <1>4, <2>1 DEF SetLastOdr, Asks, SensorTypeOK
    <2> QED BY <1>0, <1>1, <1>4, <2>2 DEF SetLastOdr, Next1, SensorTypeOK, device
  <1>5. CASE ReadOdr
    <2>1. step.sensor \in Sensors
      BY <1>1, <1>5 DEF ReadOdr, Accesses
    <2>2. PICK rate \in IF page = "main" THEN {regs[ODR[step.sensor]]} ELSE StrayRates :
             /\ _last_odr' = [_last_odr EXCEPT ![step.sensor] = rate]
             /\ failed' = (rate = -1)
             /\ todo' = IF rate = -1 THEN <<>> ELSE Tail(todo)
             /\ sure' = IF page = "main" THEN sure ELSE sure \ {step.sensor}
      BY <1>5 DEF ReadOdr
    <2>3. rate \in Rates \cup StrayRates
      BY <2>1, <2>2 DEF SensorTypeOK, StrayRates
    <2>4. _last_odr' \in [Sensors -> Rates \cup StrayRates]
      BY <2>2, <2>3 DEF SensorTypeOK
    <2>5. failed' \in BOOLEAN /\ todo' \in Seq(Accesses) /\ sure' \subseteq Sensors
      BY <1>1, <2>2 DEF SensorTypeOK
    <2> QED BY <1>0, <1>5, <2>4, <2>5 DEF ReadOdr, SensorTypeOK, device
  <1>6. CASE ReadOdrFails
    <2>1. faults' \in 0 .. MaxFaults
      BY <1>6, MaxFaultsAssumption DEF ReadOdrFails, SensorTypeOK
    <2> QED BY <1>0, <1>1, <1>6, <2>1 DEF ReadOdrFails, SensorTypeOK, device
  <1>7. CASE PageStep
    <2>1. RegsOK'
      <3>1. CASE regs' = regs
        BY <3>1 DEF SensorTypeOK, RegsOK
      <3>2. CASE step.do = "embedded" /\ regs' = [regs EXCEPT !.PEDO_THS = step.thr]
        <4>1. step.thr \in Nat
          BY <1>1, <3>2 DEF Accesses
        <4>2. "PEDO_THS" \in Numbers /\ "PEDO_THS" \notin Switches /\ "PEDO_THS" \notin RateFields
          BY NumbersAre, SwitchesAre, RateFieldsAre
        <4>3. /\ DOMAIN regs' = DOMAIN regs /\ regs'["PEDO_THS"] = step.thr
              /\ \A f \in DOMAIN regs : f # "PEDO_THS" => regs'[f] = regs[f]
          BY <3>2, <4>2 DEF SensorTypeOK
        <4>4. \A s \in Sensors : regs'[ODR[s]] = regs[ODR[s]]
          BY <4>2, <4>3, FieldsApart DEF RateFields, SensorTypeOK
        <4> QED BY <4>1, <4>2, <4>3, <4>4 DEF SensorTypeOK, RegsOK
      <3> QED BY <1>7, <3>1, <3>2 DEF PageStep, device
    <2>2. page' \in {"main", "embedded"}
      BY <1>1, <1>7 DEF PageStep, Accesses, SensorTypeOK, device
    <2>3. faults' \in 0 .. MaxFaults
      BY <1>7, MaxFaultsAssumption DEF PageStep, SensorTypeOK
    <2> QED BY <1>0, <1>1, <1>7, <2>1, <2>2, <2>3 DEF PageStep, Next1, SensorTypeOK, RegsOK
  <1> QED BY <1>2, <1>3, <1>4, <1>5, <1>6, <1>7 DEF Step

\* the end of a call,
LEMMA ReturnTypes ==
  ASSUME SensorTypeOK, Return
  PROVE  SensorTypeOK'
  <1>0. call \in Calls
    BY DEF Return, SensorTypeOK
  <1>1. _is_enabled' \in [Sensors -> 0 .. 2]
    BY <1>0, CallShape DEF Return, SensorTypeOK
  <1>2. /\ _last_odr' \in [Sensors -> Rates \cup StrayRates]
        /\ asked' \in [Sensors -> Rates] /\ sure' \subseteq Sensors
    BY NumbersOfRates DEF Return, SensorTypeOK
  <1>3. todo' = <<>> /\ call' = <<>>
    BY DEF Return, Running
  <1> QED BY <1>1, <1>2, <1>3 DEF Return, SensorTypeOK, device

\* a new object,
LEMMA NewObjectTypes ==
  ASSUME SensorTypeOK, NewObject, faults' \in 0 .. MaxFaults
  PROVE  SensorTypeOK'
  <1>1. /\ _is_enabled' \in [Sensors -> 0 .. 2]
        /\ _last_odr' \in [Sensors -> Rates \cup StrayRates]
    BY DEF NewObject, Uninitialised
  <1> QED BY <1>1, EmptySeq DEF NewObject, SensorTypeOK, device

\* and a reset.
LEMMA ResetTypes ==
  ASSUME SensorTypeOK, Reset
  PROVE  SensorTypeOK'
  <1>1. faults' \in 0 .. MaxFaults
    BY MaxFaultsAssumption DEF Reset, SensorTypeOK
  <1> QED BY <1>1, NewObjectTypes DEF Reset

\* The types are an inductive invariant of SensorUse.
LEMMA UseTypes ==
  ASSUME TypeOK, [Next]_vars
  PROVE  TypeOK'
  <1>1. ASSUME NEW c \in focus, Call(c), UNCHANGED focus
        PROVE  TypeOK'
    BY <1>1, CallTypes, FocusesAssumption DEF TypeOK
  <1>2. CASE (Step \/ Return \/ Reset) /\ UNCHANGED focus
    BY <1>2, StepTypes, ReturnTypes, ResetTypes DEF TypeOK
  <1>3. CASE UNCHANGED vars
    BY <1>3 DEF TypeOK, SensorTypeOK, vars, sensorVars, device, object
  <1> QED BY <1>1, <1>2, <1>3 DEF Next

\* Whatever is called in whatever order, the registers and the object keep
\* their types: the rates are rates, what is still to do are accesses.
THEOREM UseTypeCorrect == Spec => []TypeOK
  <1>1. Init => TypeOK
    BY SensorTypesInit DEF Init, TypeOK
  <1> QED BY <1>1, UseTypes, PTL DEF Spec

------------------------------------------------------------------------------
(* Rates.                                                                   *)

Calling(f) == call # <<>> /\ call[1] = f

\* What each function has still to do about the rates.
TodoShape ==
  /\ Calling("enable") =>
        \/ todo = <<>>
        \/ /\ todo = <<W(ODR[call[2]], Rounded(_last_odr[call[2]]))>>
           /\ _is_enabled[call[2]] # 1
  /\ Calling("disable") =>
        \/ todo = <<>>
        \/ /\ todo \in {<<GetOdr(call[2]), W(ODR[call[2]], 0)>>, <<W(ODR[call[2]], 0)>>}
           /\ _is_enabled[call[2]] # 0
  /\ Calling("init") =>
        \A a \in Elements(todo) : a.do = "W" /\ (a.field \in RateFields => a.to = 0)
  /\ ~Calling("enable") /\ ~Calling("disable") /\ ~Calling("init") =>
        \A a \in Elements(todo) : Plain(a)

\* init has set a rate to 0, or has still to do it.
InitSets ==
  Calling("init") /\ ~failed /\ page = "main" =>
    \A s \in Sensors : regs[ODR[s]] = 0 \/ W(ODR[s], 0) \in Elements(todo)

Done(f, s) == call = <<f, s>> /\ todo = <<>> /\ ~failed

Stored(s) == call = <<"disable", s>> /\ ~failed /\ todo # <<GetOdr(s), W(ODR[s], 0)>>

\* The rate asked for is in the register while the sensor is on, in the object
\* while it is off, and on its way while the sensor is switched.
Kept(s) ==
  /\ _is_enabled[s] \in {0, 1}
  /\ _is_enabled[s] = 1 => regs[ODR[s]] = IF Done("disable", s) THEN 0 ELSE asked[s]
  /\ _is_enabled[s] = 0 => regs[ODR[s]] = IF Done("enable", s) THEN asked[s] ELSE 0
  /\ _is_enabled[s] = 0 \/ Stored(s) => _last_odr[s] = asked[s]

\* The first error ends a function.
EndsAtError == failed => todo = <<>>

RateInv == TodoShape /\ InitSets /\ EndsAtError /\ \A s \in sure : Kept(s)


\* Short sequences and their tails.
LEMMA Shortened ==
  /\ \A a : Head(<<a>>) = a /\ Tail(<<a>>) = <<>>
  /\ \A a, b : Head(<<a, b>>) = a /\ Tail(<<a, b>>) = <<b>> /\ <<a, b>> # <<b>>
  OBVIOUS

\* A call of a sensor, and the others.
LEMMA CallIs ==
  ASSUME SensorTypeOK
  PROVE  /\ call # <<>> => call \in Calls
         /\ Calling("enable") => call[2] \in Sensors /\ call = <<"enable", call[2]>>
         /\ Calling("disable") => call[2] \in Sensors /\ call = <<"disable", call[2]>>
         /\ Calling("init") => call = <<"init">>
         /\ \A s : call = <<"enable", s>> => Calling("enable") /\ call[2] = s
         /\ \A s : call = <<"disable", s>> => Calling("disable") /\ call[2] = s
  <1>1. call # <<>> => call \in Calls
    BY DEF SensorTypeOK
  <1>2. /\ Calling("enable") => call[2] \in Sensors /\ call = <<"enable", call[2]>>
        /\ Calling("disable") => call[2] \in Sensors /\ call = <<"disable", call[2]>>
        /\ Calling("init") => call = <<"init">>
    BY <1>1, CallShape DEF Calling
  <1>3. /\ \A s : call = <<"enable", s>> => Calling("enable") /\ call[2] = s
        /\ \A s : call = <<"disable", s>> => Calling("disable") /\ call[2] = s
    BY DEF Calling
  <1> QED BY <1>1, <1>2, <1>3

\* The access that comes next, by the function.
LEMMA NextAccess ==
  ASSUME SensorTypeOK, TodoShape, Running
  PROVE  /\ Calling("enable") =>
               /\ step = W(ODR[call[2]], Rounded(_last_odr[call[2]])) /\ Tail(todo) = <<>>
               /\ _is_enabled[call[2]] # 1
         /\ Calling("disable") =>
               /\ \/ /\ todo = <<GetOdr(call[2]), W(ODR[call[2]], 0)>>
                     /\ step = GetOdr(call[2]) /\ Tail(todo) = <<W(ODR[call[2]], 0)>>
                  \/ /\ todo = <<W(ODR[call[2]], 0)>>
                     /\ step = W(ODR[call[2]], 0) /\ Tail(todo) = <<>>
               /\ _is_enabled[call[2]] # 0
         /\ Calling("init") => step.do = "W" /\ (step.field \in RateFields => step.to = 0)
         /\ ~Calling("enable") /\ ~Calling("disable") /\ ~Calling("init") => Plain(step)
         /\ Elements(todo) = {step} \cup Elements(Tail(todo))
  <1>1. Elements(todo) = {step} \cup Elements(Tail(todo))
    BY StepShape
  <1>2. ASSUME Calling("enable")
        PROVE  /\ step = W(ODR[call[2]], Rounded(_last_odr[call[2]])) /\ Tail(todo) = <<>>
               /\ _is_enabled[call[2]] # 1
    <2>1. /\ todo = <<W(ODR[call[2]], Rounded(_last_odr[call[2]]))>>
          /\ _is_enabled[call[2]] # 1
      BY <1>2 DEF TodoShape, Running
    <2> QED BY <2>1, Shortened DEF step
  <1>3. ASSUME Calling("disable")
        PROVE  /\ \/ /\ todo = <<GetOdr(call[2]), W(ODR[call[2]], 0)>>
                     /\ step = GetOdr(call[2]) /\ Tail(todo) = <<W(ODR[call[2]], 0)>>
                  \/ /\ todo = <<W(ODR[call[2]], 0)>>
                     /\ step = W(ODR[call[2]], 0) /\ Tail(todo) = <<>>
               /\ _is_enabled[call[2]] # 0
    <2>1. /\ todo \in {<<GetOdr(call[2]), W(ODR[call[2]], 0)>>, <<W(ODR[call[2]], 0)>>}
          /\ _is_enabled[call[2]] # 0
      BY <1>3 DEF TodoShape, Running
    <2> QED BY <2>1, Shortened DEF step
  <1>4. /\ Calling("init") => step.do = "W" /\ (step.field \in RateFields => step.to = 0)
        /\ ~Calling("enable") /\ ~Calling("disable") /\ ~Calling("init") => Plain(step)
    BY <1>1 DEF TodoShape
  <1> QED BY <1>1, <1>2, <1>3, <1>4

\* A step keeps the shape: the call stays, and the accesses get fewer.
LEMMA ShapeKept ==
  ASSUME SensorTypeOK, TodoShape, Running, call' = call, _is_enabled' = _is_enabled,
         todo' \in {<<>>, Tail(todo)}
  PROVE  TodoShape'
  <1>1. Calling("enable") => todo' = <<>>
    BY NextAccess
  <1>2. Calling("disable") => todo' = <<>> \/ todo' = <<W(ODR[call[2]], 0)>>
    BY NextAccess
  <1>3. Elements(todo') \subseteq Elements(todo)
    BY NextAccess, ElementsEmpty
  <1>4. Elements(todo)' = Elements(todo')
    BY DEF Elements
  <1>5. /\ Calling("enable")' <=> Calling("enable")
        /\ Calling("disable")' <=> Calling("disable")
        /\ Calling("init")' <=> Calling("init")
    BY DEF Calling
  <1>6. Calling("disable") => _is_enabled[call[2]] # 0
    BY NextAccess
  <1> QED BY <1>1, <1>2, <1>3, <1>4, <1>5, <1>6 DEF TodoShape

\* init writes settings and no more, a rate only to set it to 0.
LEMMA InitMakes ==
  /\ \A a \in Elements(init) :
        /\ a.do = "W" /\ (a.field \in RateFields => a.to = 0) /\ Harmless(a)
        /\ a.field # "BASIC_INT"
  /\ \A s \in Sensors : W(ODR[s], 0) \in Elements(init)
  <1> DEFINE S == {a \in Accesses : a.do = "W"}
  <1>1. init \in Seq(S)
    <2> DEFINE dps == 2000
               zero == 0
    <2>1. \A f, v : W(f, v) \in Accesses => W(f, v) \in S
      BY DEF W
    <2>2. /\ \A f \in {"FIFO_MODE", "FS_XL", "FS_G"} : \A n \in Nat : W(f, n) \in Accesses
          /\ \A f \in {"IF_Addr_Incr", "BDU", "FS_125"} : \A on \in BOOLEAN : W(f, on) \in Accesses
          /\ W("ODR_XL", 0) \in Accesses /\ W("ODR_G", 0) \in Accesses
      BY QuietSettings, SwitchSettings DEF Quiet
    <2> HIDE DEF S
    <2>3. W("IF_Addr_Incr", TRUE) \in S /\ W("BDU", TRUE) \in S
      BY <2>1, <2>2
    <2>4. W("FIFO_MODE", 0) \in S /\ W("ODR_XL", 0) \in S /\ W("ODR_G", 0) \in S
      BY <2>1, <2>2
    <2>5. <<W("IF_Addr_Incr", TRUE), W("BDU", TRUE), W("FIFO_MODE", 0), W("ODR_XL", 0)>> \in Seq(S)
      BY <2>3, <2>4, TypedOf
    <2>6. set_x_fs(2) \in Seq(S)
      <3>1. W("FS_XL", 2) \in S
        BY <2>1, <2>2
      <3> QED BY <3>1, TypedOf DEF set_x_fs
    <2>7. <<W("ODR_G", 0)>> \in Seq(S)
      BY <2>4, TypedOf
    <2>8. \A n \in Nat : set_g_fs(n) \in Seq(S)
      <3> TAKE n \in Nat
      <3>1. W("FS_125", TRUE) \in S /\ W("FS_125", FALSE) \in S /\ W("FS_G", n) \in S
        BY <2>1, <2>2
      <3> QED BY <3>1, TypedOf DEF set_g_fs
    <2>9. dps \in Nat
      OBVIOUS
    <2> HIDE DEF dps
    <2>10. set_g_fs(dps) \in Seq(S)
      BY <2>8, <2>9
    <2>11. \A s, t \in Seq(S) : s \o t \in Seq(S)
      BY ConcatProperties
    <2> DEFINE a == <<W("IF_Addr_Incr", TRUE), W("BDU", TRUE), W("FIFO_MODE", 0), W("ODR_XL", 0)>>
               b == set_x_fs(2)
               c == <<W("ODR_G", 0)>>
               d == set_g_fs(dps)
    <2>12. a \in Seq(S) /\ b \in Seq(S) /\ c \in Seq(S) /\ d \in Seq(S)
      BY <2>5, <2>6, <2>7, <2>10
    <2>13. init = a \o b \o c \o d
      BY DEF init, dps
    <2> HIDE DEF a, b, c, d
    <2> QED BY <2>11, <2>12, <2>13
  <1>2. \A a \in Elements(init) : a.do = "W"
    BY <1>1, ElementsTyped
  <1> HIDE DEF S
  <1>3. PICK on \in BOOLEAN :
           Makes(init, {W("IF_Addr_Incr", TRUE), W("BDU", TRUE), W("ODR_XL", 0), W("ODR_G", 0),
                        W("FS_125", on)})
    BY MakesInit
  <1> DEFINE Switched == {W("IF_Addr_Incr", TRUE), W("BDU", TRUE), W("FS_125", on)}
             Rated == {W("ODR_XL", 0), W("ODR_G", 0)}
             Good(a) == /\ (a.do = "W" /\ a.field \in RateFields => a.to = 0) /\ Harmless(a)
                        /\ a.do = "W" => a.field # "BASIC_INT"
  <1>4. \A a \in Quiet : Good(a)
    BY HarmlessSettings, SwitchSettings DEF Plain, Quiet, SwitchAccess
  <1>5. \A a \in Switched : Good(a)
    <2>1. \A f \in {"IF_Addr_Incr", "BDU", "FS_125"} : \A v \in BOOLEAN : Good(W(f, v))
      BY HarmlessSettings DEF Plain, W
    <2> QED BY <2>1
  <1>6. \A a \in Rated : Good(a)
    <2>1. \A f \in {"ODR_XL", "ODR_G"} : Good(W(f, 0))
      BY FieldsApart, RateFieldsAre DEF W, Harmless, SwitchAccess
    <2> QED BY <2>1
  <1> HIDE DEF Good
  <1>7. \A a \in Elements(init) : Good(a)
    BY <1>3, <1>4, <1>5, <1>6 DEF Makes
  <1>8. \A s \in Sensors : W(ODR[s], 0) \in Elements(init)
    <2>1. W("ODR_XL", 0) \in Elements(init) /\ W("ODR_G", 0) \in Elements(init)
      BY <1>3 DEF Makes
    <2> QED BY <2>1 DEF ODR, Sensors
  <1> QED BY <1>2, <1>7, <1>8 DEF Good

\* A call starts with it.
LEMMA CallShaped ==
  ASSUME SensorTypeOK, NEW c \in Calls, Call(c)
  PROVE  TodoShape' /\ InitSets'
  <1>1. _last_odr \in [Sensors -> Int]
    BY LastOdrIsNumber
  <1>2. call' = c /\ todo' = Function(c) /\ _is_enabled' = _is_enabled /\ _last_odr' = _last_odr
    BY DEF Call
  <1>3. Elements(todo)' = Elements(Function(c))
    BY <1>2 DEF Elements
  <1>4. \A f : Calling(f)' <=> c[1] = f
    BY <1>2, CallShape DEF Calling
  <1>5. CASE c[1] = "init"
    <2>1. Function(c) = init
      BY <1>5 DEF Function
    <2> QED BY <1>3, <1>4, <1>5, <2>1, InitMakes DEF TodoShape, InitSets
  <1>6. CASE c[1] = "enable"
    <2>1. c[2] \in Sensors
      BY <1>6, CallShape
    <2>2. Function(c) = enable(c[2])
      BY <1>6 DEF Function
    <2> QED BY <1>2, <1>4, <1>6, <2>1, <2>2 DEF TodoShape, InitSets, enable
  <1>7. CASE c[1] = "disable"
    <2>1. c[2] \in Sensors
      BY <1>7, CallShape
    <2>2. Function(c) = disable(c[2])
      BY <1>7 DEF Function
    <2> QED BY <1>2, <1>4, <1>7, <2>1, <2>2 DEF TodoShape, InitSets, disable
  <1>8. CASE c[1] \notin {"init", "enable", "disable"}
    <2>1. \A a \in Elements(Function(c)) : Plain(a)
      BY <1>1, <1>8, FunctionMakes
    <2> QED BY <1>3, <1>4, <1>8, <2>1 DEF TodoShape, InitSets
  <1> QED BY <1>5, <1>6, <1>7, <1>8

\* Switching a sensor on or off writes that sensor's rate, or reads it first.
LEMMA SwitchingNext ==
  ASSUME SensorTypeOK, TodoShape, Running, NEW s \in Sensors
  PROVE  /\ call = <<"enable", s>> =>
               /\ step.do = "W" /\ step.field = ODR[s] /\ step.to = Rounded(_last_odr[s])
               /\ Tail(todo) = <<>> /\ _is_enabled[s] # 1
         /\ call = <<"disable", s>> =>
               /\ _is_enabled[s] # 0
               /\ \/ /\ todo = <<GetOdr(s), W(ODR[s], 0)>>
                     /\ step.do = "get_odr" /\ step.sensor = s
                  \/ /\ todo # <<GetOdr(s), W(ODR[s], 0)>>
                     /\ step.do = "W" /\ step.field = ODR[s] /\ step.to = 0
                     /\ Tail(todo) = <<>>
         /\ step.do = "get_odr" => call = <<"disable", step.sensor>>
         /\ step.do \in {"set_odr", "page", "embedded"} =>
               /\ ~Calling("enable") /\ ~Calling("disable") /\ ~Calling("init")
               /\ call # <<"enable", s>> /\ call # <<"disable", s>>
         /\ step.do = "W" /\ step.field = ODR[s] =>
               call = <<"enable", s>> \/ call = <<"disable", s>> \/ call[1] = "init"
  <1>1. /\ \A f, v : W(f, v).do = "W" /\ W(f, v).field = f /\ W(f, v).to = v
        /\ \A r : GetOdr(r).do = "get_odr" /\ GetOdr(r).sensor = r
    BY DEF W, GetOdr
  <1>2. \A r, q \in Sensors : ODR[r] = ODR[q] => r = q
    BY DEF ODR, Sensors
  <1>3. ASSUME call = <<"enable", s>>
        PROVE  /\ step.do = "W" /\ step.field = ODR[s] /\ step.to = Rounded(_last_odr[s])
               /\ Tail(todo) = <<>> /\ _is_enabled[s] # 1
    <2>1. Calling("enable") /\ call[2] = s
      BY <1>3, CallIs
    <2> QED BY <1>1, <2>1, NextAccess
  <1>4. ASSUME call = <<"disable", s>>
        PROVE  /\ _is_enabled[s] # 0
               /\ \/ /\ todo = <<GetOdr(s), W(ODR[s], 0)>>
                     /\ step.do = "get_odr" /\ step.sensor = s
                  \/ /\ todo # <<GetOdr(s), W(ODR[s], 0)>>
                     /\ step.do = "W" /\ step.field = ODR[s] /\ step.to = 0
                     /\ Tail(todo) = <<>>
    <2>1. Calling("disable") /\ call[2] = s
      BY <1>4, CallIs
    <2> QED BY <1>1, <2>1, NextAccess, Shortened
  <1>5. step.do = "get_odr" => call = <<"disable", step.sensor>>
    BY <1>1, NextAccess, CallIs DEF Plain
  <1>6. ASSUME step.do \in {"set_odr", "page", "embedded"}
        PROVE  /\ ~Calling("enable") /\ ~Calling("disable") /\ ~Calling("init")
               /\ call # <<"enable", s>> /\ call # <<"disable", s>>
    BY <1>1, <1>6, NextAccess, CallIs
  <1>7. ASSUME step.do = "W", step.field = ODR[s]
        PROVE  call = <<"enable", s>> \/ call = <<"disable", s>> \/ call[1] = "init"
    <2>1. ~Plain(step)
      BY <1>7 DEF Plain, RateFields
    <2>2. Calling("enable") \/ Calling("disable") \/ Calling("init")
      BY <2>1, NextAccess
    <2>3. Calling("enable") => call[2] = s
      BY <1>1, <1>2, <1>7, NextAccess, CallIs
    <2>4. Calling("disable") => call[2] = s
      BY <1>1, <1>2, <1>7, NextAccess, CallIs
    <2> QED BY <2>2, <2>3, <2>4, CallIs
  <1> QED BY <1>3, <1>4, <1>5, <1>6, <1>7

\* A byte that arrives changes the rate of the sensor it is written for.
LEMMA ArrivesRates ==
  ASSUME SensorTypeOK, Running, IsWrite, Arrives, NEW s \in Sensors
  PROVE  regs'[ODR[s]] = IF Writes(s) /\ page = "main" THEN step.to ELSE regs[ODR[s]]
  <1>1. \A r, q \in Sensors : ODR[r] = ODR[q] => r = q
    BY DEF ODR, Sensors
  <1>2. Writes(s) <=> Written = ODR[s]
    <2>1. CASE step.do = "W"
      BY <2>1 DEF Writes, Written
    <2>2. CASE step.do # "W"
      <3>1. PICK r \in Sensors : Writes(r)
        BY <2>2 DEF IsWrite
      <3>2. Written = ODR[r] /\ step.do = "set_odr" /\ step.sensor = r
        BY <2>2, <3>1 DEF Writes, Written
      <3> QED BY <1>1, <2>2, <3>1, <3>2 DEF Writes
    <2> QED BY <2>1, <2>2
  <1>3. ODR[s] \in Switches \cup Numbers
    BY FieldsApart DEF RateFields
  <1> QED BY <1>2, <1>3, ArrivesTypes

\* A call keeps the rates.
LEMMA CallKeeps ==
  ASSUME SensorTypeOK, RateInv, NEW c \in Calls, Call(c)
  PROVE  RateInv'
  <1>1. TodoShape' /\ InitSets'
    BY CallShaped
  <1>2. EndsAtError'
    BY DEF Call, SensorTypeOK, EndsAtError
  <1>3. ASSUME NEW s \in sure'
        PROVE  Kept(s)'
    <2>0. s \in Sensors /\ s \in sure /\ Kept(s) /\ call = <<>>
      BY <1>3 DEF Call, SensorTypeOK, RateInv
    <2>1. /\ regs' = regs /\ _is_enabled' = _is_enabled /\ _last_odr' = _last_odr
          /\ asked' = asked /\ failed' = failed
      BY DEF Call, device
    <2>2. /\ _is_enabled[s] \in {0, 1}
          /\ _is_enabled[s] = 1 => regs[ODR[s]] = asked[s]
          /\ _is_enabled[s] = 0 => regs[ODR[s]] = 0 /\ _last_odr[s] = asked[s]
      BY <2>0 DEF Kept, Done
    <2>3. Done("enable", s)' => _is_enabled[s] = 1
      <3>1. c = <<"enable", s>> => Function(c) = enable(s)
        BY DEF Function
      <3> QED BY <3>1 DEF Call, Done, enable
    <2>4. Done("disable", s)' => _is_enabled[s] = 0
      <3>1. c = <<"disable", s>> => Function(c) = disable(s)
        BY DEF Function
      <3> QED BY <3>1 DEF Call, Done, disable
    <2>5. Stored(s)' => _is_enabled[s] = 0
      <3>1. c = <<"disable", s>> => Function(c) = disable(s)
        BY DEF Function
      <3> QED BY <3>1 DEF Call, Stored, disable
    <2> QED BY <2>1, <2>2, <2>3, <2>4, <2>5 DEF Kept
  <1> QED BY <1>1, <1>2, <1>3 DEF RateInv

\* Once a function has met an error, nothing is done or stored by it.
LEMMA FailedKeeps ==
  ASSUME SensorTypeOK, RateInv, Running, NEW s \in sure, failed',
         regs'[ODR[s]] = regs[ODR[s]], _is_enabled' = _is_enabled, _last_odr' = _last_odr,
         asked' = asked
  PROVE  Kept(s)'
  <1>1. Kept(s) /\ ~Done("enable", s) /\ ~Done("disable", s)
    BY DEF RateInv, Done, Running
  <1>2. ~Done("enable", s)' /\ ~Done("disable", s)' /\ ~Stored(s)'
    BY DEF Done, Stored
  <1> QED BY <1>1, <1>2 DEF Kept

\* A call that does not switch the sensor leaves it what it has.
LEMMA OthersKeep ==
  ASSUME SensorTypeOK, RateInv, Running, NEW s \in sure, call' = call,
         call # <<"enable", s>>, call # <<"disable", s>>,
         regs'[ODR[s]] = regs[ODR[s]], _is_enabled' = _is_enabled,
         _last_odr'[s] = _last_odr[s], asked'[s] = asked[s]
  PROVE  Kept(s)'
  <1>1. Kept(s) /\ ~Done("enable", s) /\ ~Done("disable", s)
    BY DEF RateInv, Done, Running
  <1>2. ~Done("enable", s)' /\ ~Done("disable", s)' /\ ~Stored(s)'
    BY DEF Done, Stored
  <1> QED BY <1>1, <1>2 DEF Kept

\* A write does, whether it is of a rate or not,
LEMMA WriteKeeps ==
  ASSUME SensorTypeOK, RateInv, Write, NEW s \in sure'
  PROVE  Kept(s)'
  <1>0. /\ Running /\ IsWrite /\ Arrives /\ TodoShape /\ s \in sure /\ s \in Sensors /\ Kept(s)
        /\ call' = call /\ _is_enabled' = _is_enabled /\ _last_odr' = _last_odr
        /\ failed' = failed /\ failed = FALSE /\ todo' = Tail(todo) /\ step \in Accesses
        /\ asked' = Asks /\ s \notin Unclear
    BY StepShape DEF Write, Next1, SensorTypeOK, RateInv, EndsAtError, Running
  <1>1. regs'[ODR[s]] = IF Writes(s) /\ page = "main" THEN step.to ELSE regs[ODR[s]]
    BY <1>0, ArrivesRates
  <1>2. asked'[s] = IF step.do = "set_odr" /\ step.sensor = s THEN step.to ELSE asked[s]
    BY <1>0 DEF Asks, SensorTypeOK
  <1>3. CASE ~Writes(s)
    <2>1. step.do = "set_odr" => step.sensor # s
      BY <1>0, <1>3 DEF IsWrite, Writes
    <2>2. call # <<"enable", s>> /\ call # <<"disable", s>>
      BY <1>0, <1>3, SwitchingNext DEF IsWrite, Writes
    <2> QED BY <1>0, <1>1, <1>2, <1>3, <2>1, <2>2, OthersKeep
  <1>4. CASE Writes(s)
    <2>0. page = "main" /\ call[1] # "init" /\ regs'[ODR[s]] = step.to
      BY <1>0, <1>1, <1>4 DEF Unclear
    <2>1. CASE step.do = "W"
      <3>0. step.field = ODR[s] /\ asked'[s] = asked[s]
        BY <1>2, <1>4, <2>1 DEF Writes
      <3>1. CASE call = <<"enable", s>>
        <4>1. step.to = Rounded(_last_odr[s]) /\ todo' = <<>> /\ _is_enabled[s] # 1
          BY <1>0, <3>1, SwitchingNext
        <4>2. _is_enabled[s] = 0 /\ _last_odr[s] = asked[s]
          BY <1>0, <4>1 DEF Kept
        <4>3. Rounded(asked[s]) = asked[s]
          BY <1>0, RateIsRounded DEF SensorTypeOK
        <4>4. Done("enable", s)' /\ ~Done("disable", s)' /\ ~Stored(s)'
          BY <1>0, <3>1, <4>1 DEF Done, Stored
        <4> QED BY <1>0, <2>0, <3>0, <4>1, <4>2, <4>3, <4>4 DEF Kept
      <3>2. CASE call = <<"disable", s>>
        <4>1. /\ step.to = 0 /\ todo' = <<>> /\ _is_enabled[s] # 0
              /\ todo # <<GetOdr(s), W(ODR[s], 0)>>
          BY <1>0, <2>1, <3>2, SwitchingNext
        <4>2. Stored(s)
          BY <1>0, <3>2, <4>1 DEF Stored
        <4>3. _is_enabled[s] = 1 /\ _last_odr[s] = asked[s]
          BY <1>0, <4>1, <4>2 DEF Kept
        <4>4. Done("disable", s)'
          BY <1>0, <3>2, <4>1 DEF Done
        <4> QED BY <1>0, <2>0, <3>0, <4>1, <4>3, <4>4 DEF Kept
      <3> QED BY <1>0, <2>0, <2>1, <3>0, <3>1, <3>2, SwitchingNext
    <2>2. CASE step.do # "W"
      <3>1. step.do = "set_odr" /\ step.sensor = s /\ _is_enabled[s] = 1
        BY <1>4, <2>2 DEF Writes
      <3>2. call # <<"enable", s>> /\ call # <<"disable", s>>
        BY <1>0, <3>1, SwitchingNext
      <3>3. ~Done("disable", s)' /\ ~Stored(s)'
        BY <1>0, <3>2 DEF Done, Stored
      <3> QED BY <1>0, <1>2, <2>0, <3>1, <3>3 DEF Kept
    <2> QED BY <2>1, <2>2
  <1> QED BY <1>3, <1>4

\* the rate read by disable,
LEMMA ReadKeeps ==
  ASSUME SensorTypeOK, RateInv, ReadOdr, NEW s \in sure'
  PROVE  Kept(s)' /\ todo' \in {<<>>, Tail(todo)} /\ (failed' => todo' = <<>>)
  <1>0. /\ Running /\ TodoShape /\ step.do = "get_odr" /\ step \in Accesses
        /\ call' = call /\ _is_enabled' = _is_enabled /\ asked' = asked /\ regs' = regs
    BY StepShape DEF ReadOdr, RateInv, device
  <1> DEFINE r == step.sensor
  <1>1. r \in Sensors
    BY <1>0 DEF Accesses
  <1>2. PICK rate \in IF page = "main" THEN {regs[ODR[r]]} ELSE StrayRates :
           /\ _last_odr' = [_last_odr EXCEPT ![r] = rate]
           /\ failed' = (rate = -1)
           /\ todo' = IF rate = -1 THEN <<>> ELSE Tail(todo)
           /\ sure' = IF page = "main" THEN sure ELSE sure \ {r}
    BY DEF ReadOdr
  <1>3. call = <<"disable", r>>
    BY <1>0, <1>1, SwitchingNext
  <1> HIDE DEF r
  <1>4. s \in sure /\ s \in Sensors /\ Kept(s)
    BY <1>2 DEF SensorTypeOK, RateInv
  <1>5. CASE s # r
    <2>1. _last_odr'[s] = _last_odr[s] /\ call # <<"disable", s>> /\ call # <<"enable", s>>
      BY <1>1, <1>2, <1>3, <1>4, <1>5 DEF SensorTypeOK
    <2>2. Kept(s)'
      BY <1>0, <1>4, <2>1, OthersKeep
    <2> QED BY <1>2, <2>2
  <1>6. CASE s = r
    <2>1. page = "main" /\ rate = regs[ODR[s]] /\ _last_odr'[s] = rate
      BY <1>1, <1>2, <1>4, <1>6 DEF SensorTypeOK
    <2>2. _is_enabled[s] = 1 /\ ~Done("disable", s)
      BY <1>0, <1>3, <1>4, <1>6, SwitchingNext DEF Kept, Done, Running
    <2>3. rate = asked[s]
      BY <1>4, <2>1, <2>2 DEF Kept
    <2>4. rate \in Nat
      BY <1>4, <2>3, NumbersOfRates DEF SensorTypeOK
    <2>5. failed' = FALSE /\ todo' = Tail(todo)
      <3>1. rate # -1
        BY <2>4
      <3> QED BY <1>2, <3>1
    <2>6. todo' = <<W(ODR[s], 0)>>
      <3>1. Calling("disable") /\ call[2] = s
        BY <1>3, <1>6 DEF Calling
      <3>2. W(ODR[s], 0).do = "W"
        BY DEF W
      <3> QED BY <1>0, <2>5, <3>1, <3>2, NextAccess
    <2>7. ~Done("disable", s)'
      BY <2>6 DEF Done
    <2>8. Kept(s)'
      BY <1>0, <2>1, <2>2, <2>3, <2>7 DEF Kept
    <2> QED BY <1>2, <2>8
  <1> QED BY <1>5, <1>6

\* every access,
LEMMA StepKeeps ==
  ASSUME SensorTypeOK, RateInv, Step
  PROVE  RateInv'
  <1>0. /\ Running /\ call' = call /\ _is_enabled' = _is_enabled
        /\ TodoShape /\ InitSets /\ EndsAtError /\ failed = FALSE
        /\ step \in Accesses /\ sure \subseteq Sensors
    BY StepShape DEF Step, Write, WriteFails, SetLastOdr, ReadOdr, ReadOdrFails, PageStep, RateInv,
       EndsAtError, Running, SensorTypeOK
  <1> DEFINE Shrinks == todo' \in {<<>>, Tail(todo)} /\ (failed' => todo' = <<>>)
  <1>1. Shrinks => TodoShape' /\ EndsAtError'
    BY <1>0, ShapeKept DEF EndsAtError
  <1>2. Calling("init") => step.do = "W"
    BY <1>0, NextAccess
  <1>3. Calling("init")' <=> Calling("init")
    BY <1>0 DEF Calling
  <1>4. CASE Write
    <2>1. Shrinks
      BY <1>0, <1>4 DEF Write, Next1
    <2>2. ASSUME Calling("init"), page = "main", NEW s \in Sensors
          PROVE  regs'[ODR[s]] = 0 \/ W(ODR[s], 0) \in Elements(todo)'
      <3>1. regs[ODR[s]] = 0 \/ W(ODR[s], 0) \in Elements(todo)
        BY <1>0, <2>2 DEF InitSets
      <3>2. regs'[ODR[s]] = IF Writes(s) THEN step.to ELSE regs[ODR[s]]
        BY <1>4, <2>2, ArrivesRates DEF Write
      <3>3. Elements(todo)' = Elements(Tail(todo))
        BY <1>4 DEF Write, Next1, Elements
      <3>4. CASE Writes(s)
        <4>1. step.do = "W" /\ step.field \in RateFields
          BY <1>2, <2>2, <3>4 DEF Writes, RateFields
        <4>2. step.to = 0
          BY <1>0, <2>2, <4>1, NextAccess
        <4> QED BY <3>2, <3>4, <4>2
      <3>5. CASE ~Writes(s)
        <4>1. step # W(ODR[s], 0)
          BY <1>2, <2>2, <3>5 DEF Writes, W
        <4>2. Elements(todo) = {step} \cup Elements(Tail(todo))
          BY <1>0, NextAccess
        <4> QED BY <3>1, <3>2, <3>3, <3>5, <4>1, <4>2
      <3> QED BY <3>4, <3>5
    <2>3. InitSets'
      BY <1>3, <1>4, <2>2 DEF InitSets, Write
    <2> QED BY <1>1, <1>4, <2>1, <2>3, WriteKeeps DEF RateInv
  <1>5. CASE WriteFails
    <2>1. Shrinks /\ failed'
      BY <1>5 DEF WriteFails
    <2>2. InitSets'
      BY <2>1 DEF InitSets
    <2>3. ASSUME NEW s \in sure'
          PROVE  Kept(s)'
      <3>1. s \in sure /\ regs'[ODR[s]] = regs[ODR[s]]
        <4>1. CASE UNCHANGED <<regs, sure>>
          BY <4>1
        <4>2. CASE Arrives /\ sure' = {r \in sure : ~Writes(r)}
          BY <1>0, <1>5, <4>2, ArrivesRates DEF WriteFails
        <4> QED BY <1>5, <4>1, <4>2 DEF WriteFails
      <3> QED BY <1>5, <2>1, <3>1, FailedKeeps DEF WriteFails
    <2> QED BY <1>1, <2>1, <2>2, <2>3 DEF RateInv
  <1>6. CASE SetLastOdr
    <2>1. Shrinks /\ ~Calling("init")
      BY <1>0, <1>2, <1>6 DEF SetLastOdr, Next1
    <2>2. InitSets'
      BY <1>3, <2>1 DEF InitSets
    <2>3. ASSUME NEW s \in sure'
          PROVE  Kept(s)'
      <3>0. /\ s \in sure /\ s \in Sensors /\ Kept(s) /\ regs' = regs
            /\ step.do = "set_odr" /\ failed' = failed
        BY <1>0, <1>6, <2>3 DEF SetLastOdr, device, RateInv
      <3>1. call # <<"enable", s>> /\ call # <<"disable", s>>
        BY <1>0, <3>0, SwitchingNext
      <3>2. CASE step.sensor = s
        <4>1. _last_odr'[s] = step.to /\ asked'[s] = step.to
          BY <1>6, <3>0, <3>2 DEF SetLastOdr, Asks, SensorTypeOK
        <4>2. _is_enabled[s] # 1
          BY <1>6, <3>0, <3>2 DEF SetLastOdr, IsWrite, Writes
        <4>3. _is_enabled[s] = 0 /\ regs[ODR[s]] = 0
          BY <3>0, <3>1, <4>2 DEF Kept, Done
        <4>4. ~Done("enable", s)'
          BY <1>0, <3>1 DEF Done
        <4> QED BY <1>0, <3>0, <4>1, <4>3, <4>4 DEF Kept
      <3>3. CASE step.sensor # s
        <4>1. _last_odr'[s] = _last_odr[s] /\ asked'[s] = asked[s]
          BY <1>0, <1>6, <3>0, <3>3 DEF SetLastOdr, Asks, SensorTypeOK, Accesses
        <4> QED BY <1>0, <3>0, <3>1, <4>1, OthersKeep
      <3> QED BY <3>2, <3>3
    <2> QED BY <1>1, <2>1, <2>2, <2>3 DEF RateInv
  <1>7. CASE ReadOdr
    <2>1. Shrinks
      <3>1. step.sensor \in Sensors
        BY <1>0, <1>7 DEF ReadOdr, Accesses
      <3>2. PICK rate \in IF page = "main" THEN {regs[ODR[step.sensor]]} ELSE StrayRates :
               /\ failed' = (rate = -1)
               /\ todo' = IF rate = -1 THEN <<>> ELSE Tail(todo)
        BY <1>7 DEF ReadOdr
      <3> QED BY <3>2
    <2>2. InitSets'
      BY <1>2, <1>3, <1>7 DEF InitSets, ReadOdr
    <2>3. \A s \in sure' : Kept(s)'
      BY <1>7, ReadKeeps
    <2> QED BY <1>1, <2>1, <2>2, <2>3 DEF RateInv
  <1>8. CASE ReadOdrFails
    <2>1. Shrinks /\ failed'
      BY <1>8 DEF ReadOdrFails
    <2>2. InitSets'
      BY <2>1 DEF InitSets
    <2>3. \A s \in sure' : Kept(s)'
      BY <1>0, <1>8, <2>1, FailedKeeps DEF ReadOdrFails, device
    <2> QED BY <1>1, <2>1, <2>2, <2>3 DEF RateInv
  <1>9. CASE PageStep
    <2>1. Shrinks /\ ~Calling("init")
      BY <1>0, <1>2, <1>9 DEF PageStep, Next1
    <2>2. InitSets'
      BY <1>3, <2>1 DEF InitSets
    <2>3. ASSUME NEW s \in sure'
          PROVE  Kept(s)'
      <3>0. /\ s \in sure /\ s \in Sensors /\ asked' = asked /\ _last_odr' = _last_odr
            /\ step.do \in {"page", "embedded"}
        BY <1>0, <1>9, <2>3 DEF PageStep
      <3>1. regs'[ODR[s]] = regs[ODR[s]]
        <4>1. "PEDO_THS" # ODR[s]
          BY <3>0, RateFieldsAre DEF RateFields
        <4>2. regs' = regs \/ regs' = [regs EXCEPT !["PEDO_THS"] = step.thr]
          BY <1>9 DEF PageStep, device
        <4>3. ODR[s] \in DOMAIN regs
          BY <3>0, FieldsApart DEF RateFields, SensorTypeOK
        <4> QED BY <4>1, <4>2, <4>3
      <3>2. call # <<"enable", s>> /\ call # <<"disable", s>>
        BY <1>0, <3>0, SwitchingNext
      <3> QED BY <1>0, <3>0, <3>1, <3>2, OthersKeep
    <2> QED BY <1>1, <2>1, <2>2, <2>3 DEF RateInv
  <1> QED BY <1>4, <1>5, <1>6, <1>7, <1>8, <1>9 DEF Step

\* the end of a call,
LEMMA ReturnKeeps ==
  ASSUME SensorTypeOK, RateInv, Return
  PROVE  RateInv'
  <1>0. /\ call \in Calls /\ call # <<>> /\ todo = <<>> /\ call' = <<>> /\ failed' = FALSE
        /\ todo' = <<>> /\ regs' = regs /\ page' = page
    BY DEF Return, SensorTypeOK, device, Running
  <1>1. TodoShape' /\ InitSets' /\ EndsAtError'
    BY <1>0, ElementsEmpty DEF TodoShape, InitSets, EndsAtError, Calling, Elements
  <1>2. \A s : ~Done("enable", s)' /\ ~Done("disable", s)' /\ ~Stored(s)'
    BY <1>0 DEF Done, Stored
  <1>3. ASSUME NEW s \in sure'
        PROVE  Kept(s)'
    <2>1. CASE call[1] = "init" /\ ~failed
      <3>1. /\ _is_enabled' = [r \in Sensors |-> 0] /\ _last_odr' = [r \in Sensors |-> 104]
            /\ asked' = [r \in Sensors |-> 104] /\ page = "main" /\ s \in Sensors
        BY <1>3, <2>1 DEF Return
      <3>2. regs[ODR[s]] = 0
        BY <1>0, <2>1, <3>1, ElementsEmpty DEF RateInv, InitSets, Calling
      <3> QED BY <1>0, <1>2, <3>1, <3>2 DEF Kept
    <2>2. CASE ~(call[1] = "init" /\ ~failed)
      <3>0. s \in sure /\ s \in Sensors /\ Kept(s) /\ _last_odr' = _last_odr /\ asked' = asked
        BY <1>3, <2>2 DEF Return, RateInv, SensorTypeOK
      <3>1. CASE failed
        <4>1. _is_enabled' = _is_enabled /\ ~Done("enable", s) /\ ~Done("disable", s)
          BY <3>1 DEF Return, Done
        <4> QED BY <1>0, <1>2, <3>0, <4>1 DEF Kept
      <3>2. CASE ~failed /\ call = <<"enable", s>>
        <4>1. _is_enabled'[s] = 1 /\ Done("enable", s) /\ ~Done("disable", s)
          BY <1>0, <3>0, <3>2 DEF Return, Done, SensorTypeOK
        <4> QED BY <1>0, <1>2, <3>0, <4>1 DEF Kept
      <3>3. CASE ~failed /\ call = <<"disable", s>>
        <4>1. _is_enabled'[s] = 0 /\ Done("disable", s) /\ ~Done("enable", s) /\ Stored(s)
          BY <1>0, <3>0, <3>3 DEF Return, Done, Stored, SensorTypeOK
        <4> QED BY <1>0, <1>2, <3>0, <4>1 DEF Kept
      <3>4. CASE call # <<"enable", s>> /\ call # <<"disable", s>>
        <4>1. ~Done("enable", s) /\ ~Done("disable", s)
          BY <3>4 DEF Done
        <4>2. _is_enabled'[s] = _is_enabled[s]
          <5>1. call[1] \in {"enable", "disable"} => call[2] # s /\ call[2] \in Sensors
            BY <1>0, <3>4, CallShape
          <5>2. CASE failed
            BY <5>2 DEF Return
          <5>3. CASE ~failed /\ call[1] = "enable"
            BY <3>0, <5>1, <5>3 DEF Return, SensorTypeOK
          <5>4. CASE ~failed /\ call[1] = "disable"
            BY <3>0, <5>1, <5>4 DEF Return, SensorTypeOK
          <5>5. CASE ~failed /\ call[1] \notin {"init", "enable", "disable"}
            BY <5>5 DEF Return
          <5> QED BY <2>2, <5>2, <5>3, <5>4, <5>5
        <4> QED BY <1>0, <1>2, <3>0, <4>1, <4>2 DEF Kept
      <3> QED BY <3>1, <3>2, <3>3, <3>4
    <2> QED BY <2>1, <2>2
  <1> QED BY <1>1, <1>3 DEF RateInv

\* and a new object, of which nothing is sure.
LEMMA NewObjectKeeps ==
  ASSUME NewObject
  PROVE  RateInv'
  <1>1. call' = <<>> /\ todo' = <<>> /\ failed' = FALSE /\ sure' = {}
    BY DEF NewObject
  <1> QED BY <1>1 DEF RateInv, TodoShape, InitSets, EndsAtError, Calling, Elements

\* At the start nothing is sure.
LEMMA RateInvInit ==
  ASSUME SensorInit
  PROVE  RateInv
  BY DEF SensorInit, RateInv, TodoShape, InitSets, EndsAtError, Calling, Elements

\* What is known of the rates is inductive.
LEMMA RateInvNext ==
  ASSUME TypeOK, RateInv, [Next]_vars
  PROVE  RateInv'
  <1>1. ASSUME NEW c \in focus, Call(c)
        PROVE  RateInv'
    BY <1>1, CallKeeps, FocusesAssumption DEF TypeOK
  <1>2. CASE Step \/ Return \/ Reset
    BY <1>2, StepKeeps, ReturnKeeps, NewObjectKeeps DEF TypeOK, Reset
  <1>3. CASE UNCHANGED vars
    BY <1>3 DEF RateInv, TodoShape, InitSets, EndsAtError, Calling, Elements, Kept, Done, Stored,
       vars, sensorVars, device, object
  <1> QED BY <1>1, <1>2, <1>3 DEF Next

\* Between calls a sensor that is on samples at the rate asked for last and
\* one that is off will, whatever was called and failed in between.
THEOREM RatesAreKept == Spec => []RateKept
  <1>1. Init => RateInv
    BY RateInvInit DEF Init
  <1>2. ASSUME TypeOK, RateInv
        PROVE  RateKept
    <2> SUFFICES ASSUME call = <<>>, NEW s \in sure
                 PROVE  /\ _is_enabled[s] = 1 => regs[ODR[s]] = asked[s]
                        /\ _is_enabled[s] # 1 => _last_odr[s] = asked[s] /\ regs[ODR[s]] = 0
      BY DEF RateKept
    <2>1. Kept(s)
      BY <1>2 DEF RateInv
    <2>2. ~Done("enable", s) /\ ~Done("disable", s)
      BY DEF Done
    <2> QED BY <2>1, <2>2 DEF Kept
  <1> QED BY <1>1, <1>2, RateInvNext, UseTypeCorrect, PTL DEF Spec

------------------------------------------------------------------------------
(* Detections.                                                              *)

\* While a detection is being enabled and its accesses reach the device, all
\* it needs is set or will be; while the pedometer's page is written to, all
\* of it will be.
EnableInv ==
  Calling("enable_detection") /\ ~failed /\ ~astray =>
    /\ \A a \in Elements(todo) : Sets(a)
    /\ PagesFirst(todo)
    /\ \A f \in Needed(call[2], call[3]) :
          /\ page = "main" => regs[f] = TRUE \/ W(f, TRUE) \in Elements(todo)
          /\ (\E a \in Elements(todo) : PageAccess(a)) => W(f, TRUE) \in Elements(todo)

\* An access that will silence a detection belongs to its group.
GroupInv ==
  \A a \in Elements(todo) : \A d \in Detections :
    SwitchAccess(a) /\ a.field \in Vital(d) =>
      a.to = TRUE \/ (Calling("disable_detection") /\ Switch(call[2]) = Switch(d))

\* What follows is in the same order.
LEMMA PagesFirstTail ==
  ASSUME NEW s \in Seq(Accesses), s # <<>>, PagesFirst(s)
  PROVE  /\ PagesFirst(Tail(s))
         /\ SwitchAccess(Head(s)) => \A a \in Elements(Tail(s)) : ~PageAccess(a)
  <1> DEFINE rest == Tail(s)
  <1>1. /\ Head(s) = s[1] /\ Len(s) \in Nat /\ Len(s) # 0 /\ Len(rest) = Len(s) - 1
        /\ DOMAIN s = 1 .. Len(s) /\ DOMAIN rest = 1 .. Len(rest)
        /\ \A i \in 1 .. Len(rest) : rest[i] = s[i + 1]
    BY HeadTailProperties, EmptySeq
  <1> HIDE DEF rest
  <1>2. 1 \in DOMAIN s
    BY <1>1
  <1>3. \A i \in DOMAIN rest : i \in Nat /\ i >= 1 /\ i + 1 \in DOMAIN s /\ rest[i] = s[i + 1]
    BY <1>1
  <1>4. \A i, j \in DOMAIN rest : PageAccess(rest[i]) /\ SwitchAccess(rest[j]) => i < j
    <2> TAKE i \in DOMAIN rest, j \in DOMAIN rest
    <2> HAVE PageAccess(rest[i]) /\ SwitchAccess(rest[j])
    <2>1. i + 1 < j + 1
      BY <1>3 DEF PagesFirst
    <2> QED BY <1>3, <2>1
  <1>5. ASSUME SwitchAccess(Head(s)), NEW i \in DOMAIN rest, PageAccess(rest[i])
        PROVE  FALSE
    <2>1. i + 1 < 1
      BY <1>1, <1>2, <1>3, <1>5 DEF PagesFirst
    <2> QED BY <1>3, <2>1
  <1> QED BY <1>4, <1>5 DEF PagesFirst, Elements, rest

\* What enabling has to set is vital to the detection.
LEMMA NeededIsVital ==
  ASSUME NEW d \in Detections, NEW pin \in Pins
  PROVE  /\ Needed(d, pin) \subseteq Vital(d) /\ Needed(d, pin) \subseteq Switches
         /\ \E i \in DOMAIN Route[d] : Route[d][i] \in Needed(d, pin)
  <1> DEFINE i == IF d = "pedometer" THEN 1 ELSE pin
  <1>1. i \in DOMAIN Route[d]
    BY RoutesAre, RouteSwitches
  <1>2. Needed(d, pin) \subseteq Vital(d)
    BY <1>1 DEF Needed, Vital
  <1>3. \A f \in Vital(d) : f \in Switches
    BY GroupsApart
  <1> QED BY <1>1, <1>2, <1>3 DEF Needed

\* A byte that arrives for a switch was to be written to that switch.
LEMMA SwitchWritten ==
  ASSUME SensorTypeOK, Running, IsWrite, Written \in Switches
  PROVE  SwitchAccess(step) /\ Written = step.field
  <1>1. step \in Accesses
    BY StepShape
  <1>2. CASE step.do = "W"
    BY <1>2 DEF Written, SwitchAccess
  <1>3. CASE step.do # "W"
    <2>1. step.do = "set_odr" /\ step.sensor \in Sensors
      BY <1>3 DEF IsWrite, Writes
    <2>2. Written \in RateFields
      BY <1>3, <2>1 DEF Written, RateFields
    <2> QED BY <2>2, FieldsApart
  <1> QED BY <1>2, <1>3

\* A call that enables a detection has all of it still to set.
LEMMA CallEnables ==
  ASSUME SensorTypeOK, NEW c \in Calls, Call(c)
  PROVE  EnableInv'
  <1>1. call' = c /\ todo' = Function(c) /\ astray' = (page # "main") /\ page' = page
    BY DEF Call, device
  <1>2. CASE c[1] = "enable_detection" /\ page = "main"
    <2>1. c[2] \in Detections /\ c[3] \in Pins /\ Function(c) = enable_detection(c[2], c[3])
      BY <1>2, CallShape DEF Function
    <2>2. /\ \A a \in Elements(Function(c)) : Sets(a)
          /\ \A f \in Needed(c[2], c[3]) : W(f, TRUE) \in Elements(Function(c))
          /\ PagesFirst(Function(c))
      BY <2>1, EnablingSets
    <2>3. Elements(todo)' = Elements(Function(c)) /\ PagesFirst(todo)' = PagesFirst(Function(c))
      BY <1>1 DEF Elements, PagesFirst
    <2> QED BY <1>1, <2>2, <2>3 DEF EnableInv
  <1>3. CASE c[1] # "enable_detection" \/ page # "main"
    BY <1>1, <1>3 DEF EnableInv, Calling
  <1> QED BY <1>2, <1>3

\* An access sets it, or leaves it to be set.
LEMMA StepEnables ==
  ASSUME SensorTypeOK, RateInv, EnableInv, Step
  PROVE  EnableInv'
  <1>0. /\ Running /\ call' = call /\ astray' = astray /\ step \in Accesses /\ call # <<>>
        /\ TodoShape /\ failed = FALSE /\ call \in Calls
        /\ todo \in Seq(Accesses) /\ todo # <<>> /\ step = Head(todo)
        /\ Elements(todo) = {step} \cup Elements(Tail(todo))
    BY StepShape DEF Step, Write, WriteFails, SetLastOdr, ReadOdr, ReadOdrFails, PageStep, RateInv,
       EndsAtError, Running, SensorTypeOK, step
  <1> SUFFICES ASSUME Calling("enable_detection"), ~failed', ~astray
               PROVE  EnableInv'
    BY <1>0 DEF EnableInv, Calling
  <1> DEFINE d == call[2]
             pin == call[3]
  <1>1. d \in Detections /\ pin \in Pins
    BY <1>0, CallShape DEF Calling
  <1>2. /\ \A a \in Elements(todo) : Sets(a)
        /\ PagesFirst(todo)
        /\ \A f \in Needed(d, pin) :
              /\ page = "main" => regs[f] = TRUE \/ W(f, TRUE) \in Elements(todo)
              /\ (\E a \in Elements(todo) : PageAccess(a)) => W(f, TRUE) \in Elements(todo)
    BY <1>0 DEF EnableInv
  <1>3. Plain(step)
    BY <1>0, NextAccess DEF Calling
  <1>4. todo' = Tail(todo)
    BY <1>0, <1>3 DEF Step, Write, WriteFails, SetLastOdr, ReadOdr, ReadOdrFails, PageStep, Next1,
       Plain
  <1>5. Elements(todo)' = Elements(Tail(todo)) /\ PagesFirst(todo)' = PagesFirst(Tail(todo))
    BY <1>4 DEF Elements, PagesFirst
  <1>6. /\ PagesFirst(Tail(todo))
        /\ SwitchAccess(step) => \A a \in Elements(Tail(todo)) : ~PageAccess(a)
    BY <1>0, <1>2, PagesFirstTail
  <1>7. ASSUME NEW f \in Needed(d, pin)
        PROVE  /\ page' = "main" => regs'[f] = TRUE \/ W(f, TRUE) \in Elements(Tail(todo))
               /\ (\E a \in Elements(Tail(todo)) : PageAccess(a)) =>
                     W(f, TRUE) \in Elements(Tail(todo))
    <2>0. f \in Switches /\ W(f, TRUE).do = "W" /\ W(f, TRUE).field = f /\ W(f, TRUE).to = TRUE
      BY <1>1, NeededIsVital DEF W
    <2>1. SwitchAccess(W(f, TRUE)) /\ ~PageAccess(W(f, TRUE))
      BY <2>0 DEF SwitchAccess, PageAccess
    <2>2. (\E a \in Elements(Tail(todo)) : PageAccess(a)) => W(f, TRUE) \in Elements(Tail(todo))
      <3> HAVE \E a \in Elements(Tail(todo)) : PageAccess(a)
      <3>1. W(f, TRUE) \in Elements(todo)
        BY <1>0, <1>2
      <3>2. step # W(f, TRUE)
        BY <1>6, <2>1
      <3> QED BY <1>0, <3>1, <3>2
    <2>3. CASE PageAccess(step)
      <3>1. W(f, TRUE) \in Elements(todo) /\ step # W(f, TRUE)
        BY <1>0, <1>2, <2>1, <2>3
      <3> QED BY <1>0, <2>2, <3>1
    <2>4. CASE ~PageAccess(step)
      <3>1. page' = page
        BY <2>4 DEF Step, Write, WriteFails, SetLastOdr, ReadOdr, ReadOdrFails, PageStep,
           PageAccess, device
      <3>2. ASSUME page = "main"
            PROVE  regs'[f] = TRUE \/ W(f, TRUE) \in Elements(Tail(todo))
        <4>1. regs[f] = TRUE \/ step = W(f, TRUE) \/ W(f, TRUE) \in Elements(Tail(todo))
          BY <1>0, <1>2, <3>2
        <4>2. CASE Write
          <5>1. /\ \A g \in Switches \cup Numbers : g # Written => regs'[g] = regs[g]
                /\ regs'[Written] = step.to
            BY <3>2, <4>2, ArrivesTypes DEF Write
          <5>2. CASE Written = f
            <6>1. SwitchAccess(step)
              BY <2>0, <4>2, <5>2, SwitchWritten DEF Write
            <6>2. step.to = TRUE
              BY <1>0, <1>2, <6>1 DEF Sets
            <6> QED BY <5>1, <5>2, <6>2
          <5>3. CASE Written # f
            <6>1. step # W(f, TRUE)
              BY <2>0, <5>3 DEF Written
            <6> QED BY <2>0, <4>1, <5>1, <5>3, <6>1
          <5> QED BY <5>2, <5>3
        <4>3. CASE SetLastOdr
          <5>1. regs' = regs /\ step # W(f, TRUE)
            BY <2>0, <4>3 DEF SetLastOdr, device
          <5> QED BY <4>1, <5>1
        <4> QED BY <1>3, <2>4, <4>2, <4>3 DEF Step, WriteFails, ReadOdr, ReadOdrFails, PageStep,
               Plain, PageAccess
      <3> QED BY <2>2, <3>1, <3>2
    <2> QED BY <2>3, <2>4
  <1>8. \A a \in Elements(Tail(todo)) : Sets(a)
    BY <1>0, <1>2
  <1> QED BY <1>0, <1>5, <1>6, <1>7, <1>8 DEF EnableInv

\* What is known of enabling is inductive.
LEMMA EnableInvNext ==
  ASSUME TypeOK, RateInv, EnableInv, [Next]_vars
  PROVE  EnableInv'
  <1>1. ASSUME NEW c \in focus, Call(c)
        PROVE  EnableInv'
    BY <1>1, CallEnables, FocusesAssumption DEF TypeOK
  <1>2. CASE Step
    BY <1>2, StepEnables DEF TypeOK
  <1>3. CASE Return \/ Reset
    <2>1. call' = <<>>
      BY <1>3 DEF Return, Reset, NewObject
    <2> QED BY <2>1 DEF EnableInv, Calling
  <1>4. CASE UNCHANGED vars
    BY <1>4 DEF EnableInv, Calling, Elements, PagesFirst, vars, sensorVars, device, object
  <1> QED BY <1>1, <1>2, <1>3, <1>4 DEF Next

\* A detection whose enabling is answered with success is active if the
\* accelerometer is on, unless the pedometer's page was left open.
THEOREM EnabledDetects == Spec => []EnabledIsActive
  <1>1. Init => RateInv /\ EnableInv
    <2>1. Init => EnableInv
      BY DEF Init, SensorInit, EnableInv, Calling
    <2> QED BY <2>1, RateInvInit DEF Init
  <1>2. ASSUME TypeOK, RateInv, EnableInv
        PROVE  EnabledIsActive
    <2> SUFFICES ASSUME call # <<>>, ~Running, call[1] = "enable_detection", Result = 0,
                        ~astray, page = "main", "x" \in sure, _is_enabled["x"] = 1
                 PROVE  Active(call[2])
      BY DEF EnabledIsActive
    <2> DEFINE d == call[2]
               pin == call[3]
    <2>1. d \in Detections /\ pin \in Pins
      BY <1>2, CallShape DEF TypeOK, SensorTypeOK
    <2>2. failed = FALSE
      BY <1>2 DEF Result, TypeOK, SensorTypeOK
    <2>3. \A f \in Needed(d, pin) : regs[f] = TRUE
      BY <1>2, <2>2, ElementsEmpty DEF EnableInv, Calling, Running
    <2>4. regs.ODR_XL # 0
      <3>1. regs[ODR["x"]] = asked["x"]
        <4>1. Kept("x") /\ ~Done("disable", "x")
          BY <1>2 DEF RateInv, Done
        <4> QED BY <4>1 DEF Kept
      <3>2. asked["x"] \in Rates
        BY <1>2 DEF TypeOK, SensorTypeOK, Sensors
      <3> QED BY <3>1, <3>2, NumbersOfRates DEF ODR
    <2>5. \A f \in Own(d) \cup {Switch(d)} : regs[f]
      BY <2>3 DEF Needed
    <2>6. \E i \in DOMAIN Route[d] : regs[Route[d][i]]
      BY <2>1, <2>3, NeededIsVital
    <2> QED BY <2>4, <2>5, <2>6 DEF Active
  <1> QED BY <1>1, <1>2, RateInvNext, EnableInvNext, UseTypeCorrect, PTL DEF Spec


\* A call silences no detection of another group.
LEMMA CallInGroup ==
  ASSUME SensorTypeOK, NEW c \in Calls, Call(c)
  PROVE  GroupInv'
  <1>0. _last_odr \in [Sensors -> Int] /\ call' = c /\ todo' = Function(c) /\ c # <<>>
    BY LastOdrIsNumber, CallShape DEF Call
  <1> SUFFICES ASSUME NEW a \in Elements(Function(c)), NEW d \in Detections,
                      SwitchAccess(a), a.field \in Vital(d), a.to # TRUE
               PROVE  c[1] = "disable_detection" /\ Switch(c[2]) = Switch(d)
    BY <1>0 DEF GroupInv, Elements, Calling
  <1>1. ~Harmless(a)
    BY DEF Harmless
  <1>2. CASE c[1] = "init"
    BY <1>1, <1>2, InitMakes DEF Function
  <1>3. CASE c[1] \in {"enable", "disable"}
    <2>1. c[2] \in Sensors
      BY <1>3, CallShape
    <2>2. Elements(Function(c)) \subseteq
             {W(ODR[c[2]], Rounded(_last_odr[c[2]])), GetOdr(c[2]), W(ODR[c[2]], 0)}
      BY <1>3, ElementsOf, ElementsEmpty DEF Function, enable, disable
    <2>3. \A v : ~SwitchAccess(W(ODR[c[2]], v))
      BY <2>1, FieldsApart DEF SwitchAccess, W, RateFields
    <2>4. ~SwitchAccess(GetOdr(c[2]))
      BY DEF SwitchAccess, GetOdr
    <2> QED BY <2>2, <2>3, <2>4
  <1>4. CASE c[1] = "enable_detection"
    BY <1>1, <1>4, CallShape, EnablingSets, HarmlessSettings DEF Function
  <1>5. CASE c[1] = "disable_detection"
    <2>1. c[2] \in Detections /\ Function(c) = disable_detection(c[2])
      BY <1>5, CallShape DEF Function
    <2>2. a.field \in FunctionFields <=> c[2] \in FunctionGroup
      BY <2>1, DisablingClears
    <2>3. a.field \in FunctionFields <=> d \in FunctionGroup
      BY GroupsApart
    <2> QED BY <1>5, <2>2, <2>3 DEF Switch
  <1>6. CASE c[1] \in {"reset_step_counter", "enable_temp", "set_odr", "set_threshold", "set_x_fs",
                       "set_g_fs"}
    BY <1>1, <1>6, OtherMakes
  <1> QED BY <1>2, <1>3, <1>4, <1>5, <1>6, CallShape

\* So does what is left of it.
LEMMA GroupInvNext ==
  ASSUME TypeOK, RateInv, GroupInv, [Next]_vars
  PROVE  GroupInv'
  <1>1. ASSUME NEW c \in focus, Call(c)
        PROVE  GroupInv'
    BY <1>1, CallInGroup, FocusesAssumption DEF TypeOK
  <1>2. CASE Step
    <2>1. /\ call' = call /\ Elements(todo)' = Elements(todo')
          /\ Elements(todo) = {step} \cup Elements(Tail(todo))
      BY <1>2, StepShape DEF Step, Write, WriteFails, SetLastOdr, ReadOdr, ReadOdrFails, PageStep,
         TypeOK, Elements
    <2>2. todo' \in {<<>>, Tail(todo)}
      <3>1. CASE ReadOdr
        <4>1. PICK rate : todo' = IF rate = -1 THEN <<>> ELSE Tail(todo)
          BY <3>1 DEF ReadOdr
        <4> QED BY <4>1
      <3> QED BY <1>2, <3>1 DEF Step, Write, WriteFails, SetLastOdr, ReadOdrFails, PageStep, Next1
    <2>3. Elements(todo)' \subseteq Elements(todo)
      BY <2>1, <2>2, ElementsEmpty
    <2> QED BY <2>1, <2>3 DEF GroupInv, Calling
  <1>3. CASE Return \/ Reset
    <2>1. todo' = <<>>
      BY <1>3 DEF Return, Reset, NewObject, Running
    <2> QED BY <2>1 DEF GroupInv, Elements
  <1>4. CASE UNCHANGED vars
    BY <1>4 DEF GroupInv, Calling, Elements, vars, sensorVars, device, object
  <1> QED BY <1>1, <1>2, <1>3, <1>4 DEF Next

\* A byte that silences a detection is written by init, by switching the
\* accelerometer off or for a detection of its group.
LEMMA ArrivesInGroup ==
  ASSUME SensorTypeOK, RateInv, GroupInv, Running, IsWrite, Arrives,
         NEW d \in Detections, Active(d), ~Active(d)'
  PROVE  \/ call = <<"init">> \/ call = <<"disable", "x">>
         \/ call[1] = "disable_detection" /\ Switch(call[2]) = Switch(d)
  <1> DEFINE w == Written
  <1>0. /\ \A f \in Switches \cup Numbers : f # w => regs'[f] = regs[f]
        /\ regs'[w] = IF page = "main" THEN step.to ELSE regs[w]
        /\ TodoShape /\ step \in Accesses /\ call # <<>>
    BY ArrivesTypes, StepShape DEF RateInv, SensorTypeOK, Running
  <1>1. \A f \in Vital(d) : f \in Switches
    BY GroupsApart
  <1>2. "ODR_XL" \in Numbers /\ "ODR_XL" \notin Switches
    BY NumbersAre, FieldsApart
  <1>3. ODR["x"] = "ODR_XL" /\ "x" \in Sensors
    BY DEF ODR, Sensors
  <1>4. \A f \in Own(d) \cup {Switch(d)} : f \in Vital(d) /\ regs[f]
    BY DEF Active, Vital
  <1>5. PICK i \in DOMAIN Route[d] : Route[d][i] \in Vital(d) /\ regs[Route[d][i]]
    BY DEF Active, Vital
  <1>6. regs["ODR_XL"] # 0
    BY DEF Active
  <1>7. \/ regs'["ODR_XL"] = 0
        \/ \E f \in Own(d) \cup {Switch(d)} : ~regs'[f]
        \/ ~regs'[Route[d][i]]
    BY DEF Active
  <1> HIDE DEF w
  <1>8. CASE regs'["ODR_XL"] = 0
    <2>1. w = "ODR_XL" /\ step.to = 0
      BY <1>0, <1>2, <1>6, <1>8
    <2>2. step.do = "W"
      <3>1. CASE step.do # "W"
        <4>1. step.do = "set_odr"
          BY <3>1 DEF IsWrite, Writes
        <4>2. step.to \in Rates
          BY <1>0, <4>1 DEF Accesses
        <4> QED BY <2>1, <4>2, NumbersOfRates
      <3> QED BY <3>1
    <2>3. step.field = ODR["x"]
      BY <1>3, <2>1, <2>2 DEF w, Written
    <2>4. call = <<"enable", "x">> \/ call = <<"disable", "x">> \/ call[1] = "init"
      BY <1>0, <1>3, <2>2, <2>3, SwitchingNext
    <2>5. CASE call = <<"enable", "x">>
      <3>1. step.to = Rounded(_last_odr["x"])
        BY <1>0, <1>3, <2>5, SwitchingNext
      <3>2. step.to \in Rates
        BY <1>3, <3>1, LastOdrIsNumber, RoundedIsRate
      <3> QED BY <2>1, <3>2, NumbersOfRates
    <2>6. CASE call[1] = "init"
      BY <1>0, <2>6, CallIs DEF Calling
    <2> QED BY <2>4, <2>5, <2>6
  <1>9. ASSUME NEW f \in Vital(d), regs[f], ~regs'[f]
        PROVE  call[1] = "disable_detection" /\ Switch(call[2]) = Switch(d)
    <2>1. w = f /\ step.to # TRUE
      BY <1>0, <1>1, <1>9
    <2>2. SwitchAccess(step) /\ step.field = f
      BY <1>1, <2>1, SwitchWritten DEF w
    <2>3. step \in Elements(todo)
      BY StepShape
    <2> QED BY <2>1, <2>2, <2>3 DEF GroupInv, Calling
  <1>10. CASE \E f \in Own(d) \cup {Switch(d)} : ~regs'[f]
    BY <1>4, <1>9, <1>10
  <1>11. CASE ~regs'[Route[d][i]]
    BY <1>5, <1>9, <1>11
  <1> QED BY <1>7, <1>8, <1>10, <1>11

\* Nothing else silences a detection: not enabling another one, a change of a
\* rate, nor a failure on the way.
THEOREM SilencedByItsGroup == Spec => OnlyItsGroup
  <1>1. Init => RateInv /\ GroupInv
    <2>1. Init => GroupInv
      BY DEF Init, SensorInit, GroupInv, Elements
    <2> QED BY <2>1, RateInvInit DEF Init
  <1>2. ASSUME TypeOK, RateInv, GroupInv, [Next]_vars
        PROVE  [\A d \in Detections :
                  Active(d) /\ ~Active(d)' =>
                      \/ call = <<"init">> \/ call = <<"disable", "x">>
                      \/ call[1] = "disable_detection" /\ Switch(call[2]) = Switch(d)]_vars
    <2> SUFFICES ASSUME NEW d \in Detections, Active(d), ~Active(d)'
                 PROVE  \/ call = <<"init">> \/ call = <<"disable", "x">>
                        \/ call[1] = "disable_detection" /\ Switch(call[2]) = Switch(d)
      OBVIOUS
    <2>1. regs' # regs
      BY DEF Active
    <2>2. Running /\ (\/ IsWrite /\ Arrives
                      \/ regs' = [regs EXCEPT !["PEDO_THS"] = step.thr])
      BY <1>2, <2>1 DEF Next, Call, Step, Write, WriteFails, SetLastOdr, ReadOdr, ReadOdrFails,
         PageStep, Return, Reset, NewObject, device, vars, sensorVars
    <2>3. CASE IsWrite /\ Arrives
      BY <1>2, <2>2, <2>3, ArrivesInGroup DEF TypeOK
    <2>4. CASE regs' = [regs EXCEPT !["PEDO_THS"] = step.thr]
      <3>1. \A f \in Switches \cup {"ODR_XL"} : regs'[f] = regs[f]
        <4>1. "PEDO_THS" \notin Switches
          BY NumbersAre, FieldsApart
        <4>2. \A f \in Switches \cup {"ODR_XL"} : f \in DOMAIN regs
          BY <1>2, NumbersAre DEF TypeOK, SensorTypeOK
        <4> QED BY <2>4, <4>1, <4>2
      <3>2. \A f \in Vital(d) : f \in Switches
        BY GroupsApart
      <3>3. Active(d)'
        <4>1. regs'["ODR_XL"] # 0
          BY <3>1 DEF Active
        <4>2. \A f \in Own(d) \cup {Switch(d)} : regs'[f]
          BY <3>1, <3>2 DEF Active, Vital
        <4>3. \E i \in DOMAIN Route[d] : regs'[Route[d][i]]
          BY <3>1, <3>2 DEF Active, Vital
        <4> QED BY <4>1, <4>2, <4>3 DEF Active
      <3> QED BY <3>3
    <2> QED BY <2>2, <2>3, <2>4
  <1> QED BY <1>1, <1>2, RateInvNext, GroupInvNext, UseTypeCorrect, PTL DEF Spec, OnlyItsGroup


------------------------------------------------------------------------------
(* The accelerometer as App uses it: types and the calls.                   *)

\* The calls of each part of the program, of which plan are the last.
MadeIn(part, thr) ==
  CASE part = "start" -> AccInit \o AccDisableInt
    [] part = "sleep" -> AccDeinit
    [] part = "arm" -> AccEnableInt(thr)
    [] OTHER -> <<>>

Made == MadeIn(phase, threshold)

PlanInv ==
  /\ plan \in Seq(Calls) /\ Len(plan) <= Len(Made)
  /\ \A i \in 1 .. Len(plan) : plan[i] = Made[Len(Made) - Len(plan) + i]
  /\ call # <<>> => Len(plan) < Len(Made) /\ call = Made[Len(Made) - Len(plan)]
  /\ phase = "sleep" => state = "SLEEP"
  /\ phase \in {"arm", "write"} => state = "CHECKINGMOTION"

\* App's calls are calls of the class.
LEMMA AppCallsAre ==
  /\ {<<"init">>, <<"enable", "x">>, <<"enable_temp">>, <<"disable", "g">>, <<"disable", "x">>,
      <<"set_odr", "x", 26>>} \subseteq Calls
  /\ \A d \in {"tilt", "free_fall", "wake_up"} : <<"disable_detection", d>> \in Calls
  /\ <<"enable_detection", "wake_up", 1>> \in Calls
  /\ \A thr \in Nat : <<"set_threshold", "wake_up", thr>> \in Calls
  <1>1. /\ <<"init">> \in Calls /\ <<"enable_temp">> \in Calls
        /\ <<"enable", "x">> \in Calls /\ <<"disable", "g">> \in Calls /\ <<"disable", "x">> \in Calls
    BY DEF Calls, Sensors
  <1>2. <<"set_odr", "x", 26>> \in Calls
    BY DEF Calls, Sensors
  <1>3. \A d \in {"tilt", "free_fall", "wake_up"} : <<"disable_detection", d>> \in Calls
    BY RoutesAre DEF Calls
  <1>4. <<"enable_detection", "wake_up", 1>> \in Calls
    BY RoutesAre DEF Calls, Pins
  <1>5. \A thr \in Nat : <<"set_threshold", "wake_up", thr>> \in Calls
    <2>1. "wake_up" \in DOMAIN Threshold \cup {"pedometer"}
      BY DEF Threshold
    <2> QED BY <2>1 DEF Calls
  <1> QED BY <1>1, <1>2, <1>3, <1>4, <1>5

\* The calls one by one.
LEMMA MadeIs ==
  ASSUME NEW part, NEW thr \in Nat, NEW made, made = MadeIn(part, thr)
  PROVE  /\ made \in Seq(Calls)
         /\ part = "start" =>
               /\ Len(made) = 8
               /\ made[1] = <<"init">> /\ made[2] = <<"enable", "x">> /\ made[3] = <<"enable_temp">>
               /\ made[4] = <<"disable_detection", "tilt">>
               /\ made[5] = <<"disable_detection", "free_fall">>
               /\ made[6] = <<"disable_detection", "wake_up">>
               /\ made[7] = <<"disable_detection", "tilt">>
               /\ made[8] = <<"disable_detection", "free_fall">>
         /\ part = "sleep" =>
               Len(made) = 2 /\ made[1] = <<"disable", "g">> /\ made[2] = <<"disable", "x">>
         /\ part = "arm" =>
               /\ Len(made) = 3 /\ made[1] = <<"enable_detection", "wake_up", 1>>
               /\ made[2] = <<"set_threshold", "wake_up", thr>>
               /\ made[3] = <<"set_odr", "x", 26>>
         /\ part \notin {"start", "sleep", "arm"} => made = <<>> /\ Len(made) = 0
  <1>1. CASE part = "start"
    <2> DEFINE s == AccInit
               t == AccDisableInt
    <2>1. /\ s \in Seq(Calls) /\ Len(s) = 5
          /\ s[1] = <<"init">> /\ s[2] = <<"enable", "x">> /\ s[3] = <<"enable_temp">>
          /\ s[4] = <<"disable_detection", "tilt">> /\ s[5] = <<"disable_detection", "free_fall">>
      BY AppCallsAre, TypedOf DEF AccInit
    <2>2. /\ t \in Seq(Calls) /\ Len(t) = 3
          /\ t[1] = <<"disable_detection", "wake_up">> /\ t[2] = <<"disable_detection", "tilt">>
          /\ t[3] = <<"disable_detection", "free_fall">>
      BY AppCallsAre, TypedOf DEF AccDisableInt
    <2>3. made = s \o t
      BY <1>1 DEF MadeIn
    <2> HIDE DEF s, t
    <2>4. /\ s \o t \in Seq(Calls) /\ Len(s \o t) = Len(s) + Len(t)
          /\ \A i \in 1 .. Len(s) : (s \o t)[i] = s[i]
          /\ \A i \in 1 .. Len(t) : (s \o t)[Len(s) + i] = t[i]
      <3>1. s \in Seq(Calls) /\ t \in Seq(Calls)
        BY <2>1, <2>2
      <3> QED BY <3>1, ConcatProperties
    <2> DEFINE st == s \o t
    <2>5. /\ st \in Seq(Calls) /\ Len(st) = 8
          /\ \A i \in 1 .. 5 : st[i] = s[i]
          /\ \A i \in 1 .. 3 : st[5 + i] = t[i]
      BY <2>1, <2>2, <2>4
    <2> HIDE DEF st
    <2>6. /\ st[1] = s[1] /\ st[2] = s[2] /\ st[3] = s[3] /\ st[4] = s[4] /\ st[5] = s[5]
      BY <2>5
    <2>7. /\ st[6] = t[1] /\ st[7] = t[2] /\ st[8] = t[3]
      <3>1. st[5 + 1] = t[1] /\ st[5 + 2] = t[2] /\ st[5 + 3] = t[3]
        BY <2>5
      <3> QED BY <3>1
    <2> QED BY <1>1, <2>1, <2>2, <2>3, <2>5, <2>6, <2>7 DEF st
  <1>2. CASE part = "sleep"
    <2> DEFINE a == <<"disable", "g">>
               b == <<"disable", "x">>
    <2>1. made = <<a, b>>
      BY <1>2 DEF MadeIn, AccDeinit
    <2>2. a \in Calls /\ b \in Calls
      BY AppCallsAre
    <2> HIDE DEF a, b
    <2>3. made \in Seq(Calls) /\ Len(made) = 2 /\ made[1] = a /\ made[2] = b
      BY <2>1, <2>2, TypedOf
    <2> QED BY <1>2, <2>3 DEF a, b
  <1>3. CASE part = "arm"
    <2> DEFINE a == <<"enable_detection", "wake_up", 1>>
               b == <<"set_threshold", "wake_up", thr>>
               c == <<"set_odr", "x", 26>>
    <2>1. made = <<a, b, c>>
      BY <1>3 DEF MadeIn, AccEnableInt
    <2>2. a \in Calls /\ b \in Calls /\ c \in Calls
      BY AppCallsAre
    <2> HIDE DEF a, b, c
    <2>3. made \in Seq(Calls) /\ Len(made) = 3 /\ made[1] = a /\ made[2] = b /\ made[3] = c
      BY <2>1, <2>2, TypedOf
    <2> QED BY <1>3, <2>3 DEF a, b, c
  <1>4. CASE part \notin {"start", "sleep", "arm"}
    <2>1. made = <<>>
      BY <1>4 DEF MadeIn
    <2> QED BY <1>4, <2>1, EmptySeq
  <1> QED BY <1>1, <1>2, <1>3, <1>4

\* A plan that has all its calls still to make.
LEMMA AllToMake ==
  ASSUME NEW p \in Seq(Calls)
  PROVE  Len(p) <= Len(p) /\ \A i \in 1 .. Len(p) : p[i] = p[Len(p) - Len(p) + i]
  <1> DEFINE n == Len(p)
  <1>1. n \in Nat
    BY LenProperties
  <1> HIDE DEF n
  <1>2. n <= n /\ \A i \in 1 .. n : n - n + i = i
    BY <1>1
  <1> QED BY <1>2 DEF n

\* The threshold of the configuration is a number.
LEMMA ThresholdIsNumber ==
  ASSUME AppTypeOK
  PROVE  threshold \in Nat
  <1>1. Thresholds \subseteq Nat
    BY ThresholdAssumption
  <1> QED BY <1>1 DEF AppTypeOK

\* The next call is made.
LEMMA Advance ==
  ASSUME AppTypeOK, PlanInv, NextCall
  PROVE  /\ Head(plan) \in Calls /\ Call(Head(plan)) /\ call = <<>>
         /\ phase \in {"start", "sleep", "arm"} /\ phase' = phase
         /\ Made' = Made /\ Len(plan) \in 1 .. Len(Made) /\ Len(plan') = Len(plan) - 1
         /\ call' = Made[Len(Made) - Len(plan) + 1] /\ call' # <<>>
         /\ PlanInv'
  <1>0. /\ Call(Head(plan)) /\ plan' = Tail(plan) /\ plan # <<>> /\ call = <<>>
        /\ call' = Head(plan) /\ phase' = phase /\ state' = state /\ threshold' = threshold
    BY DEF NextCall, Call
  <1>1. /\ plan \in Seq(Calls) /\ Made \in Seq(Calls)
    BY MadeIs, ThresholdIsNumber DEF PlanInv, Made
  <1> DEFINE n == Len(plan)
             m == Len(Made)
             rest == Tail(plan)
  <1>2. /\ n \in Nat /\ n # 0 /\ m \in Nat /\ n <= m
        /\ Head(plan) \in Calls /\ Head(plan) = plan[1]
        /\ rest \in Seq(Calls) /\ Len(rest) = n - 1 /\ \A i \in 1 .. n - 1 : rest[i] = plan[i + 1]
    <2>1. Len(plan) # 0
      BY <1>0, <1>1, EmptySeq
    <2> QED BY <1>0, <1>1, <2>1, HeadTailProperties, LenProperties DEF PlanInv
  <1>3. Made' = Made
    BY <1>0 DEF Made
  <1>4. phase \in {"start", "sleep", "arm"}
    BY <1>0 DEF AppTypeOK, Phases
  <1>5. plan[1] = Made[m - n + 1] /\ \A i \in 1 .. n : plan[i] = Made[m - n + i]
    BY <1>2 DEF PlanInv
  <1>6. rest = plan'
    BY <1>0
  <1> HIDE DEF rest
  <1>7. \A i \in 1 .. n - 1 : rest[i] = Made[m - (n - 1) + i]
    <2> TAKE i \in 1 .. n - 1
    <2>1. i + 1 \in 1 .. n /\ m - n + (i + 1) = m - (n - 1) + i
      BY <1>2
    <2>2. rest[i] = plan[i + 1] /\ plan[i + 1] = Made[m - n + (i + 1)]
      BY <1>2, <1>5, <2>1
    <2> QED BY <2>1, <2>2
  <1>8. m - n + 1 = m - (n - 1)
    BY <1>2
  <1>9. call' = Made[m - (n - 1)] /\ n - 1 < m /\ n - 1 <= m
    BY <1>0, <1>2, <1>5, <1>8
  <1>10. call' # <<>>
    BY <1>0, <1>2, CallShape
  <1> HIDE DEF n, m
  <1>11. /\ plan' \in Seq(Calls) /\ Len(plan') = n - 1 /\ Len(Made') = m
         /\ \A i \in 1 .. n - 1 : plan'[i] = Made'[m - (n - 1) + i]
         /\ call' = Made'[m - (n - 1)]
    BY <1>2, <1>3, <1>6, <1>7, <1>9 DEF m
  <1>12. PlanInv'
    BY <1>0, <1>9, <1>11 DEF PlanInv
  <1>13. n \in 1 .. m
    BY <1>2
  <1> QED BY <1>0, <1>2, <1>3, <1>4, <1>5, <1>6, <1>10, <1>12, <1>13 DEF n, m

\* How App's steps look to the sensor.
LEMMA AppSteps ==
  ASSUME AppTypeOK, PlanInv, [AppNext]_allVars
  PROVE  \/ NextCall
         \/ Step /\ UNCHANGED appVars
         \/ Return /\ UNCHANGED appVars
         \/ NewObject /\ Start /\ faults' \in {faults, faults + 1} /\ faults' \in 0 .. MaxFaults
         \/ /\ UNCHANGED <<device, object, astray, asked, sure, before>>
            /\ faults' \in {faults, faults + 1} /\ faults' \in 0 .. MaxFaults
            /\ \/ Started \/ Decide \/ SleepEnds \/ ReadReg \/ WriteReg \/ WriteRegFails \/ StandBy
               \/ UNCHANGED allVars
  <1>0. faults \in 0 .. MaxFaults /\ MaxFaults \in Nat
    BY MaxFaultsAssumption DEF AppTypeOK, SensorTypeOK
  <1>1. CASE NextCall
    BY <1>1
  <1>2. CASE InCall
    BY <1>2 DEF InCall
  <1>3. CASE WakeUp \/ WatchdogReset
    BY <1>0, <1>3 DEF WakeUp, WatchdogReset, Reset
  <1>4. CASE Started \/ Decide \/ SleepEnds \/ WriteReg \/ StandBy \/ UNCHANGED allVars
    BY <1>0, <1>4 DEF Started, Decide, SleepEnds, WriteReg, StandBy, allVars, sensorVars, appVars
  <1>5. CASE ReadReg
    BY <1>0, <1>5 DEF ReadReg
  <1>6. CASE WriteRegFails
    BY <1>0, <1>6 DEF WriteRegFails
  <1> QED BY <1>1, <1>2, <1>3, <1>4, <1>5, <1>6 DEF AppNext

\* App's own steps keep the sensor's types.
LEMMA QuietTypes ==
  ASSUME SensorTypeOK, UNCHANGED <<device, object, astray, asked, sure>>, faults' \in 0 .. MaxFaults
  PROVE  SensorTypeOK'
  BY DEF SensorTypeOK, device, object

\* Where a part of the program begins or ends, all its calls are to be made or
\* there are none.
LEMMA NewPlan ==
  ASSUME plan' = Made', call' = <<>>, threshold' \in Nat,
         phase' = "sleep" => state' = "SLEEP",
         phase' \in {"arm", "write"} => state' = "CHECKINGMOTION"
  PROVE  PlanInv'
  <1>1. Made' \in Seq(Calls)
    BY MadeIs DEF Made
  <1>2. /\ Len(Made') <= Len(Made')
        /\ \A i \in 1 .. Len(Made') : Made'[i] = Made'[Len(Made') - Len(Made') + i]
    BY <1>1, AllToMake
  <1> DEFINE m == Made'
  <1> HIDE DEF m
  <1>3. plan' = m /\ m \in Seq(Calls) /\ Len(m) <= Len(m)
        /\ \A i \in 1 .. Len(m) : m[i] = m[Len(m) - Len(m) + i]
    BY <1>1, <1>2 DEF m
  <1> QED BY <1>3 DEF PlanInv, m

\* The types, and which calls are left, are inductive.
LEMMA AppTypes ==
  ASSUME AppTypeOK, PlanInv, [AppNext]_allVars
  PROVE  AppTypeOK' /\ PlanInv'
  <1>0. threshold \in Nat /\ before \in Nat /\ faults \in 0 .. MaxFaults /\ MaxFaults \in Nat
    BY ThresholdIsNumber, MaxFaultsAssumption DEF AppTypeOK, SensorTypeOK
  <1>1. CASE NextCall
    <2>1. SensorTypeOK'
      BY <1>1, Advance, CallTypes DEF AppTypeOK
    <2>2. faults' = faults /\ phase \in {"start", "sleep", "arm"}
      BY <1>1, Advance DEF Call
    <2> QED BY <1>1, <2>1, <2>2, Advance DEF AppTypeOK, NextCall
  <1>2. CASE Step /\ UNCHANGED appVars
    <2>1. SensorTypeOK' /\ call # <<>> /\ call' = call
      BY <1>2, StepTypes DEF AppTypeOK, Step, Write, WriteFails, SetLastOdr, ReadOdr, ReadOdrFails,
         PageStep, SensorTypeOK, Running
    <2>2. faults' \in {faults, faults + 1}
      BY <1>2 DEF Step, Write, WriteFails, SetLastOdr, ReadOdr, ReadOdrFails, PageStep
    <2>3. before \in 0 .. faults'
      BY <1>0, <2>2 DEF AppTypeOK
    <2>4. Made' = Made
      BY <1>2 DEF Made, appVars
    <2> QED BY <1>2, <2>1, <2>3, <2>4 DEF AppTypeOK, PlanInv, appVars
  <1>3. CASE Return /\ UNCHANGED appVars
    <2>1. SensorTypeOK' /\ call' = <<>> /\ faults' = faults
      BY <1>3, ReturnTypes DEF AppTypeOK, Return
    <2>2. Made' = Made
      BY <1>3 DEF Made, appVars
    <2> QED BY <1>3, <2>1, <2>2 DEF AppTypeOK, PlanInv, appVars
  <1>4. CASE NewObject /\ Start /\ faults' \in 0 .. MaxFaults
    <2>1. SensorTypeOK' /\ call' = <<>>
      BY <1>4, NewObjectTypes DEF AppTypeOK, NewObject
    <2>2. before' \in 0 .. faults'
      BY <1>4 DEF Start
    <2>3. AppTypeOK'
      BY <1>4, <2>1, <2>2 DEF AppTypeOK, Start, Phases
    <2>4. plan' = Made'
      BY <1>4 DEF Start, Made, MadeIn
    <2> QED BY <1>0, <1>4, <2>1, <2>3, <2>4, NewPlan DEF Start
  <1>5. CASE /\ UNCHANGED <<device, object, astray, asked, sure, before>>
             /\ faults' \in {faults, faults + 1} /\ faults' \in 0 .. MaxFaults
             /\ \/ Started \/ Decide \/ SleepEnds \/ ReadReg \/ WriteReg \/ WriteRegFails \/ StandBy
                \/ UNCHANGED allVars
    <2>1. SensorTypeOK'
      BY <1>5, QuietTypes DEF AppTypeOK
    <2>2. before' \in 0 .. faults'
      BY <1>0, <1>5 DEF AppTypeOK
    <2>3. call' = call
      BY <1>5 DEF object
    <2>4. CASE UNCHANGED allVars
      <3>1. Made' = Made
        BY <2>4 DEF Made, allVars, appVars
      <3> QED BY <2>1, <2>2, <2>3, <2>4, <3>1 DEF AppTypeOK, PlanInv, allVars, appVars
    <2>5. CASE Started \/ SleepEnds \/ ReadReg \/ WriteReg \/ WriteRegFails \/ StandBy
      <3>1. /\ phase' \in {"run", "write", "off", "standby"} /\ plan' = <<>> /\ call' = <<>>
            /\ state' = state /\ threshold' = threshold
            /\ phase' = "write" => phase = "arm"
        BY <2>3, <2>5 DEF Started, SleepEnds, ReadReg, WriteReg, WriteRegFails, StandBy, Finished,
           AppTypeOK
      <3>2. ctrl6_g' \subseteq Bits /\ tmp' \subseteq Bits
        BY <2>5 DEF Started, SleepEnds, ReadReg, WriteReg, WriteRegFails, StandBy, AppTypeOK, Bits,
           LowPower
      <3>3. plan' = Made'
        BY <3>1 DEF Made, MadeIn
      <3>4. PlanInv'
        BY <1>0, <3>1, <3>3, NewPlan DEF PlanInv
      <3> QED BY <2>1, <2>2, <3>1, <3>2, <3>4 DEF AppTypeOK, Phases
    <2>6. CASE Decide
      <3>1. /\ state' \in CHECK_STATES /\ threshold' \in Thresholds /\ call' = <<>>
            /\ \/ state' = "SLEEP" /\ phase' = "sleep" /\ plan' = AccDeinit
               \/ state' = "CHECKINGMOTION" /\ phase' = "arm" /\ plan' = AccEnableInt(threshold')
               \/ phase' = "off" /\ plan' = <<>>
        BY <2>3, <2>6 DEF Decide, AppTypeOK
      <3>2. plan' = Made'
        BY <3>1 DEF Made, MadeIn
      <3>3. threshold' \in Nat
        BY <3>1, ThresholdAssumption
      <3>4. PlanInv'
        BY <3>1, <3>2, <3>3, NewPlan
      <3> QED BY <2>1, <2>2, <2>6, <3>1, <3>4 DEF AppTypeOK, Phases, Decide
    <2> QED BY <1>5, <2>4, <2>5, <2>6
  <1> QED BY <1>1, <1>2, <1>3, <1>4, <1>5, AppSteps

\* They hold at the start.
LEMMA AppTypesInit ==
  ASSUME AppInit
  PROVE  AppTypeOK /\ PlanInv
  <1>1. SensorTypeOK /\ call = <<>> /\ threshold \in Nat
    <2>1. Thresholds \subseteq Nat
      BY ThresholdAssumption
    <2> QED BY <2>1, SensorTypesInit DEF AppInit, SensorInit
  <1>2. plan = Made
    BY DEF AppInit, Made, MadeIn
  <1>3. Made \in Seq(Calls)
    BY <1>1, MadeIs DEF Made
  <1>4. PlanInv
    BY <1>1, <1>2, <1>3, AllToMake DEF AppInit, PlanInv
  <1>5. before \in 0 .. faults
    BY <1>1 DEF AppInit, SensorTypeOK
  <1> QED BY <1>1, <1>4, <1>5 DEF AppInit, AppTypeOK, Phases, CHECK_STATES

\* However App calls the sensor and whatever fails, registers, object and App's
\* own variables keep their types, and App is in no call where it makes none.
THEOREM AppTypeCorrect == AppSpec => []AppTypeOK
  <1>1. AppSpec => [](AppTypeOK /\ PlanInv)
    BY AppTypesInit, AppTypes, PTL DEF AppSpec
  <1> QED BY <1>1, PTL

------------------------------------------------------------------------------
(* The accelerometer as App uses it: what is left to do.                    *)

\* Which call is made when so many are left.
LEMMA CallNow ==
  ASSUME AppTypeOK, PlanInv, call # <<>>
  PROVE  /\ Len(plan) \in Nat /\ phase \in {"start", "sleep", "arm"}
         /\ phase = "start" =>
               /\ Len(plan) \in 0 .. 7
               /\ Len(plan) = 7 => call = <<"init">>
               /\ Len(plan) = 6 => call = <<"enable", "x">>
               /\ Len(plan) = 5 => call = <<"enable_temp">>
               /\ Len(plan) \in {4, 1} => call = <<"disable_detection", "tilt">>
               /\ Len(plan) \in {3, 0} => call = <<"disable_detection", "free_fall">>
               /\ Len(plan) = 2 => call = <<"disable_detection", "wake_up">>
         /\ phase = "sleep" =>
               /\ Len(plan) \in 0 .. 1
               /\ Len(plan) = 1 => call = <<"disable", "g">>
               /\ Len(plan) = 0 => call = <<"disable", "x">>
         /\ phase = "arm" =>
               /\ Len(plan) \in 0 .. 2
               /\ Len(plan) = 2 => call = <<"enable_detection", "wake_up", 1>>
               /\ Len(plan) = 1 => call = <<"set_threshold", "wake_up", threshold>>
               /\ Len(plan) = 0 => call = <<"set_odr", "x", 26>>
  <1> DEFINE n == Len(plan)
             m == Len(Made)
  <1>1. n \in Nat
    BY LenProperties DEF PlanInv
  <1>2. phase \in {"start", "sleep", "arm"}
    BY DEF AppTypeOK, Phases
  <1>3. n < m /\ call = Made[m - n]
    BY DEF PlanInv
  <1>4. threshold \in Nat /\ Made = MadeIn(phase, threshold)
    BY ThresholdIsNumber DEF Made
  <1> HIDE DEF n, m
  <1>5. CASE phase = "start"
    <2>1. m = 8
      BY <1>4, <1>5, MadeIs DEF m
    <2>2. n \in 0 .. 7 /\ call = Made[8 - n]
      BY <1>1, <1>3, <2>1
    <2>3. /\ n = 7 => call = Made[1]
          /\ n = 6 => call = Made[2]
          /\ n = 5 => call = Made[3]
          /\ n = 4 => call = Made[4]
          /\ n = 3 => call = Made[5]
          /\ n = 2 => call = Made[6]
          /\ n = 1 => call = Made[7]
          /\ n = 0 => call = Made[8]
      BY <2>2
    <2>5. /\ Made[1] = <<"init">> /\ Made[2] = <<"enable", "x">> /\ Made[3] = <<"enable_temp">>
          /\ Made[4] = <<"disable_detection", "tilt">>
          /\ Made[5] = <<"disable_detection", "free_fall">>
          /\ Made[6] = <<"disable_detection", "wake_up">>
          /\ Made[7] = <<"disable_detection", "tilt">>
          /\ Made[8] = <<"disable_detection", "free_fall">>
      BY <1>4, <1>5, MadeIs
    <2>4. /\ n = 7 => call = <<"init">>
          /\ n = 6 => call = <<"enable", "x">>
          /\ n = 5 => call = <<"enable_temp">>
          /\ n \in {4, 1} => call = <<"disable_detection", "tilt">>
          /\ n \in {3, 0} => call = <<"disable_detection", "free_fall">>
          /\ n = 2 => call = <<"disable_detection", "wake_up">>
      BY <2>3, <2>5
    <2> QED BY <1>1, <1>5, <2>2, <2>4 DEF n
  <1>6. CASE phase = "sleep"
    <2>1. m = 2
      BY <1>4, <1>6, MadeIs DEF m
    <2>2. n \in 0 .. 1 /\ call = Made[2 - n]
      BY <1>1, <1>3, <2>1
    <2>3. (n = 1 => call = Made[1]) /\ (n = 0 => call = Made[2])
      BY <2>2
    <2>4. (n = 1 => call = <<"disable", "g">>) /\ (n = 0 => call = <<"disable", "x">>)
      BY <1>4, <1>6, <2>3, MadeIs
    <2> QED BY <1>1, <1>6, <2>2, <2>4 DEF n
  <1>7. CASE phase = "arm"
    <2>1. m = 3
      BY <1>4, <1>7, MadeIs DEF m
    <2>2. n \in 0 .. 2 /\ call = Made[3 - n]
      BY <1>1, <1>3, <2>1
    <2>3. (n = 2 => call = Made[1]) /\ (n = 1 => call = Made[2]) /\ (n = 0 => call = Made[3])
      BY <2>2
    <2>4. /\ n = 2 => call = <<"enable_detection", "wake_up", 1>>
          /\ n = 1 => call = <<"set_threshold", "wake_up", threshold>>
          /\ n = 0 => call = <<"set_odr", "x", 26>>
      BY <1>4, <1>7, <2>3, MadeIs
    <2> QED BY <1>1, <1>7, <2>2, <2>4 DEF n
  <1> QED BY <1>2, <1>5, <1>6, <1>7

\* The two invariants of the sensor hold of App's use of it as well.
LEMMA AppRates ==
  ASSUME AppTypeOK, PlanInv, RateInv, EnableInv, [AppNext]_allVars
  PROVE  RateInv' /\ EnableInv'
  <1>1. CASE NextCall
    BY <1>1, Advance, CallKeeps, CallEnables DEF AppTypeOK
  <1>2. CASE Step
    BY <1>2, StepKeeps, StepEnables DEF AppTypeOK
  <1>3. CASE Return
    <2>1. call' = <<>>
      BY <1>3 DEF Return
    <2> QED BY <1>3, <2>1, ReturnKeeps DEF AppTypeOK, EnableInv, Calling
  <1>4. CASE NewObject
    <2>1. call' = <<>>
      BY <1>4 DEF NewObject
    <2> QED BY <1>4, <2>1, NewObjectKeeps DEF EnableInv, Calling
  <1>5. CASE UNCHANGED <<device, object, astray, asked, sure>>
    <2>1. RateInv'
      BY <1>5 DEF RateInv, TodoShape, InitSets, EndsAtError, Calling, Elements, Kept, Done, Stored,
         device, object
    <2>2. EnableInv'
      BY <1>5 DEF EnableInv, Calling, Elements, PagesFirst, device, object
    <2> QED BY <2>1, <2>2
  <1> QED BY <1>1, <1>2, <1>3, <1>4, <1>5, AppSteps

\* Enabling or disabling a detection but the pedometer opens no page; disabling
\* one clears switches only, and the interrupts with those that share them.
LEMMA DetectionAccesses ==
  ASSUME NEW d \in Detections \ {"pedometer"}
  PROVE  /\ \A pin \in Pins : \A a \in Elements(enable_detection(d, pin)) : ~PageAccess(a)
         /\ \A a \in Elements(disable_detection(d)) :
               ~PageAccess(a) /\ (SwitchAccess(a) => a.to = FALSE)
         /\ d \in {"free_fall", "wake_up"} =>
               W("BASIC_INT", FALSE) \in Elements(disable_detection(d))
  <1>1. ASSUME NEW pin \in Pins, NEW a \in Elements(enable_detection(d, pin))
        PROVE  ~PageAccess(a)
    <2>1. PICK A : /\ Makes(enable_detection(d, pin), A)
                   /\ \A b \in A : \E f \in Switches : b = W(f, TRUE)
                   /\ \A f \in Needed(d, pin) : W(f, TRUE) \in A
      BY EnablingMakes
    <2>2. a \in Quiet \/ \E f \in Switches : a = W(f, TRUE)
      BY <1>1, <2>1 DEF Makes
    <2> QED BY <2>2 DEF Quiet, PageAccess, W
  <1>2. ASSUME NEW a \in Elements(disable_detection(d))
        PROVE  ~PageAccess(a) /\ (SwitchAccess(a) => a.to = FALSE)
    <2>1. PICK A : Makes(disable_detection(d), A) /\ \A b \in A : OfGroup(b, d)
      BY DisablingMakes
    <2>2. a \in Quiet \/ \E f \in Switches : a = W(f, FALSE)
      BY <1>2, <2>1 DEF Makes, OfGroup
    <2> QED BY <2>2 DEF Quiet, PageAccess, W
  <1>3. CASE d = "free_fall"
    <2>1. W("BASIC_INT", FALSE) \in Elements(disable_free_fall_detection)
      BY MakesDisableFreeFall DEF Makes
    <2> QED BY <1>1, <1>2, <1>3, <2>1 DEF disable_detection
  <1>4. CASE d = "wake_up"
    <2>1. W("BASIC_INT", FALSE) \in Elements(disable_wake_up_detection)
      BY MakesDisableWakeUp DEF Makes
    <2> QED BY <1>1, <1>2, <1>4, <2>1 DEF disable_detection
  <1> QED BY <1>1, <1>2, <1>3, <1>4

\* Switching a sensor on or off accesses its rate.
LEMMA SwitchingAccesses ==
  ASSUME NEW s \in Sensors, NEW a \in Elements(enable(s)) \cup Elements(disable(s))
  PROVE  ~PageAccess(a) /\ ~SwitchAccess(a)
  <1>1. a \in {W(ODR[s], Rounded(_last_odr[s])), GetOdr(s), W(ODR[s], 0)}
    BY ElementsOf, ElementsEmpty DEF enable, disable
  <1>2. \A v : ~SwitchAccess(W(ODR[s], v)) /\ ~PageAccess(W(ODR[s], v))
    BY FieldsApart DEF SwitchAccess, PageAccess, W, RateFields
  <1>3. ~SwitchAccess(GetOdr(s)) /\ ~PageAccess(GetOdr(s))
    BY DEF SwitchAccess, PageAccess, GetOdr
  <1> QED BY <1>1, <1>2, <1>3

\* No call of App's opens the second page, and while the program starts they
\* only switch the interrupts off.
AppTodo ==
  /\ page = "main" /\ ~astray
  /\ \A a \in Elements(todo) :
        /\ ~PageAccess(a)
        /\ phase = "start" /\ SwitchAccess(a) /\ a.field = "BASIC_INT" => a.to = FALSE
        /\ Calling("set_threshold") => a = W("WK_THS", threshold)
        /\ Calling("set_odr") => a = SetOdr("x", 26)

\* What App's next call has to do.
LEMMA AppTodoCalled ==
  ASSUME AppTypeOK, PlanInv, AppTodo, NextCall
  PROVE  AppTodo'
  <1> DEFINE c == Head(plan)
  <1>0. /\ Call(c) /\ call' = c /\ c # <<>> /\ c = Made[Len(Made) - Len(plan) + 1]
        /\ phase \in {"start", "sleep", "arm"} /\ phase' = phase /\ threshold' = threshold
        /\ Len(plan) \in 1 .. Len(Made)
    BY Advance DEF Call, NextCall
  <1>1. page' = page /\ astray' = (page # "main") /\ todo' = Function(c)
    BY <1>0 DEF Call, device
  <1>2. threshold \in Nat /\ Made = MadeIn(phase, threshold)
    BY ThresholdIsNumber DEF Made
  <1> DEFINE k == Len(Made) - Len(plan) + 1
  <1>3. c = Made[k] /\ k \in 1 .. Len(Made)
    BY <1>0
  <1> HIDE DEF c, k
  <1>10. Elements(todo)' = Elements(Function(c)) /\ \A f : Calling(f)' <=> c[1] = f
    BY <1>0, <1>1 DEF Elements, Calling
  <1>11. page' = "main" /\ ~astray'
    BY <1>1 DEF AppTodo
  <1> SUFFICES ASSUME NEW a \in Elements(Function(c))
               PROVE  /\ ~PageAccess(a)
                      /\ phase = "start" /\ SwitchAccess(a) /\ a.field = "BASIC_INT" =>
                            a.to = FALSE
                      /\ c[1] = "set_threshold" => a = W("WK_THS", threshold)
                      /\ c[1] = "set_odr" => a = SetOdr("x", 26)
    BY <1>0, <1>10, <1>11 DEF AppTodo
  <1>4. CASE phase = "start"
    <2>1. k \in 1 .. 8 /\ Made[1] = <<"init">> /\ Made[2] = <<"enable", "x">>
          /\ Made[3] = <<"enable_temp">> /\ Made[4] = <<"disable_detection", "tilt">>
          /\ Made[5] = <<"disable_detection", "free_fall">>
          /\ Made[6] = <<"disable_detection", "wake_up">>
          /\ Made[7] = <<"disable_detection", "tilt">>
          /\ Made[8] = <<"disable_detection", "free_fall">>
      <3>1. Len(Made) = 8
        BY <1>2, <1>4, MadeIs
      <3> QED BY <1>2, <1>3, <1>4, <3>1, MadeIs
    <2>2. \/ c = <<"init">> \/ c = <<"enable", "x">> \/ c = <<"enable_temp">>
          \/ \E d \in {"tilt", "free_fall", "wake_up"} : c = <<"disable_detection", d>>
      BY <1>3, <2>1
    <2>3. CASE c = <<"init">>
      <3>1. Function(c) = init
        BY <2>3 DEF Function
      <3> QED BY <2>3, <3>1, InitMakes DEF PageAccess
    <2>4. CASE c = <<"enable", "x">>
      <3>1. Function(c) = enable("x")
        BY <2>4 DEF Function
      <3> QED BY <2>4, <3>1, SwitchingAccesses DEF Sensors
    <2>5. CASE c = <<"enable_temp">>
      <3>1. Function(c) = enable_temp
        BY <2>5 DEF Function
      <3>2. a = W("DRDY_TEMP_on_INT2", TRUE)
        BY <3>1, ElementsOf DEF enable_temp
      <3> QED BY <2>5, <3>2 DEF W, PageAccess
    <2>6. CASE \E d \in {"tilt", "free_fall", "wake_up"} : c = <<"disable_detection", d>>
      <3>1. PICK d \in {"tilt", "free_fall", "wake_up"} : c = <<"disable_detection", d>>
        BY <2>6
      <3>2. Function(c) = disable_detection(d) /\ d \in Detections \ {"pedometer"}
        BY <3>1, RoutesAre DEF Function
      <3> QED BY <3>1, <3>2, DetectionAccesses
    <2> QED BY <2>2, <2>3, <2>4, <2>5, <2>6
  <1>5. CASE phase = "sleep"
    <2>1. k \in 1 .. 2 /\ Made[1] = <<"disable", "g">> /\ Made[2] = <<"disable", "x">>
      BY <1>2, <1>3, <1>5, MadeIs
    <2>2. PICK s \in Sensors : c = <<"disable", s>>
      BY <1>3, <2>1 DEF Sensors
    <2>3. Function(c) = disable(s)
      BY <2>2 DEF Function
    <2> QED BY <1>5, <2>2, <2>3, SwitchingAccesses
  <1>6. CASE phase = "arm"
    <2>1. /\ k \in 1 .. 3 /\ Made[1] = <<"enable_detection", "wake_up", 1>>
          /\ Made[2] = <<"set_threshold", "wake_up", threshold>> /\ Made[3] = <<"set_odr", "x", 26>>
      BY <1>2, <1>3, <1>6, MadeIs
    <2>2. CASE c = <<"enable_detection", "wake_up", 1>>
      <3>1. Function(c) = enable_detection("wake_up", 1)
        BY <2>2 DEF Function
      <3>2. "wake_up" \in Detections \ {"pedometer"} /\ 1 \in Pins
        BY RoutesAre DEF Pins
      <3> QED BY <1>6, <2>2, <3>1, <3>2, DetectionAccesses
    <2>3. CASE c = <<"set_threshold", "wake_up", threshold>>
      <3>1. Function(c) = <<W("WK_THS", threshold)>>
        BY <2>3 DEF Function, set_threshold, Threshold
      <3>2. a = W("WK_THS", threshold)
        BY <3>1, ElementsOf
      <3> QED BY <1>6, <2>3, <3>2 DEF W, PageAccess
    <2>4. CASE c = <<"set_odr", "x", 26>>
      <3>1. Function(c) = <<SetOdr("x", 26)>>
        BY <2>4 DEF Function
      <3>2. a = SetOdr("x", 26)
        BY <3>1, ElementsOf
      <3> QED BY <1>6, <2>4, <3>2 DEF SetOdr, PageAccess
    <2>5. k = 1 \/ k = 2 \/ k = 3
      BY <2>1
    <2>6. c = Made[1] \/ c = Made[2] \/ c = Made[3]
      BY <1>3, <2>5
    <2> QED BY <2>1, <2>2, <2>3, <2>4, <2>6
  <1> QED BY <1>0, <1>4, <1>5, <1>6

\* What a step of a call of App's does: it makes the first access, or fails and
\* ends the call.
LEMMA StepOutcome ==
  ASSUME SensorTypeOK, RateInv, Step, page = "main", \A a \in Elements(todo) : ~PageAccess(a)
  PROVE  /\ Running /\ call # <<>> /\ call' = call /\ page' = page /\ astray' = astray
         /\ ~failed /\ faults \in Nat
         /\ Elements(todo) = {step} \cup Elements(Tail(todo))
         /\ \/ /\ todo' = Tail(todo) /\ Elements(todo)' = Elements(Tail(todo))
               /\ ~failed' /\ faults' = faults
               /\ Write \/ SetLastOdr \/ ReadOdr
            \/ /\ todo' = <<>> /\ Elements(todo)' = {}
               /\ failed' /\ faults' = faults + 1
         /\ \A f \in Switches \cup Numbers :
               regs'[f] = regs[f] \/ (IsWrite /\ f = Written /\ regs'[f] = step.to)
         /\ Write => IsWrite /\ regs'[Written] = step.to
  <1>0. /\ Running /\ call # <<>> /\ call' = call /\ astray' = astray /\ step \in Accesses
        /\ ~failed /\ faults \in Nat
        /\ Elements(todo) = {step} \cup Elements(Tail(todo))
    BY StepShape, MaxFaultsAssumption DEF Step, Write, WriteFails, SetLastOdr, ReadOdr,
       ReadOdrFails, PageStep, RateInv, EndsAtError, Running, SensorTypeOK
  <1>1. ~PageAccess(step)
    BY <1>0
  <1>2. ASSUME Arrives, IsWrite
        PROVE  /\ \A f \in Switches \cup Numbers :
                     regs'[f] = regs[f] \/ (f = Written /\ regs'[f] = step.to)
               /\ regs'[Written] = step.to
    BY <1>0, <1>2, ArrivesTypes
  <1>3. CASE Write
    <2>1. todo' = Tail(todo) /\ failed' = failed /\ faults' = faults /\ page' = page
      BY <1>3 DEF Write, Next1
    <2>2. Elements(todo)' = Elements(Tail(todo))
      BY <2>1 DEF Elements
    <2> QED BY <1>0, <1>2, <1>3, <2>1, <2>2 DEF Write
  <1>4. CASE WriteFails
    <2>1. todo' = <<>> /\ failed' = TRUE /\ faults' = faults + 1 /\ page' = page
      BY <1>4 DEF WriteFails
    <2>2. Elements(todo)' = {}
      BY <2>1 DEF Elements
    <2>3. ~Write
      BY <1>0, <2>1 DEF Write
    <2> QED BY <1>0, <1>2, <1>4, <2>1, <2>2, <2>3 DEF WriteFails
  <1>5. CASE SetLastOdr
    <2>1. todo' = Tail(todo) /\ failed' = failed /\ faults' = faults /\ page' = page /\ regs' = regs
      BY <1>5 DEF SetLastOdr, Next1, device
    <2>2. Elements(todo)' = Elements(Tail(todo)) /\ ~Write
      BY <1>5, <2>1 DEF Elements, Write, SetLastOdr
    <2> QED BY <1>0, <1>5, <2>1, <2>2
  <1>6. CASE ReadOdr
    <2>1. step.sensor \in Sensors
      BY <1>0, <1>6 DEF ReadOdr, Accesses
    <2>2. PICK rate \in {regs[ODR[step.sensor]]} :
             failed' = (rate = -1) /\ todo' = IF rate = -1 THEN <<>> ELSE Tail(todo)
      BY <1>6 DEF ReadOdr
    <2>3. rate \in Rates \cup {0}
      BY <2>1, <2>2 DEF SensorTypeOK
    <2>7. \A r \in Rates \cup {0} : r \in Nat
      BY NumbersOfRates
    <2>4. rate # -1
      <3>1. rate \in Nat
        BY <2>3, <2>7
      <3> QED BY <3>1
    <2>5. todo' = Tail(todo) /\ ~failed' /\ faults' = faults /\ page' = page /\ regs' = regs
      BY <1>6, <2>2, <2>4 DEF ReadOdr, device
    <2>6. Elements(todo)' = Elements(Tail(todo)) /\ ~Write
      BY <1>6, <2>5 DEF Elements, Write, IsWrite, Writes, ReadOdr
    <2> QED BY <1>0, <1>6, <2>5, <2>6
  <1>7. CASE ReadOdrFails
    <2>1. /\ todo' = <<>> /\ failed' = TRUE /\ faults' = faults + 1 /\ page' = page
          /\ regs' = regs
      BY <1>7 DEF ReadOdrFails, device
    <2>2. Elements(todo)' = {}
      BY <2>1 DEF Elements
    <2>3. ~Write
      BY <1>0, <2>1 DEF Write
    <2> QED BY <1>0, <2>1, <2>2, <2>3
  <1>8. ~PageStep
    BY <1>1 DEF PageStep, PageAccess
  <1> QED BY <1>3, <1>4, <1>5, <1>6, <1>7, <1>8 DEF Step

\* Where App's program moves on, no call is in progress.
LEMMA NoCallThere ==
  ASSUME AppTypeOK,
         Started \/ Decide \/ SleepEnds \/ ReadReg \/ WriteReg \/ WriteRegFails \/ StandBy
  PROVE  call = <<>> /\ todo = <<>> /\ plan = <<>> /\ Len(plan) = 0 /\ phase # "standby"
  BY EmptySeq DEF AppTypeOK, SensorTypeOK, Started, Decide, SleepEnds, ReadReg, WriteReg,
     WriteRegFails, StandBy, Finished

\* What App's calls have to do is inductive.
LEMMA AppTodoNext ==
  ASSUME AppTypeOK, PlanInv, RateInv, AppTodo, [AppNext]_allVars
  PROVE  AppTodo'
  <1>1. CASE NextCall
    BY <1>1, AppTodoCalled
  <1>2. CASE Step /\ UNCHANGED appVars
    <2>1. /\ call' = call /\ page' = page /\ astray' = astray
          /\ Elements(todo)' \subseteq Elements(todo)
      BY <1>2, StepOutcome DEF AppTypeOK, AppTodo
    <2>2. \A f : Calling(f)' <=> Calling(f)
      BY <2>1 DEF Calling
    <2> QED BY <1>2, <2>1, <2>2 DEF AppTodo, appVars
  <1>3. CASE Return \/ NewObject
    <2>1. todo' = <<>> /\ page' = page /\ astray' = FALSE
      BY <1>3 DEF Return, NewObject, Running, device
    <2>2. Elements(todo)' = {}
      BY <2>1 DEF Elements
    <2> QED BY <2>1, <2>2 DEF AppTodo
  <1>4. CASE /\ UNCHANGED <<device, object, astray>>
             /\ Started \/ Decide \/ SleepEnds \/ ReadReg \/ WriteReg \/ WriteRegFails \/ StandBy
    <2>1. todo' = <<>> /\ page' = page /\ astray' = astray
      BY <1>4, NoCallThere DEF device, object
    <2>2. Elements(todo)' = {}
      BY <2>1 DEF Elements
    <2> QED BY <2>1, <2>2 DEF AppTodo
  <1>5. CASE UNCHANGED allVars
    BY <1>5 DEF AppTodo, Elements, Calling, allVars, sensorVars, appVars, device, object
  <1> QED BY <1>1, <1>2, <1>3, <1>4, <1>5, AppSteps

------------------------------------------------------------------------------
(* The accelerometer as App uses it: silence.                               *)

\* How often the interrupts will still be switched off.
Left ==
  (IF Len(plan) >= 4 THEN 1 ELSE 0) + (IF Len(plan) >= 3 THEN 1 ELSE 0)
  + (IF Len(plan) >= 1 THEN 1 ELSE 0)

Pending == IF W("BASIC_INT", FALSE) \in Elements(todo) THEN 1 ELSE 0

\* Interrupts that are on survive the start of the program only if each of the
\* three attempts to switch them off fails.
SilentInv ==
  regs["BASIC_INT"] =>
    /\ phase = "start" => Failures + Left + Pending >= 3
    /\ phase \in {"run", "sleep"} \/ (phase \in {"off", "standby"} /\ state # "CHECKINGMOTION") =>
          Failures >= 3

\* Failures and attempts are counted by numbers.
LEMMA Counts ==
  ASSUME AppTypeOK, PlanInv
  PROVE  /\ Failures \in Nat /\ Left \in 0 .. 3 /\ Pending \in 0 .. 1 /\ Len(plan) \in Nat
         /\ faults \in Nat /\ before \in Nat /\ before <= faults
  <1>1. Len(plan) \in Nat
    BY LenProperties DEF PlanInv
  <1>2. faults \in Nat /\ before \in Nat /\ before <= faults
    BY MaxFaultsAssumption DEF AppTypeOK, SensorTypeOK
  <1>3. Failures \in Nat
    BY <1>2 DEF Failures
  <1>4. Left \in 0 .. 3
    BY <1>1 DEF Left
  <1>5. Pending \in 0 .. 1
    BY DEF Pending
  <1> QED BY <1>1, <1>2, <1>3, <1>4, <1>5

\* The switch of the interrupts.
LEMMA BasicInt ==
  /\ "BASIC_INT" \in Switches /\ SwitchAccess(W("BASIC_INT", FALSE))
  /\ W("BASIC_INT", FALSE).field = "BASIC_INT" /\ W("BASIC_INT", FALSE).to = FALSE
  /\ W("BASIC_INT", FALSE).do = "W"
  /\ \A s \in Sensors : ODR[s] # "BASIC_INT"
  BY SwitchSettings, FieldsApart DEF SwitchAccess, W, RateFields

\* An attempt to switch the interrupts off succeeds, or is a failure.
LEMMA SilentStep ==
  ASSUME AppTypeOK, PlanInv, RateInv, AppTodo, SilentInv, Step, UNCHANGED appVars
  PROVE  SilentInv'
  <1>0. /\ Running /\ call # <<>> /\ call' = call /\ faults \in Nat
        /\ Elements(todo) = {step} \cup Elements(Tail(todo))
        /\ \/ /\ Elements(todo)' = Elements(Tail(todo)) /\ faults' = faults
              /\ Write \/ SetLastOdr \/ ReadOdr
           \/ Elements(todo)' = {} /\ faults' = faults + 1
        /\ \A f \in Switches \cup Numbers :
              regs'[f] = regs[f] \/ (IsWrite /\ f = Written /\ regs'[f] = step.to)
        /\ Write => IsWrite /\ regs'[Written] = step.to
    BY StepOutcome DEF AppTypeOK, AppTodo
  <1>1. /\ phase' = phase /\ state' = state /\ before' = before /\ plan' = plan /\ Left' = Left
    BY DEF appVars, Left
  <1>2. phase \in {"start", "sleep", "arm"}
    BY <1>0, CallNow
  <1>3. CASE phase = "start"
    <2> SUFFICES ASSUME regs'["BASIC_INT"]
                 PROVE  (Failures + Left + Pending >= 3)'
      BY <1>1, <1>3 DEF SilentInv
    <2>1. IsWrite /\ Written = "BASIC_INT" => step.to = FALSE
      <3> HAVE IsWrite /\ Written = "BASIC_INT"
      <3>1. SwitchAccess(step) /\ step.field = "BASIC_INT"
        BY <1>0, BasicInt, SwitchWritten DEF AppTypeOK
      <3> QED BY <1>0, <1>3, <3>1 DEF AppTodo
    <2>2. regs["BASIC_INT"]
      BY <1>0, <2>1, BasicInt
    <2>3. Failures + Left + Pending >= 3
      BY <1>3, <2>2 DEF SilentInv
    <2>4. CASE Elements(todo)' = Elements(Tail(todo)) /\ faults' = faults
                /\ (Write \/ SetLastOdr \/ ReadOdr)
      <3>1. step # W("BASIC_INT", FALSE)
        <4> SUFFICES ASSUME step = W("BASIC_INT", FALSE)
                     PROVE  FALSE
          OBVIOUS
        <4>1. step.do = "W" /\ Written = "BASIC_INT" /\ step.to = FALSE
          BY BasicInt DEF Written
        <4>2. Write
          BY <2>4, <4>1 DEF SetLastOdr, ReadOdr, IsWrite
        <4> QED BY <1>0, <4>1, <4>2
      <3>2. Pending' = Pending
        BY <1>0, <2>4, <3>1 DEF Pending
      <3>3. Failures' = Failures
        BY <1>1, <2>4 DEF Failures
      <3> QED BY <1>1, <2>3, <3>2, <3>3
    <2>5. CASE Elements(todo)' = {} /\ faults' = faults + 1
      <3>1. Pending' = 0
        BY <2>5 DEF Pending
      <3> DEFINE p == Pending
                 l == Left
      <3>2. p \in 0 .. 1 /\ l \in 0 .. 3 /\ before \in Nat /\ faults \in Nat
        BY Counts
      <3>3. (faults - before) + l + p >= 3
        BY <2>3 DEF Failures
      <3> HIDE DEF p, l
      <3>4. ((faults + 1) - before) + l + 0 >= 3
        BY <3>2, <3>3
      <3>5. Failures' = faults' - before' /\ Left' = l
        BY <1>1 DEF Failures, l
      <3>6. Failures' = (faults + 1) - before
        <4>1. faults' = faults + 1 /\ before' = before
          BY <1>1, <2>5
        <4>2. faults' - before' = (faults + 1) - before
          BY <4>1
        <4> QED BY <4>2 DEF Failures
      <3> QED BY <3>1, <3>4, <3>5, <3>6
    <2> QED BY <1>0, <2>4, <2>5
  <1>4. CASE phase = "sleep"
    <2> SUFFICES ASSUME regs'["BASIC_INT"]
                 PROVE  (Failures >= 3)'
      BY <1>1, <1>4 DEF SilentInv
    <2>1. \E s \in Sensors : call = <<"disable", s>>
      <3>1. Len(plan) = 0 \/ Len(plan) = 1
        BY <1>0, <1>4, CallNow
      <3> QED BY <1>0, <1>4, <3>1, CallNow DEF Sensors
    <2>2. ~(IsWrite /\ Written = "BASIC_INT")
      <3>1. PICK s \in Sensors : call = <<"disable", s>>
        BY <2>1
      <3>2. step.do = "get_odr" \/ (step.do = "W" /\ step.field = ODR[s])
        BY <1>0, <3>1, SwitchingNext DEF AppTypeOK, RateInv
      <3> QED BY <3>2, BasicInt DEF IsWrite, Writes, Written
    <2>3. regs["BASIC_INT"]
      BY <1>0, <2>2, BasicInt
    <2>4. Failures >= 3
      BY <1>4, <2>3 DEF SilentInv
    <2>5. faults' = faults \/ faults' = faults + 1
      BY <1>0
    <2>6. faults \in Nat /\ before \in Nat
      BY Counts
    <2> QED BY <1>1, <2>4, <2>5, <2>6 DEF Failures
  <1>5. CASE phase = "arm"
    BY <1>1, <1>5 DEF SilentInv
  <1> QED BY <1>2, <1>3, <1>4, <1>5

\* Of the calls at the start three switch the interrupts off.
LEMMA SilentCall ==
  ASSUME AppTypeOK, PlanInv, SilentInv, NextCall
  PROVE  SilentInv'
  <1> DEFINE n == Len(plan)
  <1>0. /\ phase \in {"start", "sleep", "arm"} /\ phase' = phase /\ state' = state
        /\ before' = before /\ faults' = faults /\ regs' = regs
        /\ call = <<>> /\ call' = Made[Len(Made) - n + 1] /\ Len(plan') = n - 1
        /\ n \in 1 .. Len(Made) /\ todo' = Function(call')
    BY Advance DEF NextCall, Call, device
  <1>1. CASE phase # "start"
    BY <1>0, <1>1 DEF SilentInv, Failures
  <1>2. CASE phase = "start"
    <2> SUFFICES ASSUME regs["BASIC_INT"]
                 PROVE  (Failures + Left + Pending >= 3)'
      BY <1>0, <1>2 DEF SilentInv
    <2>0. Failures + Left + Pending >= 3 /\ Failures \in Nat /\ Failures' = Failures
      BY <1>0, <1>2, Counts DEF SilentInv, Failures
    <2>1. Pending = 0
      <3>1. todo = <<>>
        BY <1>0 DEF AppTypeOK, SensorTypeOK
      <3> QED BY <3>1, ElementsEmpty DEF Pending
    <2>2. threshold \in Nat /\ Made = MadeIn(phase, threshold)
      BY ThresholdIsNumber DEF Made
    <2>3. Len(Made) = 8
      BY <1>2, <2>2, MadeIs
    <2>4. n \in 1 .. 8 /\ call' = Made[8 - n + 1]
      BY <1>0, <2>3
    <2>5. n \in {4, 3, 1} => W("BASIC_INT", FALSE) \in Elements(todo)'
      <3>1. /\ n = 4 => call' = Made[5]
            /\ n = 3 => call' = Made[6]
            /\ n = 1 => call' = Made[8]
        <4>1. \A k \in 1 .. 8 :
                 (k = 4 => 8 - k + 1 = 5) /\ (k = 3 => 8 - k + 1 = 6) /\ (k = 1 => 8 - k + 1 = 8)
          OBVIOUS
        <4> HIDE DEF n
        <4> QED BY <2>4, <4>1
      <3>2. /\ Made[5] = <<"disable_detection", "free_fall">>
            /\ Made[6] = <<"disable_detection", "wake_up">>
            /\ Made[8] = <<"disable_detection", "free_fall">>
        BY <1>2, <2>2, MadeIs
      <3> HAVE n \in {4, 3, 1}
      <3>3. PICK d \in {"free_fall", "wake_up"} : call' = <<"disable_detection", d>>
        BY <3>1, <3>2
      <3>4. Function(call') = disable_detection(d)
        BY <3>3 DEF Function
      <3>5. W("BASIC_INT", FALSE) \in Elements(disable_detection(d))
        BY DetectionAccesses, RoutesAre
      <3> QED BY <1>0, <3>4, <3>5 DEF Elements
    <2>6. Pending' \in Nat /\ (n \in {4, 3, 1} => Pending' = 1)
      BY <2>5 DEF Pending
    <2> DEFINE p == Pending'
               l == Left'
               q == Failures
    <2>7. /\ l = (IF n - 1 >= 4 THEN 1 ELSE 0) + (IF n - 1 >= 3 THEN 1 ELSE 0)
                 + (IF n - 1 >= 1 THEN 1 ELSE 0)
          /\ Left = (IF n >= 4 THEN 1 ELSE 0) + (IF n >= 3 THEN 1 ELSE 0)
                    + (IF n >= 1 THEN 1 ELSE 0)
      BY <1>0 DEF Left
    <2>8. q + Left + 0 >= 3
      BY <2>0, <2>1
    <2> HIDE DEF n, p, l, q
    <2>9. q \in Nat /\ p \in Nat /\ (n \in {4, 3, 1} => p = 1)
      BY <2>0, <2>6 DEF p, q
    <2>10. q + l + p >= 3
      BY <2>4, <2>7, <2>8, <2>9
    <2> QED BY <2>0, <2>10 DEF p, l, q
  <1> QED BY <1>1, <1>2

\* That interrupts survive three attempts only by three failures is inductive.
LEMMA SilentNext ==
  ASSUME AppTypeOK, PlanInv, RateInv, AppTodo, SilentInv, [AppNext]_allVars
  PROVE  SilentInv'
  <1>1. CASE NextCall
    BY <1>1, SilentCall
  <1>2. CASE Step /\ UNCHANGED appVars
    BY <1>2, SilentStep
  <1>3. CASE Return /\ UNCHANGED appVars
    <2>1. todo' = todo /\ regs' = regs /\ faults' = faults
      BY <1>3 DEF Return, device
    <2>2. Pending' = Pending /\ Left' = Left /\ Failures' = Failures
      BY <1>3, <2>1 DEF Pending, Elements, Left, Failures, appVars
    <2> QED BY <1>3, <2>1, <2>2 DEF SilentInv, appVars
  <1>4. CASE NewObject /\ Start /\ faults' \in 0 .. MaxFaults
    <2>1. plan' = AccInit \o AccDisableInt /\ phase' = "start" /\ before' = faults'
      BY <1>4 DEF Start
    <2>2. Len(plan') = 8
      <3>1. threshold \in Nat /\ plan' = MadeIn("start", threshold)
        BY <2>1, ThresholdIsNumber DEF MadeIn
      <3> QED BY <3>1, MadeIs
    <2>3. Left' = 3 /\ Failures' = 0 /\ Pending' \in Nat
      <3>1. faults' \in Nat
        BY <1>4, MaxFaultsAssumption
      <3>2. Left' = 3
        BY <2>2 DEF Left
      <3>3. Failures' = 0
        <4>1. Failures' = faults' - before'
          BY DEF Failures
        <4> DEFINE f == faults'
        <4> HIDE DEF f
        <4>2. Failures' = f - f /\ f \in Nat
          BY <2>1, <3>1, <4>1 DEF f
        <4> QED BY <4>2
      <3> QED BY <3>2, <3>3 DEF Pending
    <2>4. (Failures + Left + Pending >= 3)'
      <3> DEFINE p == Pending'
      <3> HIDE DEF p
      <3>1. p \in Nat
        BY <2>3 DEF p
      <3>2. 0 + 3 + p >= 3
        BY <3>1
      <3> QED BY <2>3, <3>2 DEF p
    <2> QED BY <2>1, <2>4 DEF SilentInv
  <1>5. CASE UNCHANGED allVars
    BY <1>5 DEF SilentInv, Failures, Left, Pending, Elements, allVars, sensorVars, appVars, device,
       object
  <1>6. CASE /\ UNCHANGED <<device, object, before>> /\ faults' \in {faults, faults + 1}
             /\ Started \/ Decide \/ SleepEnds \/ ReadReg \/ WriteReg \/ WriteRegFails \/ StandBy
    <2>0. todo = <<>> /\ Len(plan) = 0 /\ regs' = regs
      BY <1>6, NoCallThere DEF device
    <2>1. faults \in Nat /\ before \in Nat /\ Failures \in Nat
      BY Counts
    <2>2. Failures' = Failures \/ Failures' = Failures + 1
      <3>1. Failures' = faults' - before
        BY <1>6 DEF Failures
      <3>2. CASE faults' = faults
        BY <3>1, <3>2 DEF Failures
      <3>3. CASE faults' = faults + 1
        <4>1. Failures' = (faults + 1) - before
          BY <3>1, <3>3
        <4> QED BY <2>1, <4>1 DEF Failures
      <3> QED BY <1>6, <3>2, <3>3
    <2>3. Left = 0 /\ Pending = 0
      <3>1. Left = 0
        BY <2>0 DEF Left
      <3>2. Pending = 0
        BY <2>0, ElementsEmpty DEF Pending
      <3> QED BY <3>1, <3>2
    <2>4. CASE Started \/ Decide \/ SleepEnds \/ StandBy
      <3>1. /\ phase' # "start" /\ state' \in CHECK_STATES
            /\ regs["BASIC_INT"] =>
                  \/ Failures >= 3
                  \/ phase' = "arm"
                  \/ state' = "CHECKINGMOTION" /\ phase' \in {"off", "standby"}
        <4>1. CASE Started
          BY <2>1, <2>3, <4>1 DEF Started, SilentInv, AppTypeOK
        <4>2. CASE Decide
          BY <4>2 DEF Decide, SilentInv
        <4>3. CASE SleepEnds
          BY <4>3 DEF SleepEnds, SilentInv, AppTypeOK
        <4>4. CASE StandBy
          BY <4>4 DEF StandBy, SilentInv, AppTypeOK
        <4> QED BY <2>4, <4>1, <4>2, <4>3, <4>4
      <3>2. Failures >= 3 => Failures' >= 3
        BY <2>1, <2>2
      <3> QED BY <2>0, <3>1, <3>2 DEF SilentInv
    <2>5. CASE ReadReg \/ WriteReg \/ WriteRegFails
      <3>1. phase' \in {"write", "off"} /\ state' = "CHECKINGMOTION"
        BY <2>5 DEF ReadReg, WriteReg, WriteRegFails, PlanInv
      <3> QED BY <3>1 DEF SilentInv
    <2> QED BY <1>6, <2>4, <2>5
  <1> QED BY <1>1, <1>2, <1>3, <1>4, <1>5, <1>6, AppSteps

\* The invariants so far hold at the start.
LEMMA AppInvInit ==
  ASSUME AppInit
  PROVE  AppTypeOK /\ PlanInv /\ RateInv /\ EnableInv /\ AppTodo /\ SilentInv
  <1>1. AppTypeOK /\ PlanInv /\ RateInv
    BY AppTypesInit, RateInvInit DEF AppInit
  <1>2. call = <<>> /\ todo = <<>> /\ page = "main" /\ astray = FALSE /\ regs = Defaults
    BY DEF AppInit, SensorInit
  <1>3. EnableInv /\ AppTodo
    BY <1>2, ElementsEmpty DEF EnableInv, AppTodo, Calling
  <1>4. regs["BASIC_INT"] = FALSE
    BY <1>2, BasicInt DEF Defaults
  <1> QED BY <1>1, <1>3, <1>4 DEF SilentInv

\* The interrupt an earlier standby armed is off while the program works, unless
\* three accesses of this run have failed.
THEOREM SilentWhileWorking == AppSpec => []SilentUnlessArmed
  <1>1. AppTypeOK /\ SilentInv => SilentUnlessArmed
    <2> SUFFICES ASSUME AppTypeOK, SilentInv, Failures <= 2, Active("wake_up"),
                        \/ phase \in {"run", "sleep"}
                        \/ phase \in {"off", "standby"} /\ state # "CHECKINGMOTION"
                 PROVE  FALSE
      BY DEF SilentUnlessArmed
    <2>1. regs["BASIC_INT"]
      BY DEF Active, Switch, FunctionGroup
    <2>2. Failures >= 3
      BY <2>1 DEF SilentInv
    <2>3. Failures \in Int
      BY MaxFaultsAssumption DEF Failures, AppTypeOK, SensorTypeOK
    <2> QED BY <2>2, <2>3
  <1> QED BY <1>1, AppInvInit, AppTypes, AppRates, AppTodoNext, SilentNext, PTL DEF AppSpec

------------------------------------------------------------------------------
(* The accelerometer as App uses it: ready for standby.                     *)

\* All calls but the last n have ended.
Past(n) == Len(plan) < n \/ (Len(plan) = n /\ call = <<>>)

Asleep == phase = "sleep" \/ (phase \in {"off", "standby"} /\ state = "SLEEP")
Armed == phase \in {"arm", "write"} \/ (phase \in {"off", "standby"} /\ state = "CHECKINGMOTION")

\* init has made both rates clear, and enable switched the accelerometer on.
StartReady ==
  /\ phase # "start" \/ Past(7) => sure = Sensors
  /\ ~Asleep /\ (phase # "start" \/ Past(6)) => _is_enabled["x"] = 1

SleepReady == Asleep => (Past(1) => _is_enabled["g"] = 0) /\ (Past(0) => _is_enabled["x"] = 0)

\* The detection, its threshold, the rate and the low-power mode, each once it
\* has been set.
ArmReady ==
  Armed =>
    /\ Past(2) => regs["BASIC_INT"] /\ regs["WUEvOnInt1"]
    /\ Past(1) => regs["WK_THS"] = threshold
    /\ Len(plan) = 1 => regs["WK_THS"] = threshold \/ W("WK_THS", threshold) \in Elements(todo)
    /\ Len(plan) = 0 => asked["x"] = 26 \/ SetOdr("x", 26) \in Elements(todo)
    /\ phase \in {"off", "standby"} => LowPower \in ctrl6_g

ReadyInv == Failures = 0 => ~failed /\ StartReady /\ SleepReady /\ ArmReady

\* The settings that standby depends on.
LEMMA ReadyFields ==
  /\ {"BASIC_INT", "WUEvOnInt1"} \subseteq Switches /\ "WK_THS" \in Numbers
  /\ {"BASIC_INT", "WUEvOnInt1"} \cap {"WK_THS", "ODR_XL"} = {} /\ "WK_THS" # "ODR_XL"
  /\ \A thr : /\ W("WK_THS", thr).do = "W" /\ W("WK_THS", thr).field = "WK_THS"
              /\ W("WK_THS", thr).to = thr
  /\ SetOdr("x", 26).do = "set_odr" /\ SetOdr("x", 26).sensor = "x" /\ SetOdr("x", 26).to = 26
  /\ "x" \in Sensors /\ "g" \in Sensors /\ ODR["x"] = "ODR_XL" /\ ODR["g"] = "ODR_G"
  <1>1. {"BASIC_INT", "WUEvOnInt1"} \subseteq Switches /\ "WK_THS" \in Numbers
    BY SwitchesAre, NumbersAre
  <1>2. \A thr : /\ W("WK_THS", thr).do = "W" /\ W("WK_THS", thr).field = "WK_THS"
                 /\ W("WK_THS", thr).to = thr
    BY DEF W
  <1>3. Rounded(26) = 26
    <2>1. 26 \in Rates
      BY DEF Rates
    <2> QED BY <2>1, RateIsRounded
  <1>4. SetOdr("x", 26).do = "set_odr" /\ SetOdr("x", 26).sensor = "x" /\ SetOdr("x", 26).to = 26
    BY <1>3 DEF SetOdr
  <1> QED BY <1>1, <1>2, <1>4 DEF Sensors, ODR

\* Without a failure so far there was none before.
LEMMA NoFailure ==
  ASSUME AppTypeOK, PlanInv, faults' \in {faults, faults + 1}, before' = before, Failures' = 0
  PROVE  Failures = 0 /\ faults' = faults
  <1>1. faults \in Nat /\ before \in Nat /\ before <= faults
    BY Counts
  <1>2. faults' - before = 0
    BY DEF Failures
  <1>3. faults' = faults
    <2>1. CASE faults' = faults + 1
      <3>1. (faults + 1) - before = 0
        BY <1>2, <2>1
      <3> QED BY <1>1, <3>1
    <2> QED BY <2>1
  <1> QED BY <1>2, <1>3 DEF Failures

\* The next call has its setting still to make.
LEMMA ReadyCall ==
  ASSUME AppTypeOK, PlanInv, ReadyInv, NextCall
  PROVE  ReadyInv'
  <1> DEFINE n == Len(plan)
  <1>0. /\ phase \in {"start", "sleep", "arm"} /\ phase' = phase /\ state' = state
        /\ before' = before /\ faults' = faults /\ regs' = regs /\ threshold' = threshold
        /\ ctrl6_g' = ctrl6_g /\ _is_enabled' = _is_enabled /\ sure' = sure /\ asked' = asked
        /\ failed' = failed /\ call = <<>> /\ call' # <<>> /\ Len(plan') = n - 1
        /\ n \in 1 .. Len(Made) /\ todo' = Function(call') /\ call' = Made[Len(Made) - n + 1]
    BY Advance DEF NextCall, Call, device
  <1>1. n \in Nat
    BY Counts
  <1>2. \A i \in Nat : Past(i)' <=> Past(i)
    <2> TAKE i \in Nat
    <2>1. Past(i)' <=> n - 1 < i
      BY <1>0 DEF Past
    <2>2. Past(i) <=> n < i \/ n = i
      BY <1>0 DEF Past
    <2> HIDE DEF n
    <2> QED BY <1>1, <2>1, <2>2
  <1>3. Past(0)' = Past(0) /\ Past(1)' = Past(1) /\ Past(2)' = Past(2) /\ Past(6)' = Past(6)
        /\ Past(7)' = Past(7)
    BY <1>2 DEF Past
  <1>4. (Asleep' <=> Asleep) /\ (Armed' <=> Armed)
    BY <1>0 DEF Asleep, Armed
  <1> SUFFICES ASSUME Failures' = 0
               PROVE  (~failed /\ StartReady /\ SleepReady /\ ArmReady)'
    BY DEF ReadyInv
  <1>5. ~failed /\ StartReady /\ SleepReady /\ ArmReady
    BY <1>0 DEF ReadyInv, Failures
  <1>6. StartReady' /\ SleepReady'
    BY <1>0, <1>3, <1>4, <1>5 DEF StartReady, SleepReady
  <1>10. ASSUME phase = "arm"
         PROVE  /\ n - 1 = 1 => call' = <<"set_threshold", "wake_up", threshold>>
                /\ n - 1 = 0 => call' = <<"set_odr", "x", 26>>
    <2>1. threshold \in Nat /\ Made = MadeIn(phase, threshold)
      BY ThresholdIsNumber DEF Made
    <2>2. /\ Len(Made) = 3 /\ Made[2] = <<"set_threshold", "wake_up", threshold>>
          /\ Made[3] = <<"set_odr", "x", 26>>
      BY <1>10, <2>1, MadeIs
    <2>3. call' = Made[3 - n + 1]
      BY <1>0, <2>2
    <2>4. (n - 1 = 1 => 3 - n + 1 = 2) /\ (n - 1 = 0 => 3 - n + 1 = 3)
      <3> HIDE DEF n
      <3> QED BY <1>1
    <2> HIDE DEF n
    <2>5. (n - 1 = 1 => call' = Made[2]) /\ (n - 1 = 0 => call' = Made[3])
      BY <2>3, <2>4
    <2> QED BY <2>2, <2>5
  <1>7. ASSUME phase = "arm", n - 1 = 1
        PROVE  W("WK_THS", threshold) \in Elements(todo)'
    <2>1. call' = <<"set_threshold", "wake_up", threshold>>
      BY <1>7, <1>10
    <2>2. Function(call') = <<W("WK_THS", threshold)>>
      BY <2>1 DEF Function, set_threshold, Threshold
    <2>3. Elements(todo)' = {W("WK_THS", threshold)}
      BY <1>0, <2>2 DEF Elements
    <2> QED BY <2>3
  <1>8. ASSUME phase = "arm", n - 1 = 0
        PROVE  SetOdr("x", 26) \in Elements(todo)'
    <2>1. call' = <<"set_odr", "x", 26>>
      BY <1>8, <1>10
    <2>2. Function(call') = <<SetOdr("x", 26)>>
      BY <2>1 DEF Function
    <2>3. Elements(todo)' = {SetOdr("x", 26)}
      BY <1>0, <2>2 DEF Elements
    <2> QED BY <2>3
  <1>9. ArmReady'
    BY <1>0, <1>3, <1>4, <1>5, <1>7, <1>8 DEF ArmReady, Armed
  <1> QED BY <1>0, <1>5, <1>6, <1>9

\* An access makes it, if it does not fail.
LEMMA ReadyStep ==
  ASSUME AppTypeOK, PlanInv, RateInv, AppTodo, ReadyInv, Step, UNCHANGED appVars
  PROVE  ReadyInv'
  <1> SUFFICES ASSUME Failures' = 0
               PROVE  (~failed /\ StartReady /\ SleepReady /\ ArmReady)'
    BY DEF ReadyInv
  <1>1. /\ phase' = phase /\ state' = state /\ before' = before /\ plan' = plan
        /\ threshold' = threshold /\ ctrl6_g' = ctrl6_g
    BY DEF appVars
  <1>2. /\ Running /\ call # <<>> /\ call' = call /\ faults \in Nat
        /\ Elements(todo) = {step} \cup Elements(Tail(todo))
        /\ faults' \in {faults, faults + 1}
    BY StepOutcome DEF AppTypeOK, AppTodo
  <1>3. Failures = 0 /\ faults' = faults
    BY <1>1, <1>2, NoFailure
  <1>4. faults # faults + 1
    BY <1>2
  <1>5. /\ ~failed' /\ (Write \/ SetLastOdr \/ ReadOdr)
        /\ Elements(todo)' = Elements(Tail(todo))
        /\ \A f \in Switches \cup Numbers :
              regs'[f] = regs[f] \/ (IsWrite /\ f = Written /\ regs'[f] = step.to)
        /\ Write => IsWrite /\ regs'[Written] = step.to
    BY <1>3, <1>4, StepOutcome DEF AppTypeOK, AppTodo
  <1>6. ~failed /\ StartReady /\ SleepReady /\ ArmReady
    BY <1>3 DEF ReadyInv
  <1>7. \A i : Past(i)' = Past(i)
    BY <1>1, <1>2 DEF Past
  <1>8. (Asleep' <=> Asleep) /\ (Armed' <=> Armed)
    BY <1>1 DEF Asleep, Armed
  <1>9. _is_enabled' = _is_enabled
    BY <1>5 DEF Write, SetLastOdr, ReadOdr
  <1>10. ASSUME call[1] # "init"
         PROVE  sure' = sure
    <2>1. page = "main"
      BY DEF AppTodo
    <2>2. CASE Write
      BY <1>10, <2>1, <2>2 DEF Write, Unclear
    <2>3. CASE SetLastOdr
      BY <2>3 DEF SetLastOdr
    <2>4. CASE ReadOdr
      BY <2>1, <2>4 DEF ReadOdr
    <2> QED BY <1>5, <2>2, <2>3, <2>4
  <1>11. phase # "start" \/ Past(7) => call[1] # "init"
    <2>1. CASE phase = "sleep"
      <3>1. Len(plan) = 0 \/ Len(plan) = 1
        BY <1>2, <2>1, CallNow
      <3> QED BY <1>2, <2>1, <3>1, CallNow
    <2>2. CASE phase = "arm"
      <3>1. Len(plan) = 0 \/ Len(plan) = 1 \/ Len(plan) = 2
        BY <1>2, <2>2, CallNow
      <3> QED BY <1>2, <2>2, <3>1, CallNow
    <2>3. CASE phase = "start"
      <3> HAVE phase # "start" \/ Past(7)
      <3> DEFINE k == Len(plan)
      <3>1. k < 7 /\ k \in 0 .. 7
        BY <1>2, <2>3, CallNow DEF Past
      <3> HIDE DEF k
      <3>3. k = 0 \/ k = 1 \/ k = 2 \/ k = 3 \/ k = 4 \/ k = 5 \/ k = 6
        BY <3>1
      <3>2. \/ Len(plan) = 0 \/ Len(plan) = 1 \/ Len(plan) = 2 \/ Len(plan) = 3
            \/ Len(plan) = 4 \/ Len(plan) = 5 \/ Len(plan) = 6
        BY <3>3 DEF k
      <3> QED BY <1>2, <2>3, <3>2, CallNow
    <2> QED BY <1>2, <2>1, <2>2, <2>3, CallNow
  <1>12. StartReady' /\ SleepReady'
    BY <1>1, <1>6, <1>7, <1>8, <1>9, <1>10, <1>11 DEF StartReady, SleepReady
  <1>13. ArmReady'
    <2> SUFFICES ASSUME Armed
                 PROVE  ArmReady'
      BY <1>8 DEF ArmReady
    <2>0. phase = "arm"
      BY <1>2, CallNow DEF Armed
    <2>1. Len(plan) = 0 \/ Len(plan) = 1 \/ Len(plan) = 2
      BY <1>2, <2>0, CallNow
    <2>2. CASE Len(plan) = 2
      BY <1>1, <1>2, <2>0, <2>2 DEF ArmReady, Past
    <2>3. CASE Len(plan) = 1
      <3>1. call = <<"set_threshold", "wake_up", threshold>>
        BY <1>2, <2>0, <2>3, CallNow
      <3>2. step = W("WK_THS", threshold)
        BY <1>2, <3>1 DEF AppTodo, Calling
      <3>3. Write /\ Written = "WK_THS"
        BY <1>5, <3>2, ReadyFields DEF SetLastOdr, ReadOdr, IsWrite, Written
      <3>4. /\ regs'["WK_THS"] = threshold /\ regs'["BASIC_INT"] = regs["BASIC_INT"]
            /\ regs'["WUEvOnInt1"] = regs["WUEvOnInt1"]
        BY <1>5, <3>2, <3>3, ReadyFields
      <3> QED BY <1>1, <1>6, <1>7, <2>0, <2>3, <3>4 DEF ArmReady, Armed, Past
    <2>4. CASE Len(plan) = 0
      <3>1. call = <<"set_odr", "x", 26>>
        BY <1>2, <2>0, <2>4, CallNow
      <3>2. step = SetOdr("x", 26)
        BY <1>2, <3>1 DEF AppTodo, Calling
      <3>3. Written = "ODR_XL"
        BY <3>2, ReadyFields DEF Written
      <3>4. /\ regs'["WK_THS"] = regs["WK_THS"] /\ regs'["BASIC_INT"] = regs["BASIC_INT"]
            /\ regs'["WUEvOnInt1"] = regs["WUEvOnInt1"]
        BY <1>5, <3>3, ReadyFields
      <3>5. asked' = Asks
        BY <1>5, <3>2, ReadyFields DEF Write, SetLastOdr, ReadOdr
      <3>6. asked'["x"] = 26
        BY <3>2, <3>5, ReadyFields DEF Asks, AppTypeOK, SensorTypeOK
      <3> QED BY <1>1, <1>6, <1>7, <2>0, <2>4, <3>4, <3>6 DEF ArmReady, Armed, Past
    <2> QED BY <2>1, <2>2, <2>3, <2>4
  <1> QED BY <1>5, <1>12, <1>13

\* The end of a call without a failure has made it.
LEMMA ReadyReturn ==
  ASSUME AppTypeOK, PlanInv, RateInv, EnableInv, AppTodo, ReadyInv, Return, UNCHANGED appVars
  PROVE  ReadyInv'
  <1> DEFINE n == Len(plan)
  <1> SUFFICES ASSUME Failures' = 0
               PROVE  (~failed /\ StartReady /\ SleepReady /\ ArmReady)'
    BY DEF ReadyInv
  <1>1. /\ phase' = phase /\ state' = state /\ before' = before /\ plan' = plan
        /\ threshold' = threshold /\ ctrl6_g' = ctrl6_g /\ regs' = regs /\ faults' = faults
        /\ call # <<>> /\ call' = <<>> /\ failed' = FALSE /\ todo = <<>> /\ todo' = todo
    BY DEF appVars, Return, Running, device
  <1>2. Failures = 0
    BY <1>1 DEF Failures
  <1>3. ~failed /\ StartReady /\ SleepReady /\ ArmReady
    BY <1>2 DEF ReadyInv
  <1>4. n \in Nat /\ phase \in {"start", "sleep", "arm"}
    BY <1>1, CallNow
  <1>5. \A i \in Nat : (Past(i) <=> n < i) /\ (Past(i)' <=> n < i \/ n = i)
    BY <1>1 DEF Past
  <1>6. /\ Past(7)' => Past(7) \/ n = 7
        /\ Past(6)' => Past(6) \/ n = 6
        /\ Past(2)' => Past(2) \/ n = 2
        /\ Past(1)' => Past(1) \/ n = 1
        /\ Past(0)' => Past(0) \/ n = 0
    <2>1. \A i \in Nat : Past(i)' => Past(i) \/ n = i
      BY <1>5
    <2> HIDE DEF n
    <2> QED BY <2>1
  <1>7. (Asleep' <=> Asleep) /\ (Armed' <=> Armed)
    BY <1>1 DEF Asleep, Armed
  <1>8. /\ _is_enabled' = CASE call[1] = "enable" -> [_is_enabled EXCEPT ![call[2]] = 1]
                            [] call[1] = "disable" -> [_is_enabled EXCEPT ![call[2]] = 0]
                            [] call[1] = "init" -> [s \in Sensors |-> 0]
                            [] OTHER -> _is_enabled
        /\ call[1] = "init" => sure' = Sensors
        /\ call[1] # "init" => sure' = sure /\ asked' = asked
        /\ _is_enabled \in [Sensors -> 0 .. 2] /\ "x" \in Sensors /\ "g" \in Sensors
    BY <1>3, ReadyFields DEF Return, AppTodo, AppTypeOK, SensorTypeOK
  <1>9. CASE phase = "start"
    <2>1. /\ n \in 0 .. 7
          /\ n = 7 => call = <<"init">>
          /\ n = 6 => call = <<"enable", "x">>
          /\ n \notin {6, 7} => call[1] \notin {"init", "enable", "disable"}
      <3>1. /\ n \in 0 .. 7
            /\ n = 7 => call = <<"init">>
            /\ n = 6 => call = <<"enable", "x">>
            /\ n = 5 => call = <<"enable_temp">>
            /\ n \in {4, 1} => call = <<"disable_detection", "tilt">>
            /\ n \in {3, 0} => call = <<"disable_detection", "free_fall">>
            /\ n = 2 => call = <<"disable_detection", "wake_up">>
        BY <1>1, <1>9, CallNow
      <3> HIDE DEF n
      <3>2. n = 0 \/ n = 1 \/ n = 2 \/ n = 3 \/ n = 4 \/ n = 5 \/ n = 6 \/ n = 7
        BY <3>1
      <3> QED BY <3>1, <3>2
    <2>2. Past(7)' => sure' = Sensors
      <3>1. CASE n = 7
        BY <1>8, <2>1, <3>1
      <3>2. CASE Past(7) /\ n # 7
        <4>1. call[1] # "init"
          <5> HIDE DEF n
          <5> QED BY <2>1, <3>2
        <4> QED BY <1>3, <1>8, <3>2, <4>1 DEF StartReady
      <3> QED BY <1>6, <3>1, <3>2
    <2>3. Past(6)' => _is_enabled'["x"] = 1
      <3>1. CASE n = 6
        <4>1. call[1] = "enable" /\ call[2] = "x"
          BY <2>1, <3>1
        <4> QED BY <1>8, <4>1
      <3>2. CASE Past(6) /\ n # 6
        <4>1. n # 7
          BY <1>5, <3>2
        <4>2. call[1] \notin {"init", "enable", "disable"}
          BY <2>1, <3>2, <4>1
        <4>3. ~Asleep
          BY <1>9 DEF Asleep
        <4> QED BY <1>3, <1>8, <1>9, <3>2, <4>2, <4>3 DEF StartReady
      <3> QED BY <1>6, <3>1, <3>2
    <2> QED BY <1>1, <1>9, <2>2, <2>3 DEF StartReady, SleepReady, ArmReady, Asleep, Armed
  <1>10. CASE phase = "sleep"
    <2>1. (n = 0 \/ n = 1) /\ (n = 1 => call = <<"disable", "g">>)
          /\ (n = 0 => call = <<"disable", "x">>)
      <3>1. /\ n \in 0 .. 1
            /\ n = 1 => call = <<"disable", "g">>
            /\ n = 0 => call = <<"disable", "x">>
        BY <1>1, <1>10, CallNow
      <3> HIDE DEF n
      <3> QED BY <3>1
    <2>2. Asleep /\ ~Armed
      BY <1>10 DEF Asleep, Armed
    <2>3. call[1] = "disable" /\ (n = 1 => call[2] = "g") /\ (n = 0 => call[2] = "x")
      BY <2>1
    <2>4. n = 0 => _is_enabled["g"] = 0
      BY <1>3, <1>5, <2>2 DEF SleepReady
    <2>5. (n = 0 \/ n = 1) => _is_enabled'["g"] = 0
      BY <1>8, <2>3, <2>4
    <2>6. n = 0 => _is_enabled'["x"] = 0
      BY <1>8, <2>3
    <2>7. (Past(0)' => n = 0) /\ phase # "start"
      BY <1>5, <1>10
    <2>8. sure' = sure
      BY <1>8, <2>3
    <2> QED BY <1>1, <1>3, <1>7, <2>1, <2>2, <2>5, <2>6, <2>7, <2>8
            DEF StartReady, SleepReady, ArmReady
  <1>11. CASE phase = "arm"
    <2>1. (n = 0 \/ n = 1 \/ n = 2) /\ (n = 2 => call = <<"enable_detection", "wake_up", 1>>)
          /\ (n = 1 => call = <<"set_threshold", "wake_up", threshold>>)
          /\ (n = 0 => call = <<"set_odr", "x", 26>>)
      <3>1. /\ n \in 0 .. 2
            /\ n = 2 => call = <<"enable_detection", "wake_up", 1>>
            /\ n = 1 => call = <<"set_threshold", "wake_up", threshold>>
            /\ n = 0 => call = <<"set_odr", "x", 26>>
        BY <1>1, <1>11, CallNow
      <3> HIDE DEF n
      <3> QED BY <3>1
    <2>2. Armed /\ ~Asleep
      BY <1>11 DEF Asleep, Armed
    <2>3. call[1] \notin {"init", "enable", "disable"}
      BY <2>1
    <2>4. sure' = sure /\ asked' = asked /\ _is_enabled' = _is_enabled
      BY <1>8, <2>3
    <2>5. Elements(todo) = {} /\ Elements(todo)' = {}
      BY <1>1, ElementsEmpty DEF Elements
    <2>6. n = 2 => regs["BASIC_INT"] /\ regs["WUEvOnInt1"]
      <3> HAVE n = 2
      <3>1. call[1] = "enable_detection" /\ call[2] = "wake_up" /\ call[3] = 1
        BY <2>1
      <3>2. "BASIC_INT" \in Needed("wake_up", 1) /\ "WUEvOnInt1" \in Needed("wake_up", 1)
        BY DEF Needed, Switch, FunctionGroup, Route
      <3>3. \A f \in Needed("wake_up", 1) : regs[f] = TRUE
        BY <1>1, <1>3, <2>5, <3>1 DEF EnableInv, Calling, AppTodo
      <3> QED BY <3>2, <3>3
    <2>7. n = 1 => regs["WK_THS"] = threshold
      BY <1>3, <2>2, <2>5 DEF ArmReady
    <2>8. n = 0 => asked["x"] = 26
      BY <1>3, <2>2, <2>5 DEF ArmReady
    <2>9. Past(2)' => regs["BASIC_INT"] /\ regs["WUEvOnInt1"]
      BY <1>3, <1>6, <2>2, <2>6 DEF ArmReady
    <2>10. Past(1)' => regs["WK_THS"] = threshold
      BY <1>3, <1>6, <2>2, <2>7 DEF ArmReady
    <2>11. ArmReady'
      BY <1>1, <1>11, <2>4, <2>7, <2>8, <2>9, <2>10 DEF ArmReady
    <2>12. phase # "start"
      BY <1>11
    <2> QED BY <1>1, <1>3, <1>7, <2>2, <2>4, <2>11, <2>12 DEF StartReady, SleepReady
  <1> QED BY <1>4, <1>9, <1>10, <1>11

\* Where App's program moves on, nothing has failed and all the calls of the
\* part that ends have been made.
LEMMA ReadyQuiet ==
  ASSUME AppTypeOK, PlanInv, ReadyInv,
         UNCHANGED <<device, object, astray, asked, sure, before>>,
         faults' \in {faults, faults + 1},
         Started \/ Decide \/ SleepEnds \/ ReadReg \/ WriteReg \/ WriteRegFails \/ StandBy
  PROVE  ReadyInv'
  <1> SUFFICES ASSUME Failures' = 0
               PROVE  (~failed /\ StartReady /\ SleepReady /\ ArmReady)'
    BY DEF ReadyInv
  <1>1. Failures = 0 /\ faults' = faults /\ faults \in Nat
    BY NoFailure, Counts
  <1>2. /\ call = <<>> /\ todo = <<>> /\ plan = <<>> /\ Len(plan) = 0 /\ phase # "standby"
        /\ call' = call /\ todo' = todo /\ failed' = failed /\ _is_enabled' = _is_enabled
        /\ asked' = asked /\ sure' = sure /\ regs' = regs /\ Elements(todo) = {}
        /\ Elements(todo)' = {}
    BY NoCallThere, ElementsEmpty DEF device, object, Elements
  <1>3. ~failed /\ StartReady /\ SleepReady /\ ArmReady
    BY <1>1 DEF ReadyInv
  <1>4. Past(0) /\ Past(1) /\ Past(2) /\ Past(6) /\ Past(7)
    BY <1>2 DEF Past
  <1>5. sure = Sensors /\ (~Asleep => _is_enabled["x"] = 1)
    BY <1>3, <1>4 DEF StartReady
  <1>6. Asleep => _is_enabled["g"] = 0 /\ _is_enabled["x"] = 0
    BY <1>3, <1>4 DEF SleepReady
  <1>7. Armed => /\ regs["BASIC_INT"] /\ regs["WUEvOnInt1"] /\ regs["WK_THS"] = threshold
                 /\ asked["x"] = 26
                 /\ phase \in {"off", "standby"} => LowPower \in ctrl6_g
    BY <1>2, <1>3, <1>4 DEF ArmReady
  <1>8. CASE Decide
    <2>1. phase = "run" /\ ~Asleep
      BY <1>8 DEF Decide, Asleep
    <2>2. /\ state' \in CHECK_STATES /\ threshold' \in Thresholds
          /\ \/ state' = "SLEEP" /\ phase' = "sleep" /\ plan' = AccDeinit
             \/ state' = "CHECKINGMOTION" /\ phase' = "arm" /\ plan' = AccEnableInt(threshold')
             \/ state' = "NDEF" /\ phase' = "off" /\ plan' = <<>>
      BY <1>8 DEF Decide, CHECK_STATES
    <2>3. sure' = Sensors /\ _is_enabled'["x"] = 1
      BY <1>2, <1>5, <2>1
    <2>4. StartReady'
      BY <2>3 DEF StartReady
    <2>5. CASE state' = "SLEEP" /\ phase' = "sleep" /\ plan' = AccDeinit
      <3>1. Len(plan') = 2
        BY <2>5 DEF AccDeinit
      <3>2. ~Past(1)' /\ ~Past(0)'
        BY <3>1 DEF Past
      <3> QED BY <1>2, <1>3, <2>4, <2>5, <3>2 DEF SleepReady, ArmReady, Armed
    <2>6. CASE state' = "CHECKINGMOTION" /\ phase' = "arm" /\ plan' = AccEnableInt(threshold')
      <3>1. Len(plan') = 3
        BY <2>6 DEF AccEnableInt
      <3>2. ~Past(2)' /\ ~Past(1)'
        BY <3>1 DEF Past
      <3> QED BY <1>2, <1>3, <2>4, <2>6, <3>1, <3>2 DEF SleepReady, ArmReady, Asleep
    <2>7. CASE state' = "NDEF" /\ phase' = "off" /\ plan' = <<>>
      BY <1>2, <1>3, <2>4, <2>7 DEF SleepReady, ArmReady, Asleep, Armed
    <2> QED BY <2>2, <2>5, <2>6, <2>7
  <1>9. CASE Started \/ SleepEnds \/ ReadReg \/ WriteReg \/ WriteRegFails \/ StandBy
    <2>1. ~WriteRegFails
      BY <1>1 DEF WriteRegFails
    <2>2. plan' = plan /\ state' = state /\ threshold' = threshold
      BY <1>9, <2>1 DEF Started, SleepEnds, ReadReg, WriteReg, StandBy
    <2>3. (Asleep' <=> Asleep) /\ (Armed' <=> Armed) /\ (Armed' /\ phase' \in {"off", "standby"} =>
             LowPower \in ctrl6_g')
      <3>1. CASE Started
        BY <2>2, <3>1 DEF Started, Asleep, Armed
      <3>2. CASE SleepEnds
        BY <2>2, <3>2 DEF SleepEnds, Asleep, Armed, PlanInv
      <3>3. CASE ReadReg
        BY <2>2, <3>3 DEF ReadReg, Asleep, Armed
      <3>4. CASE WriteReg
        BY <2>2, <3>4 DEF WriteReg, Asleep, Armed, PlanInv
      <3>5. CASE StandBy
        BY <1>7, <2>2, <3>5 DEF StandBy, Asleep, Armed
      <3> QED BY <1>9, <2>1, <3>1, <3>2, <3>3, <3>4, <3>5
    <2>4. Len(plan') = 0
      BY <1>2, <2>2
    <2>5. StartReady' /\ SleepReady'
      BY <1>2, <1>5, <1>6, <2>3 DEF StartReady, SleepReady
    <2>6. ArmReady'
      BY <1>2, <1>7, <2>2, <2>3, <2>4 DEF ArmReady
    <2> QED BY <1>2, <1>3, <2>5, <2>6
  <1> QED BY <1>8, <1>9

\* At the start of the program nothing is ready, and nothing has to be.
LEMMA ReadyAtStart ==
  /\ phase = "start" /\ Len(plan) = 8 /\ call = <<>> /\ ~failed => ReadyInv
  /\ phase' = "start" /\ Len(plan') = 8 /\ call' = <<>> /\ ~failed' => ReadyInv'
  <1>1. ASSUME phase = "start", Len(plan) = 8, call = <<>>, ~failed
        PROVE  ReadyInv
    <2>1. ~Past(7) /\ ~Past(6) /\ ~Asleep /\ ~Armed
      BY <1>1 DEF Past, Asleep, Armed
    <2> QED BY <1>1, <2>1 DEF ReadyInv, StartReady, SleepReady, ArmReady
  <1>2. ASSUME phase' = "start", Len(plan') = 8, call' = <<>>, ~failed'
        PROVE  ReadyInv'
    <2>1. ~Past(7)' /\ ~Past(6)' /\ ~Asleep' /\ ~Armed'
      BY <1>2 DEF Past, Asleep, Armed
    <2> QED BY <1>2, <2>1 DEF ReadyInv, StartReady, SleepReady, ArmReady
  <1> QED BY <1>1, <1>2

\* That the settings made so far are there is inductive.
LEMMA ReadyNext ==
  ASSUME AppTypeOK, PlanInv, RateInv, EnableInv, AppTodo, ReadyInv, [AppNext]_allVars
  PROVE  ReadyInv'
  <1>1. CASE NextCall
    BY <1>1, ReadyCall
  <1>2. CASE Step /\ UNCHANGED appVars
    BY <1>2, ReadyStep
  <1>3. CASE Return /\ UNCHANGED appVars
    BY <1>3, ReadyReturn
  <1>4. CASE NewObject /\ Start
    <2>1. plan' = AccInit \o AccDisableInt /\ phase' = "start" /\ call' = <<>> /\ ~failed'
      BY <1>4 DEF Start, NewObject
    <2>2. threshold \in Nat /\ plan' = MadeIn("start", threshold)
      BY <2>1, ThresholdIsNumber DEF MadeIn
    <2>3. Len(plan') = 8
      BY <2>2, MadeIs
    <2> QED BY <2>1, <2>3, ReadyAtStart
  <1>5. CASE /\ UNCHANGED <<device, object, astray, asked, sure, before>>
             /\ faults' \in {faults, faults + 1}
             /\ Started \/ Decide \/ SleepEnds \/ ReadReg \/ WriteReg \/ WriteRegFails \/ StandBy
    BY <1>5, ReadyQuiet
  <1>6. CASE UNCHANGED allVars
    BY <1>6 DEF ReadyInv, Failures, StartReady, SleepReady, ArmReady, Past, Asleep, Armed, Elements,
       allVars, sensorVars, appVars, device, object
  <1> QED BY <1>1, <1>2, <1>3, <1>4, <1>5, <1>6, AppSteps

\* Without a failed access in this run of the program the tracker stands by
\* as it should, whatever runs before have left behind.
THEOREM ReadyToStandBy == AppSpec => []ReadyForStandby
  <1>1. AppInit => ReadyInv
    <2> SUFFICES ASSUME AppInit
                 PROVE  ReadyInv
      OBVIOUS
    <2>1. threshold \in Nat /\ plan = MadeIn("start", threshold)
      BY AppTypesInit, ThresholdIsNumber DEF AppInit, MadeIn
    <2>2. Len(plan) = 8
      BY <2>1, MadeIs
    <2> QED BY <2>2, ReadyAtStart DEF AppInit, SensorInit
  <1>2. AppTypeOK /\ RateInv /\ ReadyInv => ReadyForStandby
    <2> SUFFICES ASSUME AppTypeOK, RateInv, ReadyInv, phase = "standby", Failures = 0
                 PROVE  /\ state = "CHECKINGMOTION" =>
                              /\ Active("wake_up") /\ regs.WUEvOnInt1
                              /\ regs.ODR_XL = 26 /\ regs.WK_THS = threshold
                              /\ LowPower \in ctrl6_g
                        /\ state = "SLEEP" => regs.ODR_XL = 0 /\ regs.ODR_G = 0
      BY DEF ReadyForStandby
    <2>1. /\ StartReady /\ SleepReady /\ ArmReady
          /\ call = <<>> /\ Len(plan) = 0 /\ Elements(todo) = {}
      BY EmptySeq, ElementsEmpty DEF ReadyInv, AppTypeOK, SensorTypeOK
    <2>2. Past(0) /\ Past(1) /\ Past(2) /\ Past(6) /\ Past(7)
      BY <2>1 DEF Past
    <2>3. sure = Sensors
      BY <2>1, <2>2 DEF StartReady
    <2>4. \A s \in Sensors : /\ Kept(s) /\ ~Done("enable", s) /\ ~Done("disable", s)
      BY <2>1, <2>3 DEF RateInv, Done
    <2>5. ASSUME state = "CHECKINGMOTION"
          PROVE  /\ Active("wake_up") /\ regs.WUEvOnInt1
                 /\ regs.ODR_XL = 26 /\ regs.WK_THS = threshold
                 /\ LowPower \in ctrl6_g
      <3>1. Armed /\ ~Asleep
        BY <2>5 DEF Armed, Asleep
      <3>2. /\ regs["BASIC_INT"] /\ regs["WUEvOnInt1"] /\ regs["WK_THS"] = threshold
            /\ asked["x"] = 26 /\ LowPower \in ctrl6_g
        BY <2>1, <2>2, <3>1 DEF ArmReady
      <3>3. _is_enabled["x"] = 1
        BY <2>1, <2>2, <3>1 DEF StartReady
      <3>4. regs["ODR_XL"] = 26
        BY <2>4, <3>2, <3>3, ReadyFields DEF Kept
      <3>5. Own("wake_up") = {} /\ Switch("wake_up") = "BASIC_INT"
        BY DEF Own, Switch, FunctionGroup
      <3>6. 1 \in DOMAIN Route["wake_up"] /\ Route["wake_up"][1] = "WUEvOnInt1"
        BY DEF Route
      <3>7. Active("wake_up")
        BY <3>2, <3>4, <3>5, <3>6 DEF Active
      <3> QED BY <3>2, <3>4, <3>7
    <2>6. ASSUME state = "SLEEP"
          PROVE  regs.ODR_XL = 0 /\ regs.ODR_G = 0
      <3>1. Asleep
        BY <2>6 DEF Asleep
      <3>2. _is_enabled["g"] = 0 /\ _is_enabled["x"] = 0
        BY <2>1, <2>2, <3>1 DEF SleepReady
      <3> QED BY <2>4, <3>2, ReadyFields DEF Kept
    <2> QED BY <2>5, <2>6
  <1> QED BY <1>1, <1>2, AppInvInit, AppTypes, AppRates, AppTodoNext, ReadyNext, PTL DEF AppSpec

=============================================================================
