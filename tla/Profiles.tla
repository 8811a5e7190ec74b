------------------------------ MODULE Profiles ------------------------------
(***************************************************************************)
(* The part of the EEP profile catalog (protocol/profiles) that the other  *)
(* modules use: what a field, a case and a profile are (_model.py), the    *)
(* builders of _build.py, and the rows of a number of families: rockers    *)
(* and contacts (f6.py), temperature sensors (a5_sensors.py), actuators    *)
(* and gateways (a5_hvac.py), switches (d2_switches.py), blinds and        *)
(* ventilation (d2_devices.py).  Names and descriptions are left out, and  *)
(* so are enum entries that have neither a value nor a range: no raw value *)
(* matches one.  Scales are in tenths of the unit.                         *)
(***************************************************************************)
EXTENDS Integers, Sequences

None == -1                 \* Python's None, where a number is expected
MaxInt == 2147483647       \* TLC's largest integer stands for 2^32 - 1

---------------------------------------------------------------------------
(* Builders.  An item is <<low, high>>, or <<low, high, smin, smax>> when  *)
(* the range scales the raw value.                                         *)

Field(name, offset, size, kind, items, range, scale) ==
  [name |-> name, offset |-> offset, size |-> size, kind |-> kind, items |-> items,
   rmin |-> range[1], rmax |-> range[2], smin |-> scale[1], smax |-> scale[2]]

Value(name, offset, size, range, scale) ==
  Field(name, offset, size, "value", <<>>, range, scale)
Plain(name, offset, size) ==        \* a raw field, or a value without a full scale
  Field(name, offset, size, "raw", <<>>, <<0, 0>>, <<0, 0>>)
Enum(name, offset, size, items) ==
  Field(name, offset, size, "enum", items, <<0, 0>>, <<0, 0>>)
Bool(name, offset) == Field(name, offset, 1, "bool", <<>>, <<0, 0>>, <<0, 0>>)

Upto(n) == << <<0, n>> >>           \* an enum of all the values 0..n
Just(n) == << <<n, n>> >>           \* an enum of one value
Flag(name, offset) == Enum(name, offset, 1, Upto(1))
Set(name, offset) == Enum(name, offset, 1, Just(1))   \* the entry for 0 is missing
Byte(name, offset) == Value(name, offset, 8, <<0, 255>>, <<0, 2550>>)

Cond(source, offset, size, value) ==
  [source |-> source, offset |-> offset, size |-> size, value |-> value]
Case(fields, conditions, direction, status) ==
  [fields |-> fields, conditions |-> conditions, direction |-> direction, status |-> status]
Plainly(fields) == Case(fields, {}, None, <<>>)
On(offset, size, value, fields) ==
  Case(fields, {Cond("data", offset, size, value)}, None, <<>>)
Status(t21, nu, fields) ==          \* T21 and NU are fixed: nameless, so never coded
  Case(fields, {Cond("status", 2, 1, t21), Cond("status", 3, 1, nu)}, None, <<>>)

Lrnb == Flag("LRNB", 28)

---------------------------------------------------------------------------
(* f6.py *)

Rockers(n) == <<Enum("R1", 0, 3, Upto(n)), Flag("EB", 3), Enum("R2", 4, 3, Upto(n)), Flag("SA", 7)>>
Pressed(items) == <<Enum("R1", 0, 3, items), Flag("EB", 3)>>
Coded(name, offset, size, values) ==
  <<Enum(name, offset, size, [k \in DOMAIN values |-> <<values[k], values[k]>>])>>

Contact == <<Plainly(<<Flag("CO", 7), Flag("LRN", 4)>>)>>
FourButtons ==
  <<Status(0, 1, Rockers(7)), Status(0, 0, Pressed(Upto(7)))>>
RockerSwitches ==
  [type \in 1..4 |->
     CASE type = 1 -> <<Case(Rockers(3), {}, None, <<Bool("T21", 2), Bool("NU", 3)>>)>>
       [] type = 2 -> <<Status(1, 1, Rockers(3)), Status(1, 0, Pressed(<< <<0, 0>>, <<3, 3>> >>))>>
       [] type = 3 -> <<Plainly(Coded("RA", 0, 8, <<48, 16, 112, 80>>))>>
       [] type = 4 -> <<Plainly(<<Flag("EBO", 0), Enum("BC", 1, 1, Just(0)), Flag("RBI", 4),
                                  Flag("RB0", 5), Flag("RAI", 6), Flag("RA0", 7)>>)>>]
KeyCards ==
  [type \in 1..2 |->
     IF type = 1 THEN <<Status(1, 1, Coded("KC", 0, 8, <<112>>)), Status(1, 0, Coded("KC", 0, 8, <<0>>))>>
     ELSE <<Plainly(<<Flag("EBO", 0), Enum("BC", 1, 1, Just(0)), Flag("SOC", 5)>>)>>]
Detectors ==
  [type \in 0..2 |->
     IF type = 1 THEN <<Plainly(Coded("WAS", 0, 8, <<17>>))>>
     ELSE <<Plainly(Coded(IF type = 0 THEN "WND" ELSE "SMO", 0, 8, <<0, 16, 48>>))>>]
Handles ==
  [type \in 0..1 |->
     IF type = 0 THEN <<Status(1, 0, Coded("WIN", 0, 8, <<>>))>>
     ELSE <<Plainly(<<Enum("HC", 1, 1, Just(1))>> \o Coded("HVL", 4, 4, <<15, 13, 15, 13>>))>>]

---------------------------------------------------------------------------
(* a5_sensors.py: in the range of a type the scale runs against the value. *)

TemperatureLow == [type \in 1..27 |->            \* the lowest temperature, in degrees
  IF type <= 11 THEN 10 * type - 50 ELSE 10 * type - 220]
Temperature(type) ==
  LET low == 10 * TemperatureLow[type]
      span == IF type <= 11 THEN 400 ELSE 800
  IN <<Plainly(<<Lrnb, Value("TMP", 16, 8, <<255, 0>>, <<low, low + span>>)>>)>>

---------------------------------------------------------------------------
(* a5_hvac.py *)

Percent == <<0, 100>>
BatteryActuator ==
  << Case(<<Lrnb, Value("CV", 0, 8, Percent, <<0, 1000>>), Set("SO", 8), Set("ENIE", 9), Set("ES", 10),
            Enum("BCAP", 11, 1, Just(0)), Set("CCO", 12), Set("FTS", 13), Set("DWO", 14), Set("ACO", 15),
            Value("TMP", 16, 8, <<0, 255>>, <<0, 400>>)>>, {}, 1, <<>>),
     Case(<<Lrnb, Plain("SP", 0, 8), Value("TMP", 8, 8, <<255, 0>>, <<0, 400>>), Set("RIN", 16), Set("LFS", 17),
            Set("VO", 18), Set("VC", 19), Set("SB", 20), Flag("SPS", 21), Set("SPN", 22), Flag("RCU", 23)>>,
          {}, 2, <<>>) >>
BasicActuator ==
  << Case(<<Lrnb, Value("AV", 0, 8, Percent, <<0, 1000>>), Set("SPI", 22)>>, {}, 1, <<>>),
     Case(<<Lrnb, Value("VSP", 0, 8, Percent, <<0, 1000>>), Set("VSP", 22)>>, {}, 2, <<>>) >>

Com(n, fields) == On(0, 8, n, <<Lrnb, Enum("COM", 0, 8, Just(n))>> \o fields)
Gateway ==
  << Plainly(<<Lrnb, Enum("COM", 0, 8, Just(1)), Value("TIM", 8, 16, <<1, 65535>>, <<1, 65535>>),
               Flag("LCK", 29), Flag("DEL", 30), Flag("SW", 31)>>),
     Com(2, <<Value("EDIM", 8, 8, <<0, 255>>, <<0, 1000>>), Byte("RMP", 16),
              Flag("EDIM R", 29), Flag("STR", 30), Flag("SW", 31)>>),
     Com(3, <<Value("SP", 16, 8, <<0, 255>>, <<-127, 128>>)>>),
     Com(4, <<Value("BSP", 16, 8, <<0, 255>>, <<0, 512>>)>>),
     Com(5, <<Value("CVOV", 16, 8, <<0, 255>>, <<0, 1000>>), Enum("CM", 25, 2, Upto(3)), Flag("CS", 27),
              Flag("ENHO", 29), Enum("RMOCC", 30, 2, Upto(2))>>),
     Com(6, <<Enum("FO", 16, 8, << <<0, 3>>, <<255, 255>> >>)>>),
     Com(7, <<Enum("P1", 8, 8, <<>>), Enum("P2", 16, 8, <<>>), Enum("FUNC", 24, 4, Upto(11)),
              Flag("SSF", 29), Flag("PAF", 30), Flag("SMF", 31)>>) >>
Universal == <<Plainly(<<Byte("DB3", 0), Byte("DB2", 8), Byte("DB1", 16), Byte("DB0", 24)>>)>>

---------------------------------------------------------------------------
(* d2_switches.py: every type of D2-01 has one of two layouts (a third,    *)
(* D2-01-0C, is left out).                                                 *)

Actuate(n, fields) ==        \* the fields lie around those of the command and the channel
  LET Between(low, high) == SelectSeq(fields, LAMBDA f : low < f.offset /\ f.offset < high)
  IN On(4, 4, n, Between(-1, 4) \o <<Enum("CMD", 4, 4, Upto(13))>> \o Between(4, 11)
                 \o <<Enum("IO", 11, 5, Upto(31))>> \o Between(11, 48))
SwitchCases ==
  << Actuate(1, <<Enum("DV", 8, 3, Upto(4)), Enum("OV", 17, 7, Upto(127))>>),
     Actuate(3, <<>>),
     Actuate(4, <<Flag("PF", 0), Flag("PFD", 1), Flag("OC", 8), Enum("EL", 9, 2, Upto(3)), Flag("LC", 16),
                  Enum("OV", 17, 7, Upto(127))>>) >>
MeteringCases ==
  SwitchCases \o
  << Actuate(5, <<Flag("RM", 8), Flag("RE", 9), Flag("ep", 10), Enum("MD_LSB", 16, 4, Upto(15)),
                  Enum("UN", 21, 3, Upto(7)), Enum("MD_MSB", 24, 8, Upto(255)),
                  Enum("MAT", 32, 8, Upto(255)), Enum("MIT", 40, 8, Upto(255))>>),
     Actuate(6, <<Flag("qu", 10)>>),
     Actuate(7, <<Enum("UN", 8, 3, Upto(7)), Enum("MV", 16, 32, Upto(MaxInt))>>) >>
Metering == {0, 2, 4, 5, 6, 8, 9, 11, 14, 16}
NotMetering == {1, 3, 7, 10, 13, 15, 17, 18, 19, 20}

---------------------------------------------------------------------------
(* d2_devices.py *)

BlindTypes == {0, 1, 2, 4, 5}
Blinds(type) ==
  LET channels == IF type = 2 THEN Upto(15) ELSE Just(0)
      commands == IF type = 2 THEN Upto(15) ELSE Upto(5)
      place == <<Enum("POS", 1, 7, << <<127, 127>>, <<0, 100>> >>), Enum("ANG", 9, 7, << <<127, 127>>, <<0, 100>> >>)>>
      tail(chn) == <<Enum("LOCK", 21, 3, Upto(7)), Enum("CHN", 24, 4, chn), Enum("CMD", 28, 4, commands)>>
      short == <<Enum("CHN", 0, 4, channels), Enum("CMD", 4, 4, commands)>>
  IN << On(28, 4, 1, place \o <<Enum("REPO", 17, 3, Upto(3))>> \o tail(channels)),
        On(28, 4, 2, short),          \* the condition lies beyond the one byte of
        On(28, 4, 3, short),          \* these two: only a command selects them
        On(28, 4, 4, place \o tail(IF type = 2 THEN channels ELSE Upto(3))) >>

VentilationTypes == {0, 1, 16, 17}
Level == << <<0, 100>>, <<101, 126>>, <<127, 127>> >>
Mt(n, fields) == On(0, 3, n, <<Enum("MT", 0, 3, Upto(7))>> \o fields)
Flags(names, from) == [k \in DOMAIN names |-> Flag(names[k], from + k - 1)]
Degrees(name, offset) == Value(name, offset, 7, <<0, 127>>, <<-640, 630>>)
Count(name, offset, size) == Value(name, offset, size, <<0, 2^size - 1>>, <<0, 10 * (2^size - 1)>>)
Ventilation ==
  << Mt(0, <<Enum("RMT", 5, 3, Upto(7))>>),
     Mt(1, <<Enum("DOMC", 4, 4, Upto(15)), Enum("OMC", 8, 2, Upto(3)), Enum("HBC", 10, 2, Upto(3)),
             Flag("TOMC", 16), Enum("COT", 17, 7, Level), Enum("HT", 25, 7, Level), Enum("AQT", 33, 7, Level),
             Enum("RTT", 41, 7, << <<1, 127, -630, 630>>, <<0, 0>> >>)>>),
     Mt(2, <<Plain("OMS", 4, 4)>> \o Flags(<<"SMS", "HBS", "SFP", "EFP">>, 12)
           \o Flags(<<"DMS", "CPS", "OHS", "SHS", "DHS", "TOMS", "FMS", "WTPS", "RTCS">>, 16)
           \o <<Enum("AQS1", 25, 7, Level), Flag("MSS", 32), Enum("AQS2", 33, 7, Level),
                Degrees("OUTT", 40), Degrees("SPLYT", 47), Degrees("INT", 54), Degrees("EXHT", 61),
                Count("SPLYFF", 68, 10), Count("EXHFF", 78, 10), Count("SPLYFS", 88, 12), Count("EXHFS", 100, 12)>>),
     Mt(3, <<Count("SVI", 4, 12), Value("OHC", 16, 16, <<0, 65535>>, <<0, 1966050>>)>>
           \o [k \in 1..3 |-> Enum(<<"DIS", "DOS", "IMS">>[k], 16 + 16 * k, 16, [b \in 1..16 |-> <<2^(b-1), 2^(b-1)>>])]
           \o <<Enum("FS", 80, 32, [b \in 1..31 |-> <<2^(b-1), 2^(b-1)>>])>>) >>

---------------------------------------------------------------------------
(* The catalog: the profiles by RORG, FUNC and TYPE (PROFILES and          *)
(* ProfileRegistry.find).                                                  *)

Rps == 246
Bs1 == 213
Bs4 == 165
Vld == 210

Catalog ==
  {<<Bs1, 0, 1>>, <<Rps, 1, 1>>} \cup {<<Rps, 2, t>> : t \in 1..4} \cup {<<Rps, 3, t>> : t \in 1..2}
  \cup {<<Rps, 4, t>> : t \in 1..2} \cup {<<Rps, 5, t>> : t \in 0..2} \cup {<<Rps, 16, t>> : t \in 0..1}
  \cup {<<Bs4, 2, t>> : t \in (1..11) \cup (16..27)}
  \cup {<<Bs4, 32, 1>>, <<Bs4, 32, 2>>, <<Bs4, 56, 8>>, <<Bs4, 63, 127>>}
  \cup {<<Vld, 1, t>> : t \in Metering \cup NotMetering}
  \cup {<<Vld, 5, t>> : t \in BlindTypes} \cup {<<Vld, 80, t>> : t \in VentilationTypes}

\* The cases of a profile, in order.
Cases == [eep \in Catalog |->
  LET rorg == eep[1]
      func == eep[2]
      type == eep[3]
  IN CASE rorg = Bs1 -> Contact
       [] rorg = Rps /\ func = 1 -> <<Plainly(<<Flag("PB", 3)>>)>>
       [] rorg = Rps /\ func = 2 -> RockerSwitches[type]
       [] rorg = Rps /\ func = 3 -> FourButtons
       [] rorg = Rps /\ func = 4 -> KeyCards[type]
       [] rorg = Rps /\ func = 5 -> Detectors[type]
       [] rorg = Rps /\ func = 16 -> Handles[type]
       [] rorg = Bs4 /\ func = 2 -> Temperature(type)
       [] rorg = Bs4 /\ func = 32 -> IF type = 1 THEN BatteryActuator ELSE BasicActuator
       [] rorg = Bs4 /\ func = 56 -> Gateway
       [] rorg = Bs4 /\ func = 63 -> Universal
       [] rorg = Vld /\ func = 1 -> IF type \in Metering THEN MeteringCases ELSE SwitchCases
       [] rorg = Vld /\ func = 5 -> Blinds(type)
       [] rorg = Vld /\ func = 80 -> Ventilation]

\* What the registry finds: no case at all for a profile it does not have.
Find(rorg, func, type) ==
  IF <<rorg, func, type>> \in Catalog THEN Cases[<<rorg, func, type>>] ELSE <<>>
=============================================================================
