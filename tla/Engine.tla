------------------------------- MODULE Engine -------------------------------
(***************************************************************************)
(* The EEP engine (protocol/profiles/engine.py) and the codec around it    *)
(* (eep_codec.py): which case of a profile a telegram or a command         *)
(* selects, and how the fields of that case are read and written.          *)
(*                                                                         *)
(* Bits are sequences of 0 and 1, the most significant first.  A scaled    *)
(* value is the fraction <<numerator, denominator>>, in tenths of the unit *)
(* (the code computes in floating point); what is written is an integer,   *)
(* which is all that MQTT commands carry.                                  *)
(***************************************************************************)
EXTENDS Profiles, FiniteSets, SequencesExt

\* The bits of a value; of a negative one those of its two's complement, as >> gives them.
ToBits(value, width) ==
  [i \in 1..width |-> IF width - i <= 30 THEN (value \div 2^(width - i)) % 2
                      ELSE IF value < 0 THEN 1 ELSE 0]
FromBits(bits) ==
  LET value[i \in 0..Len(bits)] == IF i = 0 THEN 0 ELSE 2 * value[i - 1] + bits[i]
  IN value[Len(bits)]

Raw(bits, offset, size) ==
  IF offset + size > Len(bits) THEN None ELSE FromBits(SubSeq(bits, offset + 1, offset + size))

---------------------------------------------------------------------------
(* Which case applies: the first one taken, else the first that asks for   *)
(* nothing, else the first of all.                                         *)

ConditionHolds(c, data, status) ==
  Raw(IF c.source = "status" THEN status ELSE data, c.offset, c.size) = c.value

IsFor(case, command) ==       \* an explicit command counts instead of the bits
  LET own == {c \in case.conditions : c.source = "data"}
  IN own # {} /\ \A c \in own : c.value = command

Open(case, direction) ==
  case.direction = None \/ direction = None \/ case.direction = direction

Takes(case, data, status, direction, command) ==
  /\ Open(case, direction)
  /\ IF command # None /\ case.conditions # {} THEN IsFor(case, command)
     ELSE /\ \A c \in case.conditions : ConditionHolds(c, data, status)
          /\ case.conditions # {} \/ case.direction # None

SelectCase(cases, data, status, direction, command) ==
  LET taken == {i \in DOMAIN cases : Takes(cases[i], data, status, direction, command)}
      default == {i \in DOMAIN cases : cases[i].conditions = {} /\ cases[i].direction = None}
  IN cases[IF taken # {} THEN Min(taken) ELSE IF default # {} THEN Min(default) ELSE 1]

---------------------------------------------------------------------------
(* Decoding: the shortcuts with the values that are published.  A field    *)
(* beyond the end of the telegram is left out; of two fields with the same *)
(* shortcut the later one counts.                                          *)

Linear(raw, rmin, rmax, smin, smax) ==
  LET n == IF rmax < rmin THEN smin - smax ELSE smax - smin
      d == IF rmax < rmin THEN rmin - rmax ELSE rmax - rmin
  IN IF n % d = 0 THEN <<(n \div d) * (raw - rmin) + smin, 1>>
     ELSE <<n * (raw - rmin) + smin * d, d>>

InItem(item, raw) == item[1] <= raw /\ raw <= item[2]
Published(field, raw) ==
  LET fits == {i \in DOMAIN field.items : InItem(field.items[i], raw)}
      item == field.items[Min(fits)]
  IN IF field.kind = "value" THEN Linear(raw, field.rmin, field.rmax, field.smin, field.smax)
     ELSE IF field.kind = "enum" /\ fits # {} /\ Len(item) = 4
          THEN Linear(raw, item[1], item[2], item[3], item[4])
     ELSE <<10 * raw, 1>>

Fields(case) == case.fields \o case.status
RawOf(case, k, data, status) ==
  LET field == Fields(case)[k]
  IN Raw(IF k <= Len(case.fields) THEN data ELSE status, field.offset, field.size)

Decode(case, data, status) ==
  LET present == {k \in DOMAIN Fields(case) : RawOf(case, k, data, status) # None}
      last(name) == Max({k \in present : Fields(case)[k].name = name})
  IN [name \in {Fields(case)[k].name : k \in present} |->
        Published(Fields(case)[last(name)], RawOf(case, last(name), data, status))]

---------------------------------------------------------------------------
(* Encoding.  A value out of scale is written with the bits that fit; an   *)
(* enum takes only what an entry names, else it is a ValueError; writing   *)
(* beyond the end of the telegram is an IndexError.                        *)

TruncDiv(a, b) == IF (a < 0) = (b < 0) THEN a \div b ELSE -((-a) \div b)

EncodeField(field, value) ==
  CASE field.kind = "value" ->
         LET n == field.smax - field.smin
         IN TruncDiv((10 * value - field.smin) * (field.rmax - field.rmin) + field.rmin * n, n)
    [] field.kind = "bool" -> IF value = 1 THEN 1 ELSE 0
    [] OTHER -> value

Target(case, name) ==         \* the field a shortcut is written to: data before status
  LET named(fields) == {k \in DOMAIN fields : fields[k].name = name}
  IN IF named(case.fields) # {} THEN Max(named(case.fields))
     ELSE Len(case.fields) + Max(named(case.status))
Known(case, values) == {n \in DOMAIN values : \E k \in DOMAIN Fields(case) : Fields(case)[k].name = n}

Rejected(case, values) ==
  \E n \in Known(case, values) :
    LET field == Fields(case)[Target(case, n)]
    IN field.kind = "enum" /\ ~\E i \in DOMAIN field.items : InItem(field.items[i], values[n])

\* The bits of the payload or of the status with the values written into them.
Written(bits, case, values, inData) ==
  LET writes == {k \in {Target(case, n) : n \in Known(case, values)} : (k <= Len(case.fields)) = inData}
      covers(k, i) == Fields(case)[k].offset < i /\ i <= Fields(case)[k].offset + Fields(case)[k].size
      bit(k, i) == LET field == Fields(case)[k]
                   IN ToBits(EncodeField(field, values[field.name]), field.size)[i - field.offset]
  IN [i \in DOMAIN bits |-> IF \E k \in writes : covers(k, i)
                            THEN bit(CHOOSE k \in writes : covers(k, i), i) ELSE bits[i]]

\* The bytes a VLD telegram needs for the case that is selected before it has any payload.
VldDataBytes(cases, direction, command) ==
  IF cases = <<>> THEN 1
  ELSE LET case == SelectCase(cases, <<0>>, ToBits(0, 8), direction, command)
           ends == {case.fields[k].offset + case.fields[k].size : k \in DOMAIN case.fields}
       IN IF ends = {} THEN 1 ELSE (Max(ends) + 7) \div 8
=============================================================================
