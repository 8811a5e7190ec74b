---------------------------- MODULE MCReception ----------------------------
\* Below Home Assistant a shutter actuator, and a switch; without it, contacts.
EXTENDS Reception, TLC

Shutter == <<5, 0, 0, 1>>
Switch == <<5, 0, 0, 2>>
Door == <<5, 0, 0, 3>>
Window == <<5, 0, 0, 4>>
Old == <<5, 0, 0, 5>>

Device(name, address, eep) ==
  [name |-> name, address |-> address, rorg |-> eep[1], cases |-> Cases[eep], direction |-> None,
   json |-> TRUE, rssi |-> TRUE, date |-> TRUE, channel |-> <<>>, cover |-> "", logLearn |-> FALSE,
   ignore |-> FALSE]
Telegram(data, told) ==
  [type |-> Radio, data |-> data, optional |-> <<3, 255, 255, 255, 255, 60, 0>>, told |-> told]
Message(name, groups, field, payload) == Told(Topic(name, groups, field), payload)
Meta1 == "_RSSI_" :> <<-60>> @@ "_DATE_" :> <<>>
Units(n) == <<10 * n, 1>>

Ran(db2, db1) ==
  Telegram(<<Bs4, 0, db2, db1, 8>> \o Shutter \o <<0>>,
    <<Message("shutter/a5", <<>>, "",
        "DB3" :> Units(0) @@ "DB2" :> Units(db2) @@ "DB1" :> Units(db1) @@ "DB0" :> Units(8)
        @@ "_RAW_DATA_" :> <<0, db2, db1, 8, 0>> @@ Meta1)>>)
Shutters1 ==
  [devices |->
     << [Device("shutter/a5", Shutter, <<Bs4, 63, 127>>) EXCEPT !.cover = "shutter"],
        [Device("shutter/f6", Shutter, <<Rps, 2, 1>>) EXCEPT !.cover = "shutter"] >>,
   frames |->
     << Ran(85, 1),                                          \* 8.5 s up; 85 is the sync byte
        Ran(24, 2),                                          \* 2.4 s down
        Telegram(<<Rps, 112>> \o Shutter \o <<48>>,          \* open
          <<Message("shutter/f6", <<>>, "",
              "R1" :> Units(3) @@ "EB" :> Units(1) @@ "R2" :> Units(0) @@ "SA" :> Units(0)
              @@ "T21" :> Units(1) @@ "NU" :> Units(1) @@ "_RAW_DATA_" :> <<112, 48>> @@ Meta1)>>) >>]

Switches ==
  [devices |-> << [Device("switch", Switch, <<Vld, 1, 1>>) EXCEPT !.channel = <<"IO">>] >>,
   frames |->
     << Telegram(<<Vld, 4, 97, 228>> \o Switch \o <<0>>,     \* on at 100 %
          << Message("switch", <<>>, "", Meta1),
             Message("switch", << <<"IO", Units(1)>> >>, "",
               "PF" :> Units(0) @@ "PFD" :> Units(0) @@ "CMD" :> Units(4) @@ "OC" :> Units(0)
               @@ "EL" :> Units(3) @@ "LC" :> Units(1) @@ "OV" :> Units(100)
               @@ "_RAW_DATA_" :> <<4, 97, 228, 0>> @@ "_DATE_" :> <<>>) >>),
        \* no packet can be made of this one
        [type |-> Radio, data |-> <<Bs1, 9>> \o Window \o <<0>>, optional |-> <<3, 255>>, told |-> <<>>],
        [type |-> Response, data |-> <<0>>, optional |-> <<>>, told |-> <<>>] >>]

Contacts ==
  [devices |->
     << [Device("old", Old, <<Bs1, 0, 1>>) EXCEPT !.rorg = None, !.ignore = TRUE],
        [Device("window", Window, <<Bs1, 0, 1>>) EXCEPT !.json = FALSE, !.date = FALSE],
        [Device("door", Door, <<Bs1, 0, 1>>) EXCEPT !.json = FALSE, !.channel = <<"CO">>] >>,
   frames |->
     << Telegram(<<Bs1, 9>> \o Window \o <<0>>,              \* closed
          << Message("window", <<>>, "_RSSI_", "_RSSI_" :> <<-60>>),
             Message("window", <<>>, "CO", "CO" :> Units(1)),
             Message("window", <<>>, "_RAW_DATA_", "_RAW_DATA_" :> <<9, 0>>) >>),
        Telegram(<<Bs1, 0>> \o Window \o <<0>>, <<>>),       \* a teach-in
        Telegram(<<Bs1, 8>> \o Door \o <<0>>,                \* open
          << Message("door", <<>>, "_RSSI_", "_RSSI_" :> <<-60>>),
             Message("door", <<>>, "_DATE_", "_DATE_" :> <<>>),
             Message("door", << <<"CO", Units(0)>> >>, "_DATE_", "_DATE_" :> <<>>),
             Message("door", << <<"CO", Units(0)>> >>, "_RAW_DATA_", "_RAW_DATA_" :> <<8, 0>>) >>),
        Telegram(<<Bs1, 9>> \o Old \o <<0>>, <<>>) >>]       \* ignored

MCSetups == <<Shutters1, Switches, Contacts>>
MCDamages == {Intact} \cup [kind : {"alter"}, at : {3, 8}] \cup [kind : {"lose"}, at : {9}]
MCShutTime == "shutter" :> 17
MCRuns == {85, -24}


=============================================================================
