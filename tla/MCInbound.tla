----------------------------- MODULE MCInbound -----------------------------
\* A valve that wakes up and is answered, a switch whose commands have a command field, and a
\* contact whose telegrams are too short for its default bytes and for the answer to its teach-in.
EXTENDS Inbound, TLC

MCSensors ==
  << [rorg |-> Bs4, cases |-> Cases[<<Bs4, 32, 1>>], command |-> "", direction |-> TextOne,
      sender |-> <<>>, default |-> [NoDefault EXCEPT !.values = "TMP" :> 0], answer |-> TRUE],
     [rorg |-> Vld, cases |-> Cases[<<Vld, 1, 1>>], command |-> "CMD", direction |-> None,
      sender |-> <<255, 128, 0, 2>>, default |-> NoDefault, answer |-> FALSE],
     [rorg |-> Bs1, cases |-> Cases[<<Bs1, 0, 1>>], command |-> "", direction |-> None,
      sender |-> <<>>, default |-> [NoDefault EXCEPT !.bytes = <<8, 0, 0, 1>>], answer |-> TRUE] >>
MCShadowChoices == {{}, {<<1, 2>>}, {<<2, 1>>}}
MCSingles == {<<1, "SP", 50>>, <<2, "CMD", 1>>, <<2, "OV", 100>>, <<3, "CO", 1>>}
MCRawTopics == {<<1, Unreadable>>, <<2, <<1, 0, 100>> >>}
MCSends == {<<1, {"learn"}>>, <<1, {"clear"}>>, <<2, {"clear"}>>, <<2, {"raw_data"}>>, <<2, {"learn"}>>}
Json(to, values, send, raw) == [to |-> to, values |-> values, send |-> send, raw |-> raw]
MCBulks ==
  { Json(1, "SP" :> 50, NoSend, Absent), Json(1, "SP" :> Bad, NoSend, Absent),
    Json(2, "CMD" :> 1 @@ "OV" :> 0, {"clear"}, Absent), Json(2, "OV" :> 200, {}, Absent),
    Json(2, NoValues, NotText, Absent),
    Json(2, "CMD" :> 1, {"raw_data"}, <<1, 0, 300>>), Json(2, "CMD" :> 1, {}, <<1, 0, 100>>) }
MCBaseId == <<255, 128, 0, 0>>
MCLearnTelegrams ==
  {<<1, <<Bs4, 128, 8, 0, 128, 5, 0, 0, 1, 0>> >>, <<3, <<Bs1, 0, 5, 0, 0, 3, 0>> >>}
=============================================================================
