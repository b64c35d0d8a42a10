------------------------------ MODULE MsgTypes ------------------------------
(***************************************************************************)
(* Which messages a request of rt_msgrcv asks for (user/sysvmsg/msg.c).     *)
(***************************************************************************)
EXTENDS Integers

convert_mode(r) ==
  IF r.typ = 0 THEN "ANY"
  ELSE IF r.typ < 0 THEN "LESSEQUAL"
  ELSE IF r.except THEN "NOTEQUAL" ELSE "EQUAL"

absTyp(r) == IF r.typ < 0 THEN - r.typ ELSE r.typ

testmsg(type, r) ==
  \/ convert_mode(r) = "ANY"
  \/ convert_mode(r) = "LESSEQUAL" /\ type <= absTyp(r)
  \/ convert_mode(r) = "EQUAL" /\ type = absTyp(r)
  \/ convert_mode(r) = "NOTEQUAL" /\ type # absTyp(r)
=============================================================================
