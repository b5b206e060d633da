---------------------------- MODULE MCSNMPTable ----------------------------
(***************************************************************************)
(* A small instance of SNMPTable for TLC.                                  *)
(***************************************************************************)
EXTENDS SNMPTableProperties

\* Two columns of an interface table, and one that takes any type.
Columns3 ==
  LET Traffic == InterfaceColumns(TRUE)
  IN  {Traffic[1], Traffic[2],
       [name |-> "plain", expected |-> AnyType,
        fallback |-> NoName, fallbackExpected |-> AnyType]}

Names == {"plain", "ifDescr", "ifHCInOctets", "ifInOctets",
          "ifHCOutOctets", "ifOutOctets"}

Outcomes ==
  {[status |-> "Success", type |-> "Counter64"],
   [status |-> "Success", type |-> "Counter32"],
   [status |-> "Missing", type |-> "NoSuchInstance"]}
=============================================================================
