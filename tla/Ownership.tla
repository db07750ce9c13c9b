------------------------------ MODULE Ownership ------------------------------
(***************************************************************************)
(* Which host a demo command for a switch is sent to                       *)
(* (topology_rest.py: link_up_sw, link_down, iperf_start, iperf_rate).     *)
(*                                                                         *)
(*   if dpid in core_switches: host = controllers[0]                       *)
(*   else: hostid = int(dpid.split(':')[-2]); host = controllers[hostid-1] *)
(*                                                                         *)
(* A dpid is abstracted to the two characters of its second-to-last       *)
(* colon-separated field; core_switches and controllers come from          *)
(* config.json.  Python's list indexing is modelled as it behaves: a       *)
(* negative index counts from the end, any other out-of-range index        *)
(* raises IndexError.                                                      *)
(***************************************************************************)
EXTENDS Integers, Sequences

CONSTANTS
    Controllers,    \* config.json "controllers": a sequence of host names
    CoreSwitches,   \* config.json "core_switches"
    Error           \* the request raised (ValueError / IndexError)

Digits == 0..9
HexLetters == {"a", "b", "c", "d", "e", "f"}
HexChars == Digits \cup HexLetters

(* int() of a two-character field, base 10: only decimal digits parse.    *)
ParseInt(field) ==
    IF field[1] \in Digits /\ field[2] \in Digits
    THEN 10 * field[1] + field[2]
    ELSE Error

(* Python's list[i] on a 0-based index.                                   *)
PyIndex(list, i) ==
    IF 0 <= i /\ i < Len(list) THEN list[i + 1]
    ELSE IF -Len(list) <= i /\ i < 0 THEN list[Len(list) + i + 1]
    ELSE Error

(* The host a command for switch dpid (with host field `field`) goes to.  *)
OwnerHost(dpid, field) ==
    IF dpid \in CoreSwitches THEN Controllers[1]
    ELSE LET hostid == ParseInt(field)
         IN IF hostid = Error THEN Error ELSE PyIndex(Controllers, hostid - 1)
=============================================================================
