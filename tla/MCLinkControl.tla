--------------------------- MODULE MCLinkControl ----------------------------
(* Three switches in a triangle: s1 is a core switch (owned by c1), s2    *)
(* and s3 carry host fields "01" and "02" (owned by c1 and c2).  Each     *)
(* switch has two links, so a port lookup that ignores the peer picks the *)
(* wrong port.                                                             *)
EXTENDS LinkControl, TLC

CONSTANTS t1, t2, c1, c2, s1, s2, s3, Err

MCControllers == <<c1, c2>>
MCCoreSwitches == {s1}
MCHostField == (s1 :> <<0, 0>>) @@ (s2 :> <<0, 1>>) @@ (s3 :> <<0, 2>>)

MCLinks ==
    { [src |-> s1, sport |-> 1, dst |-> s2, dport |-> 1],
      [src |-> s1, sport |-> 2, dst |-> s3, dport |-> 1],
      [src |-> s2, sport |-> 2, dst |-> s3, dport |-> 2] }

(* link.json listing every link in both directions ...                    *)
MCLinkDefBoth == MCLinks \cup {Reverse(l) : l \in MCLinks}
(* ... and listing each link once, in the direction of MCLinks.           *)
MCLinkDefOneWay == MCLinks

(* A wiring table that agrees with MCLinks, in both directions.           *)
MCHwPorts == (<<s1, s2>> :> <<1, 1>>) @@ (<<s2, s1>> :> <<1, 1>>)
             @@ (<<s2, s3>> :> <<2, 2>>) @@ (<<s3, s2>> :> <<2, 2>>)
MCHwDownByDst == {s2}
MCNoHwPorts == <<>>

MCThreadsSerial == {t1}
MCThreadsTwo == {t1, t2}
=============================================================================
