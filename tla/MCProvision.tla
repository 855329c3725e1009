---------------------------- MODULE MCProvision ----------------------------
(***************************************************************************)
(* Instances of Provision for TLC: two networks, and for the first of them *)
(* a password that is mistyped.                                            *)
(***************************************************************************)
EXTENDS Provision

CONSTANTS home, office, key1, key2, typo

Home == [ssid |-> home, psk |-> key1]
Typo == [ssid |-> home, psk |-> typo]
Office == [ssid |-> office, psk |-> key2]

TwoAndATypo == {Home, Typo, Office}
RightOnes == {Home, Office}
HomeAndATypo == {Home, Typo}
RightOne == {Home}
=============================================================================
