------------------------------ MODULE MCHubData -----------------------------
(***************************************************************************)
(* The instance of HubData for TLC: p1 has a MAC in its frames that is not *)
(* its BLE address, p2 has one address; p2 advertises no name.             *)
(***************************************************************************)
EXTENDS HubData

CONSTANTS p1, p2

MCBle == p1 :> "b" @@ p2 :> "c"
MCMac == p1 :> "m" @@ p2 :> "c"
MCAdvertised == p1 :> "DEAN" @@ p2 :> ""
MCListing == << "b", "c", "m" >>
MCSettings ==
  { << "m", "location", "kitchen" >>, << "m", "location", "" >>,
    << "m", "type", "pir" >>, << "b", "name", "oven" >> }
=============================================================================
