------------------------------ MODULE MCSession ------------------------------
(***************************************************************************)
(* Small instances of Session for TLC.  A host's frames hold fingers that  *)
(* are touching and confident: build_touch_frame in                        *)
(* host/src/capture/trackpad.rs sends no other kind.                       *)
(***************************************************************************)
EXTENDS Session, TLC

HostFrames ==
  {f \in TouchFrame :
     \A id \in DOMAIN f.contacts : f.contacts[id].touching /\ f.contacts[id].confident}

(* Connection handles, addresses and fingers are interchangeable: no       *)
(* definition tells two of them apart.                                     *)
Interchangeable ==
  Permutations(Handles) \cup Permutations(Addrs) \cup Permutations(ContactIds)
=============================================================================
