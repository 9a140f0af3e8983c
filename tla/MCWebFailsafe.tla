---------------------------- MODULE MCWebFailsafe ---------------------------
(***************************************************************************)
(* The files that clients upload in the runs of WebFailsafe.               *)
(***************************************************************************)
EXTENDS WebFailsafe

Images ==
    {[type |-> "art", len |-> 2, image |-> "openwrt"],
     [type |-> "mibib", len |-> 3, image |-> "openwrt"],
     [type |-> "uboot", len |-> 2, image |-> "openwrt"]}
      \cup [type: {"firmware"}, len: {2, 3}, image: {"openwrt", "emmc", "qsdk"}]

Firmware == {[type |-> "firmware", len |-> 2, image |-> "openwrt"]}
=============================================================================
