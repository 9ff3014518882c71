---------------------------- MODULE MCLmtAgent ----------------------------
(* Instances of LmtAgent for TLC.  Keys are the character codes of the real *)
(* names: "link" and "unlink" share a slot, "read_bytes" and "write_bytes"  *)
(* would too.                                                               *)
EXTENDS LmtAgent

Osts == <<"ost1", "ost2">>
Mdts == <<"mdt1">>
Oscs == <<"osc1">>
Clients == <<"nid1", "nid2">>

mds_ == <<109, 100, 115, 95>>
link == <<108, 105, 110, 107>>
unlink == <<117, 110, 108, 105, 110, 107>>
snapshot_time == <<115, 110, 97, 112>>

Ops == <<link, unlink>>
Keys == <<link, unlink>>

L(key, val) == [key |-> key, val |-> val]

\* Collisions, and a key that appears twice, under one or both names.
Files == {<<L(snapshot_time, 9), L(link, 1), L(unlink, 2), L(link, 3)>>,
          <<L(mds_ \o link, 1), L(mds_ \o unlink, 2), L(link, 4)>>,
          <<L(link, 5), L(mds_ \o link, 6)>>}
===========================================================================
