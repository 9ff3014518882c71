----------------------------- MODULE MCLtopWindows ----------------------------
(* Three or four OSTs on one or two servers, two MDTs on one server.       *)
EXTENDS LtopWindows

MCLists == [w \in Win |->
              IF w = "ost" THEN {[n |-> 3, servers |-> 1], [n |-> 4, servers |-> 2]}
              ELSE {[n |-> 2, servers |-> 1]}]
===============================================================================
