------------------------------ MODULE MCLmtInit ------------------------------
(* Instance of LmtInit for TLC.  One operation is only in the schema, one   *)
(* is named twice by get_all_opnames, and an old database lacks one.        *)
EXTENDS LmtInit

MCSchemaOps == <<"open", "packmd", "read_bytes">>
MCAllOps == <<"open", "open", "read_bytes">>
MCNamePrefix == {<<f, f>> : f \in Fs} \cup {<<"lc1", "lc10">>}

=============================================================================
