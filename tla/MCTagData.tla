------------------------------ MODULE MCTagData -----------------------------
(***************************************************************************)
(* Constants for model checking TagData.                                   *)
(***************************************************************************)
EXTENDS TagData

(* Before the data, its first bytes, and around the end of a metatag that  *)
(* lists the one predefined tag.                                           *)
MCOffsets == {-1, 0, 38, 39}

(* "name=a", "name=@tags", "elem_size=1", "protocol=ab", "protocol", "x".  *)
MCAttributes ==
    {[key |-> "name", val |-> 1], [key |-> "name", val |-> METATAG_NAME],
     [key |-> "elem_size", val |-> 1], [key |-> "protocol", val |-> 2],
     [key |-> "protocol", val |-> NULL], [key |-> "x", val |-> NULL]}

=============================================================================
