----------------------------- MODULE MC_Framing -----------------------------
(* Requests over every reader of utils.rs: an action byte and a usize      *)
(* module index (RequestCompanionSocket), a u32 and a string, a string    *)
(* that is not UTF-8, an empty string.                                    *)
EXTENDS Framing

MCMessages ==
  { << [type |-> "u8", value |-> 5], [type |-> "usize", value |-> 258] >>,
    << [type |-> "u32", value |-> 65538], [type |-> "string", value |-> <<97, 98>>] >>,
    << [type |-> "string", value |-> <<97, 255>>], [type |-> "u8", value |-> 1] >>,
    << [type |-> "string", value |-> <<>>], [type |-> "u8", value |-> 0] >> }

=============================================================================
