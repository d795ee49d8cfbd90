------------------------------- MODULE MCNews -------------------------------
(* News, for TLC: two forms, which share a watermark. *)
EXTENDS News

MCForms == <<"4", "8-K">>
=============================================================================
