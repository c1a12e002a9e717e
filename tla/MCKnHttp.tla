------------------------------ MODULE MCKnHttp ------------------------------
(***************************************************************************)
(* Instances of KnHttp: a header of two segments and a body of one, and    *)
(* answers below and above 300.                                            *)
(***************************************************************************)
EXTENDS KnHttp

MCCodes == {200, 404}
==============================================================================
