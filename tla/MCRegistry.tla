------------------------------ MODULE MCRegistry ------------------------------
(* Instance values for the registry: three files, two of one name, in two directories. *)
(* The second is one of the common directories.  *)
EXTENDS Registry

ThreeFiles == {1, 2, 3}
TwoNames   == <<"x", "x", "y">>
TwoPlaces  == <<1, 2, 2>>
TwoDirs    == {1, 2}
OneCommon  == {2}
TwoBases   == <<1, 1, 2>>
Scores     == <<1, 5>>
NoneTooBig == {}
OnlyPins   == {"vllm"}

=============================================================================
