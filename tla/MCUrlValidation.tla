-------------------------- MODULE MCUrlValidation --------------------------
(***************************************************************************)
(* The octets at both edges of every reserved block, and those whose text  *)
(* begins like one of them: 100 like 10, 160 like 16.                      *)
(***************************************************************************)
EXTENDS UrlValidation

CONSTANTS ip6, nothing

MCOctets1 == {0, 1, 9, 10, 11, 100, 126, 127, 128, 168, 169, 170,
              171, 172, 173, 191, 192, 193, 255}
MCOctets2 == {0, 1, 15, 16, 19, 20, 29, 30, 31, 32, 160, 167, 168, 169,
              253, 254, 255}
=============================================================================
