--------------------------- MODULE MCResourceClient ---------------------------
(***************************************************************************)
(* ResourceClient for TLC: two specs, one with an address more than the    *)
(* other.                                                                  *)
(***************************************************************************)
EXTENDS ResourceClient, TLC

CONSTANTS many, few, a, b

MCSpecs     == {many, few}
MCAddresses == {a, b}
MCIPs       == (many :> {a, b}) @@ (few :> {a})
===============================================================================
