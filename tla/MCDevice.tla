------------------------------- MODULE MCDevice -------------------------------
(***************************************************************************)
(* Constants for the model-checking run of Device.                         *)
(***************************************************************************)
EXTENDS Device

Fixed(mv, ca) == [kind |-> "fixed", lo |-> mv, hi |-> mv, ca |-> ca]
Pps(lo, hi, ca) == [kind |-> "pps", lo |-> lo, hi |-> hi, ca |-> ca]

MCModes == {"sink", "setup"}

\* One configuration whose second voltage lies below its first, and which gives
\* power back; one that states its power; one that a power loss has left without
\* any of its fields.
High == [valid |-> TRUE, v |-> 15000, vmin |-> 5000, vmax |-> 9000,
         defn |-> "I", x |-> 150, giveback |-> TRUE, hvPreferred |-> TRUE]
Low == [valid |-> TRUE, v |-> 5050, vmin |-> 5000, vmax |-> 5500,
        defn |-> "P", x |-> 120, giveback |-> FALSE, hvPreferred |-> FALSE]
Torn == [valid |-> TRUE, v |-> 65535, vmin |-> 65535, vmax |-> 65535,
         defn |-> "none", x |-> 65535, giveback |-> TRUE, hvPreferred |-> TRUE]
MCConfigs == {High, Low, Torn}

\* A fixed supply that High can use and one (of PPS too) that it cannot.
MCOffers == { <<Fixed(5000, 300), Fixed(9000, 245), Fixed(11750, 210)>>,
              <<Fixed(5000, 100), Pps(3300, 5900, 300)>> }
=============================================================================
