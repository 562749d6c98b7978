----------------------------- MODULE ConfigStore -----------------------------
(***************************************************************************)
(* What the configuration shell promises of the stored configuration: an   *)
(* abstract store, implemented by Shell.  It knows nothing of the flash    *)
(* page, of half-words' places or of the cached location.                  *)
(*                                                                         *)
(* A write is not atomic: the old configuration goes, and the new one      *)
(* comes field by field.  What a loss of power leaves is what is there.    *)
(***************************************************************************)
EXTENDS Naturals

CONSTANTS
    Config,         \* the configurations
    NoConfig,       \* nothing is stored
    Begun(_, _)     \* of the configuration c, the first n fields

VARIABLES
    stored,         \* the configuration that is found in flash, or NoConfig
    buffer,         \* the configuration being edited
    doing           \* "nothing", "write", "erase", or "off": no power

storeVars == <<stored, buffer, doing>>

Init == /\ stored = NoConfig
        /\ buffer \in Config
        /\ doing = "off"

\* The shell starts by loading what is stored.
Load == buffer' = IF stored = NoConfig THEN buffer ELSE stored
Start == doing = "off" /\ doing' = "nothing" /\ Load /\ UNCHANGED stored

LoadAgain == doing = "nothing" /\ Load /\ UNCHANGED <<stored, doing>>
Edit == doing = "nothing" /\ buffer' \in Config /\ UNCHANGED <<stored, doing>>

BeginWrite == doing = "nothing" /\ doing' = "write" /\ UNCHANGED <<stored, buffer>>

Writing == /\ doing = "write"
           /\ \/ stored' = NoConfig
              \/ \E n \in 0..5 : stored' = Begun(buffer, n)
           /\ UNCHANGED <<buffer, doing>>

EndWrite == /\ doing = "write" /\ stored = buffer
            /\ doing' = "nothing"
            /\ UNCHANGED <<stored, buffer>>

BeginErase == doing = "nothing" /\ doing' = "erase" /\ UNCHANGED <<stored, buffer>>
Erasing == doing = "erase" /\ stored' = NoConfig /\ UNCHANGED <<buffer, doing>>
EndErase == /\ doing = "erase" /\ stored = NoConfig
            /\ doing' = "nothing"
            /\ UNCHANGED <<stored, buffer>>

PowerLoss == doing' = "off" /\ buffer' \in Config /\ UNCHANGED stored

Next == \/ Start \/ LoadAgain \/ Edit
        \/ BeginWrite \/ Writing \/ EndWrite
        \/ BeginErase \/ Erasing \/ EndErase
        \/ PowerLoss

Spec == Init /\ [][Next]_storeVars
=============================================================================
