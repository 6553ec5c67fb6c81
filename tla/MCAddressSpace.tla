--------------------------- MODULE MCAddressSpace ---------------------------
(* Small instances of AddressSpace for TLC. *)
EXTENDS AddressSpace, TLC

\* Merged contents: the value of either side.
MCSelect(v, w) == CHOOSE u \in {v, w} : TRUE

\* The steps and the properties treat all states alike, First being named in Init
\* only, and all objects but the globals.
MCSymmetry == Permutations(State) \cup Permutations(Object \ Globals)
=============================================================================
