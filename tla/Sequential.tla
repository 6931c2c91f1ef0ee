----------------------------- MODULE Sequential -----------------------------
(***************************************************************************)
(* The parts that run in one thread on their own data, checked in one run: *)
(* the front end, the builtins and the strings and arrays of the runtime.  *)
(* A behaviour is of one of them; the others rest where they start.        *)
(***************************************************************************)
EXTENDS FrontEnd, Library, Store

VARIABLE part       \* the component the behaviour is of

SeqInit == part \in {"front end", "library", "store"} /\ FrontInit /\ LibInit /\ RtInit

SeqNext ==
  /\ UNCHANGED part
  /\ \/ part = "front end" /\ FrontNext /\ UNCHANGED <<libVars, rtVars>>
     \/ part = "library"   /\ LibNext   /\ UNCHANGED <<frontVars, rtVars>>
     \/ part = "store"     /\ RtNext    /\ UNCHANGED <<frontVars, libVars>>

SeqSpec == SeqInit /\ [][SeqNext]_<<frontVars, libVars, rtVars, part>>
=============================================================================
