------------------------ MODULE ExtensionTracingGaps ------------------------
(***************************************************************************)
(* The same layer over a driver that may refuse to have a wrapper          *)
(* installed or removed, out of memory for instance, and goes on with the  *)
(* wrappers it has.  The refusal is what the registration returns, but     *)
(* nothing of it is taken back: the tracer keeps the callback, the count   *)
(* stays, and a hint that was to be raised is raised.                      *)
(***************************************************************************)
EXTENDS ExtensionTracing

DriverRefusesWrapper(t) ==
  /\ opStep[t] = "set"
  /\ IF MustRaiseHint(t)
     THEN /\ opStep' = [opStep EXCEPT ![t] = "hintOn"]
          /\ UNCHANGED <<opTracer, install>>
     ELSE EndInstall(t)
  /\ UNCHANGED <<registryVars, refCount, epilogueInstalled, driverVars, callVars>>

NextWithGaps == Next \/ \E t \in Thread : DriverRefusesWrapper(t)

SpecWithGaps == Init /\ [][NextWithGaps]_vars

=============================================================================
