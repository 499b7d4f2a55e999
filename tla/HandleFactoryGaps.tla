-------------------------- MODULE HandleFactoryGaps --------------------------
(***************************************************************************)
(* The same loader with the operations that leave something behind: images  *)
(* viewed through the extension are not entered as kernel arguments, and an *)
(* external semaphore that is released keeps its loader object.             *)
(***************************************************************************)
EXTENDS HandleFactory

\* "imageViewExt" is not in Arguments: Wrap is the last step of the call.
zeImageViewCreateExt(t, d) == Create(t, "imageViewExt", d)

zeDeviceImportExternalSemaphoreExt(t, d) == Create(t, "semaphore", d)

zeDeviceReleaseExternalSemaphoreExt(t, n) == Destroy(t, "semaphore", n)

\* The call is over: nothing is released.
DriverReleasesSemaphore(t) ==
  /\ At(t, "destroy") /\ call[t].kind = "semaphore"
  /\ Gone(call[t].handle)
  /\ Return(t)
  /\ UNCHANGED loaderVars

NextWithGaps ==
  \/ Next
  \/ \E t \in Thread :
       \/ \E d \in Driver : zeImageViewCreateExt(t, d) \/ zeDeviceImportExternalSemaphoreExt(t, d)
       \/ \E n \in Native : zeDeviceReleaseExternalSemaphoreExt(t, n)
       \/ DriverReleasesSemaphore(t)

SpecWithGaps == Init /\ [][NextWithGaps]_vars

=============================================================================
