SPECIFICATION Spec
INVARIANTS NoErrorLost SuspendedIsResumable
PROPERTIES EntryIsPermitted ClosedIsReleased
