\* Lookup failures of is_whole_disk_image against spec 4.7.
SPECIFICATION Spec
INVARIANT WholeDiskUnknownOnLookupFailure
CHECK_DEADLOCK FALSE
