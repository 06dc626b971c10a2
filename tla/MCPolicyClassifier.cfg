\* Every instance_info, glance answer and HEAD response of the small sets.
SPECIFICATION Spec
INVARIANT PathSourceAgreesWithSpec
CHECK_DEADLOCK FALSE
