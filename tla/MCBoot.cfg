SPECIFICATION BootSpec
INVARIANT ReachesCoreInit
