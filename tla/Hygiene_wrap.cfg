\* The documented wipe of both ephemeral secrets of a wrap.
SPECIFICATION Spec
INVARIANT EphemeralsAreWiped
