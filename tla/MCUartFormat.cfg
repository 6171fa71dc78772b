SPECIFICATION Spec

INVARIANT HexRoundTrip
INVARIANT DivisorIsMinimal
