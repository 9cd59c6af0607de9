CONSTANT Enabled = {"dns"}
SPECIFICATION Spec
INVARIANT GracefulMeansAllClosed
