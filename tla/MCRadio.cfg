CONSTANT Product = "full"
SPECIFICATION Spec
INVARIANTS StreamPath QuietWhenInactive CarrierByMode
