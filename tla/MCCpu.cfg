SPECIFICATION CpuSpec
INVARIANTS CpuTypeOK FreezeIsTransparent InterruptsServed
PROPERTIES PollsTake WritesAreSpaced
