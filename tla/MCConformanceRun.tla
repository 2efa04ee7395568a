-------------------------- MODULE MCConformanceRun --------------------------
EXTENDS ConformanceRun

MCChecks == {StatusIs4xx, "EncryptVPResponse", "EnsureTls"}
MCAllowed == {"EncryptVPResponse"}
=============================================================================
