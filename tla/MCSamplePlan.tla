---------------------------- MODULE MCSamplePlan ----------------------------
EXTENDS SamplePlan, MixtureConfigs

UnevenMixtures == Uneven(None)
=============================================================================
