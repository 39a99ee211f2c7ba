----------------------------- MODULE MCDemoRun -----------------------------
EXTENDS DemoRun
=============================================================================
