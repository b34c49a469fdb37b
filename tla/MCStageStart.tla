----------------------------- MODULE MCStageStart -----------------------------
EXTENDS StageStart
===============================================================================
