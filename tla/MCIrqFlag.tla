------------------------------ MODULE MCIrqFlag ------------------------------
(* The interrupt flag on small instances.                                  *)
EXTENDS IrqFlag

\* Every poll there is, and those without a fence.
AnySite == {"check", "backedge"}
BackEdges == {"backedge"}
=============================================================================
