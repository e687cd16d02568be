----------------------------- MODULE MCCellRuns -----------------------------
EXTENDS CellRuns, TLC
=============================================================================
