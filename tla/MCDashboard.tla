------------------------------ MODULE MCDashboard ------------------------------
\* Three nodes, registered in the order of their names and without positions.
EXTENDS Dashboard

CONSTANTS h1, h2, h3

MCHosts == {h1, h2, h3}
MCInitialNodes == <<h1, h2, h3>>
================================================================================
